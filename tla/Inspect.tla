------------------------------- MODULE Inspect -------------------------------
(***************************************************************************)
(* timelite-inspect verify: a second reading of the two files, written     *)
(* without the library, that predicts what the library's open would do and *)
(* what its status would be afterwards.  The tool only reads, so it is a   *)
(* function of the files; module BatchPair supplies every pair of files    *)
(* that calls, crashes and I/O errors can leave behind.                    *)
(*                                                                         *)
(* The links of the segment headers and the records of a frame are not in  *)
(* these images (modules SegmentIndex and BatchReader have them).          *)
(***************************************************************************)
EXTENDS BatchPair

------------------------------------------------------------------------------
(* Manifest slots. *)

\* Slot i holds bytes that are neither zero nor a record.  Creation wrote slot
\* 0, and revision 1 was in slot 1 before revision 2 was in slot 0; otherwise
\* slot 1 may still be zero, and is taken to be.
Scrap(d, i) ==
    d.slot[i].kind = "none" /\ (i = 0 \/ (d.slot[0].kind # "none" /\ d.slot[0].revision >= 2))

\* inspect_slot_parse: the range rules for a record whose checksum passed.
RetentionInRange(m, size) ==
    /\ m.revision > 0 /\ m.phase <= 3
    /\ ~(m.root < DataStart \/ m.root > m.end \/ m.end > size \/ m.end > DbCapacity)
    /\ ~(m.count > (m.end - m.root) \div SegmentMin \/ m.count > m.last)
    /\ IF m.count # 0 THEN m.tail \in m.root..(m.end - 1) ELSE m.tail = 0 /\ m.root = m.end
    /\ ~(IF m.phase = 2 THEN m.end - m.root > m.root - DataStart ELSE m.root # DataStart)

InstallInRange(m, size) ==
    /\ ~(m.end < DataStart \/ m.end > DbCapacity \/ m.end > size)
    /\ ~(IF m.revision = 0 THEN m.end # DataStart \/ m.last # 0
         ELSE \/ m.revision > (DbCapacity - DataStart) \div SegmentMin
              \/ m.last < m.revision
              \/ m.end < DataStart + m.revision * SegmentMin)

SlotInRange(m, size) ==
    \/ m.kind = "retain" /\ RetentionInRange(m, size)
    \/ m.kind = "install" /\ InstallInRange(m, size)

\* The four states of a slot; a record in the slot of the other parity counts
\* as damage, and one the newer record outdated as superseded.
SlotValid(d, i) == SlotInRange(d.slot[i], d.size) /\ d.slot[i].revision % 2 = i
WellFormed(d, i) == /\ d.slot[i].kind # "none"
                    /\ ~(SlotInRange(d.slot[i], d.size) /\ d.slot[i].revision % 2 # i)

ActiveSlots(d) ==
    {i \in {0, 1} : /\ d.size # 0 /\ SlotValid(d, i)
                    /\ \A j \in {0, 1} : SlotValid(d, j) => d.slot[j].revision <= d.slot[i].revision}

\* Mutant: an outdated record counts as damage.
SupersededNever(d, i) == FALSE

Superseded(d, i) == /\ WellFormed(d, i) /\ ~SlotValid(d, i)
                    /\ \E a \in ActiveSlots(d) : d.slot[i].revision < d.slot[a].revision

SlotProblems(d) ==
    {<<"slot", i>> : i \in {j \in {0, 1} : /\ d.size # 0
                                           /\ Scrap(d, j) \/ (d.slot[j].kind # "none" /\ ~SlotValid(d, j))
                                           /\ ~Superseded(d, j)}}

\* What inspect_verify starts from, and what it takes from the active slot.
BlankManifest == [generation |-> 0, end |-> DataStart, installed |-> 0, time |-> 0,
                  hasTime |-> FALSE, retention |-> FALSE, root |-> DataStart, tail |-> 0,
                  phase |-> 0]

ActiveManifest(d) ==
    IF ActiveSlots(d) = {} THEN BlankManifest
    ELSE LET m == d.slot[CHOOSE i \in ActiveSlots(d) : TRUE]
         IN  [generation |-> m.count, end |-> m.end, installed |-> m.last, time |-> m.time,
              hasTime |-> m.kind = "retain" \/ m.revision # 0,
              retention |-> m.kind = "retain", root |-> m.root, tail |-> m.tail,
              phase |-> IF m.kind = "retain" THEN m.phase ELSE 0]

NoManifestError(d) == ActiveSlots(d) = {} /\ d.size > DataStart

------------------------------------------------------------------------------
(* Segments: inspect_segment_parse, inspect_segment_frames, inspect_segments. *)

ParsesAt(d, o, end) ==
    /\ o <= end /\ end - o >= HeaderSize
    /\ d.cell[o].kind = "header" /\ d.cell[o + 1] = HeaderRest
    /\ ~(d.cell[o].first = 0 \/ d.cell[o].last < d.cell[o].first)
    /\ LET frames == d.cell[o].last - d.cell[o].first + 1
       IN  frames <= WalCapacity /\ frames <= end - o - HeaderSize

\* Frames read in order until the first that does not parse.
FramesRead(d, o) ==
    LET want == d.cell[o].last - d.cell[o].first + 1
        ok(k) == /\ d.cell[o + HeaderSize + k].kind = "frame"
                 /\ d.cell[o + HeaderSize + k].batch.seq = d.cell[o].first + k
    IN  CHOOSE n \in 0..want : /\ \A k \in 0..(n - 1) : ok(k)
                               /\ n < want => ~ok(n)

\* One round of the loop: acc carries the offset, the last sequence, the batches
\* counted, the errors predicted and the problems listed.
SegmentRound(d, a, acc) ==
    LET o == acc.at
        s == d.cell[o]
        frames == s.last - s.first + 1
        continues == IF a.retention THEN s.first > acc.seq ELSE s.first = acc.seq + 1
        past == {k \in 1..FramesRead(d, o) : d.cell[o + HeaderSize + k - 1].batch.time > s.max}
    IN  IF acc.stop THEN acc
        ELSE IF ~ParsesAt(d, o, a.end)
             THEN [acc EXCEPT !.stop = TRUE, !.error = TRUE, !.problems = @ \cup {<<"header", o>>}]
        ELSE [at |-> o + HeaderSize + frames, seq |-> s.last, tail |-> o, stop |-> FALSE,
              live |-> acc.live + frames, error |-> acc.error \/ ~continues,
              problems |-> acc.problems
                           \cup (IF continues THEN {} ELSE {<<"sequence", o>>})
                           \cup (IF FramesRead(d, o) = frames THEN {} ELSE {<<"frame", o>>})
                           \cup {<<"span", o, k>> : k \in past}]

SegmentChain(d, a) ==
    LET rounds[n \in 0..a.generation] ==
            IF n = 0
            THEN [at |-> a.root, seq |-> 0, tail |-> 0, stop |-> FALSE, live |-> 0,
                  error |-> FALSE, problems |-> {}]
            ELSE SegmentRound(d, a, rounds[n - 1])
    IN  rounds[a.generation]

\* The comparisons of the finished chain with the manifest; each is a problem
\* and predicts that open fails.
ChainProblems(d, a, chain) ==
    IF chain.error THEN {}
    ELSE {p \in {"end", "installed", "tail", "time"} :
            \/ p = "end" /\ chain.at # a.end
            \/ p = "installed" /\ a.generation # 0
               /\ (chain.seq > a.installed \/ (~a.retention /\ chain.seq # a.installed))
            \/ p = "tail" /\ a.generation # 0 /\ a.hasTime /\ a.tail # chain.tail
            \/ p = "time" /\ a.generation # 0 /\ a.hasTime /\ ~a.retention
               /\ a.time # d.cell[chain.tail].max}

------------------------------------------------------------------------------
(* The log: inspect_wal. *)

FirstSequence(w) == w.frames[1].batch.seq
WalStale(w, a) == w.frames # <<>> /\ FirstSequence(w) # 0 /\ FirstSequence(w) <= a.installed

\* Frames accepted from the start of the log, and how the scan ends.
Scanned(w, a) ==
    LET base == IF WalStale(w, a) THEN FirstSequence(w) - 1 ELSE a.installed
        ok(i) == w.frames[i].state = "full" /\ w.frames[i].batch.seq = base + i
    IN  CHOOSE n \in 0..Len(w.frames) : /\ \A i \in 1..n : ok(i)
                                        /\ n < Len(w.frames) => ~ok(n + 1)

ScannedTo(w, a) == (IF WalStale(w, a) THEN FirstSequence(w) - 1 ELSE a.installed) + Scanned(w, a)

\* The frame that ends the scan is an incomplete last one with a whole header.
IncompleteSuffix(w, a) ==
    LET n == Scanned(w, a) + 1
    IN  /\ n = Len(w.frames) /\ w.frames[n].state = "open"
        /\ w.frames[n].batch.seq = ScannedTo(w, a) + 1
        /\ ~WalStale(w, a)

\* Mutant: the tail an interrupted expiry leaves counts as a lost install.
OrphanBytesAnyPhase(d, w, a) ==
    /\ d.size > a.end
    /\ ~(a.retention /\ a.generation = 0 /\ d.size = DataStart + 1)
    /\ WalStale(w, a) \/ ScannedTo(w, a) = a.installed

\* Bytes past the end that no frame of the log accounts for.
OrphanBytes(d, w, a) ==
    /\ d.size > a.end /\ a.phase = 0
    /\ ~(a.retention /\ a.generation = 0 /\ d.size = DataStart + 1)
    /\ WalStale(w, a) \/ ScannedTo(w, a) = a.installed

WalProblems(d, w, a) ==
    IF Len(w.frames) > WalCapacity THEN {"wal size"}
    ELSE IF w.frames # <<>> /\ w.frames[1].state = "short" THEN {"first frame"}
    ELSE IF Scanned(w, a) < Len(w.frames) /\ ~IncompleteSuffix(w, a) THEN {"wal frame"}
    ELSE {p \in {"stale", "orphan"} :
            \/ p = "stale" /\ WalStale(w, a) /\ ScannedTo(w, a) # a.installed
            \/ p = "orphan" /\ OrphanBytes(d, w, a)}

------------------------------------------------------------------------------
(* inspect_verify: the stages in the order of the library's open. *)

\* Whether open is predicted to succeed, and the problems listed.
Verify(d, w) ==
    LET a     == ActiveManifest(d)
        chain == SegmentChain(d, a)
        after == ChainProblems(d, a, chain)
        log   == WalProblems(d, w, a)
    IN  IF d.header # "valid" \/ w.header # "valid" THEN [ok |-> FALSE, problems |-> {"header"}]
        ELSE IF NoManifestError(d)
             THEN [ok |-> FALSE, problems |-> SlotProblems(d) \cup {"no manifest"}]
        ELSE IF chain.error \/ after # {}
             THEN [ok |-> FALSE, problems |-> SlotProblems(d) \cup chain.problems \cup after]
        ELSE [ok |-> log = {}, problems |-> SlotProblems(d) \cup chain.problems \cup log]

ExitCode(d, w) == IF Verify(d, w) = [ok |-> TRUE, problems |-> {}] THEN 0 ELSE 1

\* Mutant: the extent of an interrupted expiry is predicted as it stands.
PredictedEndUnfinished(a) == a.end

\* The end of the data after the recovery has moved a tail copy to the front.
PredictedEnd(a) == IF a.phase = 2 THEN DataStart + (a.end - a.root) ELSE a.end

\* Mutant: the manifest's timestamp although frames are pending.
FloorTimeInstalled(w, a) == IF a.hasTime THEN a.time ELSE 0

\* The timestamp below which an append would be refused.
FloorTime(w, a) ==
    IF ~WalStale(w, a) /\ ScannedTo(w, a) > a.installed THEN w.frames[Scanned(w, a)].batch.time
    ELSE IF a.hasTime THEN a.time ELSE 0

\* inspect_summary: the predicted fields of timelite_batches_status.
Predicted(d, w) ==
    LET a == ActiveManifest(d)
        pending == IF WalStale(w, a) THEN 0 ELSE ScannedTo(w, a) - a.installed
        live == SegmentChain(d, a).live
    IN  [committed |-> live + pending, installed |-> live, pending |-> pending,
         segments |-> a.generation, walFrames |-> IF WalStale(w, a) THEN 0 ELSE Scanned(w, a),
         installedUnits |-> PredictedEnd(a) - DataStart,
         lastTime |-> FloorTime(w, a)]

\* timelite_batches_get_status, which the tool's status mode prints.
Status(x) ==
    [committed |-> x.live + (x.sequence - x.installed), installed |-> x.live,
     pending |-> x.sequence - x.installed, segments |-> x.generation, walFrames |-> x.end,
     installedUnits |-> x.dataEnd - DataStart, lastTime |-> x.lastTime]

------------------------------------------------------------------------------
(* Properties. *)

\* verify predicts success for exactly the pairs that the library opens,
\* whatever a crash or an error left of a call or of a recovery.
VerifyPredictsOpen ==
    \A p \in Pairs : Verify(p[1], p[2]).ok <=> Opens(p[1], p[2])

\* Between calls the status verify predicts from the files is the one the
\* open handle returns.
VerifyMatchesStatus == Ready => Predicted(dbDisk, walDisk) = Status(h)

\* The slots that a write left torn.
TornSlots(d) == {i \in {0, 1} : Scrap(d, i)}

\* verify has no fault to find in what the library recovers from without loss: it
\* predicts that open succeeds and lists nothing but the torn slots themselves, so
\* it exits 0 where none is torn.  Only a log that ends inside a frame header, a
\* prefix cut short while it was first written, and a database whose torn slots
\* leave no manifest at all are reported as more.
CrashesAreCoherent ==
    \A p \in Pairs : p[1].header = "valid" /\ p[2].header = "valid" =>
        \/ ShortTail(p[2])
        \/ p[1].size \in 1..(DataStart - 1)
        \/ NoManifestError(p[1]) /\ TornSlots(p[1]) # {}
        \/ /\ Verify(p[1], p[2]).ok
           /\ Verify(p[1], p[2]).problems \subseteq {<<"slot", i>> : i \in TornSlots(p[1])}

\* An open that has validated and provisioned the files and is changing them.
Recovering == /\ ~h.open
              /\ pc \notin {"closed", "probe", "createWal", "dbHeader", "walHeader",
                            "validate", "provisionDb", "provisionWal"}

\* The status predicted before a recovery is the one predicted after each of
\* its steps, and after each crash or error that interrupts it, so that it is
\* still the prediction when the recovery is complete.
RecoveryKeepsPrediction ==
    [][Recovering => Predicted(dbCache', walCache') = Predicted(dbCache, walCache)]_vars

\* Feature 012, rule 4: every pair the real library creates or recovers must
\* verify with zero inconsistencies.
RecoveredVerifiesClean == Ready => ExitCode(dbDisk, walDisk) = 0
==============================================================================
