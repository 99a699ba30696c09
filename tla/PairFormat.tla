----------------------------- MODULE PairFormat ------------------------------
(***************************************************************************)
(* The two files of a batch database and how timelite.c reads them: which  *)
(* manifest is authoritative, whether the pair can be opened, the handle   *)
(* an open would build, and the batches the pair holds.                    *)
(*                                                                         *)
(* Data are abstracted.  A batch is a sequence number, one timestamp and   *)
(* the attempt that wrote it.  Sizes and offsets of the database file are  *)
(* counted in units: 0 is the 32-byte pair header alone (the layout that   *)
(* has no manifest slots), 1 any length 33..159, DataStart is 160, and a   *)
(* segment is a two-unit header followed by one unit per frame, so that    *)
(* DataStart + 1 can stand for the 161 bytes of an emptied database.  WAL  *)
(* sizes are counted in frames.                                            *)
(***************************************************************************)
EXTENDS Naturals, Sequences, FiniteSets

CONSTANTS
    WalCapacity,  \* TIMELITE_WAL_CAPACITY, in frames
    DbCapacity    \* TIMELITE_DATABASE_CAPACITY, in units

DataStart  == 2
HeaderSize == 2
SegmentMin == HeaderSize + 1

ASSUME CapacityAssumption ==
    WalCapacity \in Nat /\ DbCapacity \in Nat /\ DbCapacity > DataStart

Offsets == DataStart..(DbCapacity - 1)
Batch   == [seq : Nat, time : Nat, id : Nat]

\* Contents of one unit of the database file past the slots.
Junk            == [kind |-> "junk"]
HeaderRest      == [kind |-> "rest"]
Frame(b)        == [kind |-> "frame", batch |-> b]
Header(f, l, m) == [kind |-> "header", first |-> f, last |-> l, max |-> m]

Content == {Junk, HeaderRest}
           \cup [kind : {"frame"}, batch : Batch]
           \cup [kind : {"header"}, first : Nat, last : Nat, max : Nat]

\* A manifest slot: an install record ("TLINSTAL"), a retention record
\* ("TLRETAIN"), or bytes no checksum accepts ("none").  Only a retention
\* record has a root and a phase: read_manifests supplies them for the others.
Manifest ==
    [kind : {"none", "install"}, revision : Nat, count : Nat, end : Nat, last : Nat,
     time : Nat, tail : Nat, root : {DataStart}, phase : {0}]
    \cup
    [kind : {"retain"}, revision : Nat, count : Nat, end : Nat, last : Nat,
     time : Nat, tail : Nat, root : Nat, phase : 0..3]

EncodeManifest(g, end, last, time, tail) ==
    [kind |-> "install", revision |-> g, count |-> g, end |-> end, last |-> last,
     time |-> time, tail |-> tail, root |-> DataStart, phase |-> 0]

EncodeRetention(r, count, end, last, time, tail, root, phase) ==
    [kind |-> "retain", revision |-> r, count |-> count, end |-> end, last |-> last,
     time |-> time, tail |-> tail, root |-> root, phase |-> phase]

EmptyManifest == EncodeManifest(0, DataStart, 0, 0, 0)
NoManifest    == [EmptyManifest EXCEPT !.kind = "none"]

NoSlots == [i \in {0, 1} |-> NoManifest]
NoCells == [o \in Offsets |-> Junk]

\* The 160-byte file create_header writes, the 32-byte one of feature 004,
\* and a name with less than a header behind it.
BareDb(header) == [header |-> header, size |-> 0, slot |-> NoSlots, cell |-> NoCells]
LegacyDb == BareDb("valid")
NewDb    == [LegacyDb EXCEPT !.size = DataStart,
                             !.slot = [NoSlots EXCEPT ![0] = EmptyManifest]]
NewWal(header) == [header |-> header, frames |-> <<>>]

\* A WAL frame is "short" (its 32-byte header is incomplete), "open" (the
\* header is there and the frame is not complete) or "full" (committed).
WalFrame == [batch : Batch, state : {"short", "open", "full"}]

DbImage  == [header : {"absent", "short", "valid"}, size : Nat,
             slot : [{0, 1} -> Manifest], cell : [Offsets -> Content]]
WalImage == [header : {"absent", "short", "valid"}, frames : Seq(WalFrame)]

------------------------------------------------------------------------------
(* Manifests. *)

CheckManifest(m, size) ==
    /\ m.kind = "install"
    /\ m.end >= DataStart /\ m.end <= DbCapacity /\ m.end <= size
    /\ IF m.count = 0 THEN m.end = DataStart /\ m.last = 0
                      ELSE m.last >= m.count /\ m.end >= DataStart + m.count * SegmentMin

RetentionManifest(m, size) ==
    /\ m.kind = "retain"
    /\ m.revision # 0
    /\ m.root >= DataStart /\ m.root <= m.end /\ m.end <= size /\ m.end <= DbCapacity
    /\ m.count * SegmentMin <= m.end - m.root /\ m.count <= m.last
    /\ IF m.count # 0 THEN m.tail >= m.root /\ m.tail < m.end
                      ELSE m.tail = 0 /\ m.root = m.end
    /\ IF m.phase = 2 THEN m.end - m.root <= m.root - DataStart ELSE m.root = DataStart

\* The slots read_manifests accepts: revision r belongs in slot r mod 2.
ValidSlots(d) ==
    {i \in {0, 1} : /\ d.size # 0
                    /\ d.slot[i].revision % 2 = i
                    /\ RetentionManifest(d.slot[i], d.size) \/ CheckManifest(d.slot[i], d.size)}

Newest(d) == CHOOSE i \in ValidSlots(d) :
                 \A j \in ValidSlots(d) : d.slot[j].revision <= d.slot[i].revision

\* A file without a valid manifest is empty, or not a database at all.
ReadManifests(d) == IF ValidSlots(d) = {} THEN EmptyManifest ELSE d.slot[Newest(d)]
ManifestsReadable(d) == ValidSlots(d) # {} \/ d.size <= DataStart

------------------------------------------------------------------------------
(* Segments. *)

\* read_segment: a whole, checksummed header at o whose body fits before end.
SegmentOK(d, o, end) ==
    /\ o + HeaderSize <= end
    /\ d.cell[o].kind = "header" /\ d.cell[o + 1] = HeaderRest
    /\ d.cell[o].first # 0 /\ d.cell[o].first <= d.cell[o].last
    /\ d.cell[o].last - d.cell[o].first < WalCapacity
    /\ o + HeaderSize + (d.cell[o].last - d.cell[o].first) < end

SegmentSize(d, o) == HeaderSize + (d.cell[o].last - d.cell[o].first + 1)

\* Offsets of the count segments from root, then the offset after the last;
\* 0 from the first one that read_segment refuses.
Walk(d, root, count, end) ==
    LET at[k \in 0..count] ==
            IF k = 0 THEN root
            ELSE LET o == at[k - 1]
                 IN  IF o # 0 /\ SegmentOK(d, o, end) THEN o + SegmentSize(d, o) ELSE 0
    IN  at

\* Where the segments a manifest lists begin.
Segments(d, m) ==
    LET at == Walk(d, m.root, m.count, m.end)
    IN  {o \in Offsets : SegmentOK(d, o, m.end) /\ \E k \in 0..(m.count - 1) : at[k] = o}

\* check_segments: the walk ends exactly at the manifest's end, sequences rise
\* (without gaps before the first retention), and tail and time agree.
CheckSegments(d, m) ==
    LET at == Walk(d, m.root, m.count, m.end)
        first(k) == d.cell[at[k]].first
        last(k) == IF k = 0 THEN 0 ELSE d.cell[at[k - 1]].last
    IN  /\ at[m.count] = m.end
        /\ \A k \in 0..(m.count - 1) :
              IF m.kind = "install" THEN first(k) = last(k) + 1 ELSE first(k) > last(k)
        /\ IF m.kind = "install" THEN last(m.count) = m.last ELSE last(m.count) <= m.last
        /\ m.count # 0 => m.tail = at[m.count - 1]
        /\ m.kind = "install" /\ m.count # 0 => m.time = d.cell[m.tail].max

\* Mutant: last - first, without the + 1.
LiveBatchesShort(d, m, starts) ==
    Cardinality({s \in 1..m.last :
                    \E o \in starts : s > d.cell[o].first /\ s <= d.cell[o].last})

\* Batches in live segments: the sum of last - first + 1 over disjoint ranges.
LiveBatches(d, m, starts) ==
    Cardinality({s \in 1..m.last :
                    \E o \in starts : s >= d.cell[o].first /\ s <= d.cell[o].last})

\* The units of a segment and of its body, the batch read_frame must find in each, and
\* whether it does.
Units(d, o) == {x \in Offsets : x >= o /\ x < o + SegmentSize(d, o)}
Body(d, o) == {x \in Units(d, o) : x >= o + HeaderSize}
FrameOK(d, o, x) == /\ d.cell[x].kind = "frame"
                    /\ d.cell[x].batch.seq = d.cell[o].first + (x - o - HeaderSize)
FramesOK(d, o) == \A x \in Body(d, o) : FrameOK(d, o, x)
SegmentBatches(d, o) == {d.cell[x].batch : x \in {y \in Body(d, o) : FrameOK(d, o, y)}}

------------------------------------------------------------------------------
(* The write-ahead log, read after the manifest m of its database. *)

FullFrames(w) == {i \in DOMAIN w.frames : w.frames[i].state = "full"}
WalSeq(w, i)  == w.frames[i].batch.seq

\* Frames at or below the installed sequence: a reclaim was interrupted.
Stale(w, m) == w.frames # <<>> /\ w.frames[1].state # "short" /\ WalSeq(w, 1) \in 1..m.last
WalBase(w, m) == IF Stale(w, m) THEN WalSeq(w, 1) - 1 ELSE m.last

\* Every frame is committed and in sequence; only the last may be incomplete,
\* and only if its header is whole.  A stale log ends at the installed sequence.
WalOK(w, m) ==
    /\ Len(w.frames) <= WalCapacity
    /\ \A i \in DOMAIN w.frames :
          /\ WalSeq(w, i) = WalBase(w, m) + i
          /\ \/ w.frames[i].state = "full"
             \/ w.frames[i].state = "open" /\ i = Len(w.frames) /\ ~Stale(w, m)
    /\ Stale(w, m) => WalBase(w, m) + Len(w.frames) = m.last

\* The last sequence a recovery finds.
LastSequence(w, m) == WalBase(w, m) + Cardinality(FullFrames(w))

\* Mutant: the rule for interrupted installs applied to interrupted expiries.
OrphanOKIgnoringPhase(d, w, m) ==
    \/ d.size <= m.end
    \/ m.kind = "retain" /\ m.count = 0 /\ d.size = DataStart + 1
    \/ ~Stale(w, m) /\ LastSequence(w, m) # m.last

\* Bytes past data_end are an interrupted install, so the frames it copied
\* must still be in the log; an emptied retained database keeps one byte.
OrphanOK(d, w, m) ==
    \/ d.size <= m.end
    \/ m.phase # 0
    \/ m.kind = "retain" /\ m.count = 0 /\ d.size = DataStart + 1
    \/ ~Stale(w, m) /\ LastSequence(w, m) # m.last

------------------------------------------------------------------------------
(* What open makes of a pair. *)

\* timelite_batches_open gets past every check it makes before its first write.
Opens(d, w) ==
    LET m == ReadManifests(d)
    IN  /\ d.header = "valid" /\ w.header = "valid"
        /\ ManifestsReadable(d)
        /\ CheckSegments(d, m)
        /\ WalOK(w, m)
        /\ OrphanOK(d, w, m)

\* The last committed frame past the installed sequence decides the time floor.
LastTime(w, m) == IF ~Stale(w, m) /\ FullFrames(w) # {}
                  THEN w.frames[Cardinality(FullFrames(w))].batch.time
                  ELSE m.time

LatestTime(w) == LET times == {w.frames[i].batch.time : i \in FullFrames(w)}
                 IN  IF \E t \in times : \A u \in times : u <= t
                     THEN CHOOSE t \in times : \A u \in times : u <= t
                     ELSE 0

NoHandle == [open |-> FALSE, failed |-> FALSE, end |-> 0, sequence |-> 0,
             dataEnd |-> DataStart, installed |-> 0, generation |-> 0, revision |-> 0,
             live |-> 0, retention |-> FALSE, lastTime |-> 0, installedTime |-> 0,
             walMax |-> 0, lastSegment |-> 0, legacy |-> FALSE]

\* The handle open builds from what it reads (retention is finished later).
Recovered(d, w) ==
    LET m == ReadManifests(d)
    IN  [open |-> FALSE, failed |-> FALSE,
         end |-> IF Stale(w, m) THEN 0 ELSE Cardinality(FullFrames(w)),
         sequence |-> LastSequence(w, m), dataEnd |-> m.end, installed |-> m.last,
         generation |-> m.count, revision |-> m.revision,
         live |-> LiveBatches(d, m, Segments(d, m)), retention |-> m.kind = "retain",
         lastTime |-> LastTime(w, m), installedTime |-> m.time, walMax |-> LatestTime(w),
         lastSegment |-> m.tail, legacy |-> d.size = 0]

\* The batches a pair holds: the frames of the listed segments and the
\* committed frames of the log past the installed sequence.
Held(d, w) ==
    LET m == ReadManifests(d)
    IN  (UNION {SegmentBatches(d, o) : o \in Segments(d, m)})
        \cup {w.frames[i].batch : i \in {j \in FullFrames(w) : WalSeq(w, j) > m.last}}
==============================================================================
