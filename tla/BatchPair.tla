------------------------------ MODULE BatchPair ------------------------------
(***************************************************************************)
(* The batch database of timelite.c: one process, one handle, two files.   *)
(*                                                                         *)
(* Committed batches live in the write-ahead log (WAL) until a checkpoint  *)
(* copies them into a segment of the database file; retention rewrites the *)
(* database file without the segments older than a cutoff.  A call is cut  *)
(* into its writes, syncs and truncations, because a power failure or an   *)
(* I/O error may fall between any two of them.  Calls that return early    *)
(* (bad arguments, WAL_FULL, DATABASE_FULL, OUT_OF_ORDER, EOVERFLOW, a     *)
(* checkpoint of an empty log, an expiry that removes nothing) change      *)
(* nothing: their conditions are the guards of the first step of the call. *)
(***************************************************************************)
EXTENDS PairStorage

CONSTANTS
    Times,        \* timestamps of records
    Cutoffs,      \* arguments of timelite_batches_expire_before
    MaxRevision,  \* stands for UINT64_MAX, the largest manifest revision
    Starts,       \* pairs to begin with: "empty", "legacy" or "absent"
    MaxAppends,   \* bound: append calls in a behaviour
    MaxFaults     \* bound: crashes and I/O errors in a behaviour

ASSUME TimesAssumption    == Times \subseteq Nat /\ Cutoffs \subseteq Nat
ASSUME RevisionAssumption == MaxRevision \in Nat
ASSUME StartsAssumption   == Starts \subseteq {"empty", "legacy", "absent"}
ASSUME BoundsAssumption   == MaxAppends \in Nat /\ MaxFaults \in Nat

VARIABLES
    dbCache, dbDisk,    \* database file: as read, and as a power failure leaves it
    walCache, walDisk,  \* write-ahead log, likewise
    h,                  \* struct timelite_batches, or the locals of open
    pc,                 \* next step of the call in progress, "open" or "closed"
    loc,                \* locals of retention: the manifest to publish next
    tries, faults,      \* counters for the bounds
    acked,              \* history: batches whose append returned 0
    doom,               \* history: batches the last expire call may remove
    doomed              \* history: batches some expire call may remove

db      == <<dbCache, dbDisk>>
wal     == <<walCache, walDisk>>
counts  == <<tries, faults>>
history == <<acked, doom, doomed>>
vars    == <<db, wal, h, pc, loc, counts, history>>

\* retention_state and the arguments of publish_retention; NoLoc between calls.
NoLoc == [revision |-> 0, count |-> 0, end |-> DataStart, tail |-> 0,
          root |-> DataStart, phase |-> 0, live |-> 0, cutoff |-> 0]

Init ==
    /\ \E start \in Starts :
          /\ dbCache = CASE start = "empty"  -> NewDb
                         [] start = "legacy" -> LegacyDb
                         [] start = "absent" -> BareDb("absent")
          /\ walCache = NewWal(IF start = "absent" THEN "absent" ELSE "valid")
    /\ dbDisk = dbCache /\ walDisk = walCache
    /\ h = NoHandle /\ pc = "closed" /\ loc = NoLoc
    /\ tries = 0 /\ faults = 0
    /\ acked = {} /\ doom = {} /\ doomed = {}

------------------------------------------------------------------------------
(* Steps shared by the calls. *)

Goto(from, to) == pc = from /\ pc' = to

\* timelite_file_sync: the bytes become durable, a name not yet durable does not.
SyncDb  == /\ dbDisk' = IF dbDisk.header = "absent" THEN dbDisk ELSE dbCache
           /\ UNCHANGED <<dbCache, wal>>
SyncWal == /\ walDisk' = IF walDisk.header = "absent" THEN walDisk ELSE walCache
           /\ UNCHANGED <<walCache, db>>

Ready == pc = "open" /\ ~h.failed

------------------------------------------------------------------------------
(* timelite_batches_open, OPEN_OR_CREATE. *)

OpenStart ==
    /\ Goto("closed", IF dbCache.header = "absent" THEN "probe" ELSE "validate")
    /\ UNCHANGED <<db, wal, h, loc, counts, history>>

\* Never create a database next to an orphan WAL.
RefuseOrphanWal ==
    /\ Goto("probe", "closed")
    /\ walCache.header # "absent"
    /\ UNCHANGED <<db, wal, h, loc, counts, history>>

CreateDb ==
    /\ Goto("probe", "createWal")
    /\ walCache.header = "absent"
    /\ dbCache' = BareDb("short")
    /\ UNCHANGED <<dbDisk, wal, h, loc, counts, history>>

CreateWal ==
    /\ Goto("createWal", "dbHeader")
    /\ walCache' = NewWal("short")
    /\ UNCHANGED <<walDisk, db, h, loc, counts, history>>

WriteDbHeader ==
    /\ Goto("dbHeader", "walHeader")
    /\ dbCache' = NewDb
    /\ UNCHANGED <<dbDisk, wal, h, loc, counts, history>>

WriteWalHeader ==
    /\ Goto("walHeader", "validate")
    /\ walCache' = NewWal("valid")
    /\ UNCHANGED <<walDisk, db, h, loc, counts, history>>

Reject ==
    /\ Goto("validate", "closed")
    /\ ~Opens(dbCache, walCache)
    /\ UNCHANGED <<db, wal, h, loc, counts, history>>

\* Everything is read before anything is written; h and loc hold the locals.
Validate ==
    /\ Goto("validate", "provisionDb")
    /\ Opens(dbCache, walCache)
    /\ h' = Recovered(dbCache, walCache)
    /\ LET m == ReadManifests(dbCache)
       IN  loc' = [NoLoc EXCEPT !.revision = m.revision, !.count = m.count, !.end = m.end,
                                !.tail = m.tail, !.root = m.root, !.phase = m.phase]
    /\ UNCHANGED <<db, wal, counts, history>>

\* timelite_file_provision syncs the file and the directory entry.
ProvisionDb ==
    /\ Goto("provisionDb", "provisionWal")
    /\ dbDisk' = dbCache
    /\ UNCHANGED <<dbCache, wal, h, loc, counts, history>>

AfterProvision == IF loc.phase = 0 THEN "trimWal" ELSE "finish"

\* Mutant: the log is synced, its directory entry is not.
ProvisionWalNoName ==
    /\ Goto("provisionWal", AfterProvision)
    /\ SyncWal
    /\ UNCHANGED <<h, loc, counts, history>>

ProvisionWal ==
    /\ Goto("provisionWal", AfterProvision)
    /\ walDisk' = walCache
    /\ UNCHANGED <<walCache, db, h, loc, counts, history>>

\* A stale log is emptied, an incomplete last frame is cut.
TrimWal ==
    /\ Goto("trimWal", "syncTrim")
    /\ h.end < Len(walCache.frames)
    /\ walCache' = [walCache EXCEPT !.frames = SubSeq(@, 1, h.end)]
    /\ UNCHANGED <<walDisk, db, h, loc, counts, history>>

NothingToTrim ==
    /\ Goto("trimWal", "openReturn")
    /\ h.end >= Len(walCache.frames)
    /\ UNCHANGED <<db, wal, h, loc, counts, history>>

SyncTrim ==
    /\ Goto("syncTrim", "openReturn")
    /\ SyncWal
    /\ UNCHANGED <<h, loc, counts, history>>

OpenReturn ==
    /\ Goto("openReturn", "open")
    /\ h' = [h EXCEPT !.open = TRUE, !.dataEnd = loc.end, !.lastSegment = loc.tail,
                      !.revision = loc.revision]
    /\ loc' = NoLoc
    /\ UNCHANGED <<db, wal, counts, history>>

Close ==
    /\ Goto("open", "closed")
    /\ h' = NoHandle
    /\ UNCHANGED <<db, wal, loc, counts, history>>

------------------------------------------------------------------------------
(* timelite_batches_append. *)

NextBatch(t) == [seq |-> h.sequence + 1, time |-> t, id |-> tries]

\* The frame without its commit record; the handle is failed until the end.
AppendBatch(t) ==
    /\ Ready
    /\ tries < MaxAppends
    /\ h.sequence # 0 => t >= h.lastTime
    /\ h.end < WalCapacity
    /\ pc' = "syncBody"
    /\ h' = [h EXCEPT !.failed = TRUE]
    /\ walCache' = [walCache EXCEPT !.frames =
                       Append(@, [batch |-> NextBatch(t), state |-> "open"])]
    /\ tries' = tries + 1
    /\ UNCHANGED <<walDisk, db, loc, faults, history>>

SyncBody ==
    /\ Goto("syncBody", "commit")
    /\ SyncWal
    /\ UNCHANGED <<h, loc, counts, history>>

WriteCommit ==
    /\ Goto("commit", "syncCommit")
    /\ walCache' = [walCache EXCEPT !.frames[Len(walCache.frames)].state = "full"]
    /\ UNCHANGED <<walDisk, db, h, loc, counts, history>>

SyncCommit ==
    /\ Goto("syncCommit", "appendReturn")
    /\ SyncWal
    /\ UNCHANGED <<h, loc, counts, history>>

Written == walCache.frames[Len(walCache.frames)].batch

AppendReturn ==
    /\ Goto("appendReturn", "open")
    /\ h' = [h EXCEPT !.failed = FALSE, !.end = @ + 1, !.sequence = Written.seq,
                      !.lastTime = Written.time,
                      !.walMax = IF h.end = 0 \/ Written.time > @ THEN Written.time ELSE @]
    /\ acked' = acked \cup {Written}
    /\ UNCHANGED <<db, wal, loc, counts, doom, doomed>>

------------------------------------------------------------------------------
(* timelite_batches_checkpoint. *)

NewEnd == h.dataEnd + HeaderSize + h.end

Checkpoint ==
    /\ Ready
    /\ h.end # 0
    /\ h.revision < MaxRevision
    /\ NewEnd <= DbCapacity
    /\ pc' = IF h.legacy THEN "upgrade" ELSE "segment"
    /\ h' = [h EXCEPT !.failed = TRUE]
    /\ UNCHANGED <<db, wal, loc, counts, history>>

\* A 32-byte file first gets its manifest slots.
UpgradePrefix ==
    /\ Goto("upgrade", "syncUpgrade")
    /\ dbCache' = [NewDb EXCEPT !.cell = dbCache.cell]
    /\ UNCHANGED <<dbDisk, wal, h, loc, counts, history>>

\* Mutant: the handle goes on believing in the old layout.
SyncUpgradeStillLegacy ==
    /\ Goto("syncUpgrade", "segment")
    /\ SyncDb
    /\ UNCHANGED <<h, loc, counts, history>>

SyncUpgrade ==
    /\ Goto("syncUpgrade", "segment")
    /\ SyncDb
    /\ h' = [h EXCEPT !.legacy = FALSE]
    /\ UNCHANGED <<loc, counts, history>>

\* The frames the checkpoint copies are validated again as they are read.
WalFramesOK == /\ Len(walCache.frames) >= h.end
               /\ h.installed + h.end = h.sequence
               /\ \A i \in 1..h.end : /\ walCache.frames[i].state = "full"
                                      /\ WalSeq(walCache, i) = h.installed + i

SegmentImage ==
    [o \in h.dataEnd..(NewEnd - 1) |->
        CASE o = h.dataEnd     -> Header(h.installed + 1, h.sequence, h.walMax)
          [] o = h.dataEnd + 1 -> HeaderRest
          [] OTHER -> Frame(walCache.frames[o - h.dataEnd - 1].batch)]

WriteSegment ==
    /\ Goto("segment", "syncSegment")
    /\ WalFramesOK
    /\ dbCache' = WriteCells(dbCache, NewEnd, SegmentImage)
    /\ UNCHANGED <<dbDisk, wal, h, loc, counts, history>>

\* Mutant: the manifest is written without waiting for the segment.
SyncSegmentSkipped ==
    /\ Goto("syncSegment", "manifest")
    /\ UNCHANGED <<db, wal, h, loc, counts, history>>

SyncSegment ==
    /\ Goto("syncSegment", "manifest")
    /\ SyncDb
    /\ UNCHANGED <<h, loc, counts, history>>

InstallRecord ==
    IF h.retention
    THEN EncodeRetention(h.revision + 1, h.generation + 1, NewEnd, h.sequence,
                         h.lastTime, h.dataEnd, DataStart, 0)
    ELSE EncodeManifest(h.generation + 1, NewEnd, h.sequence, h.lastTime, h.dataEnd)

WriteManifest ==
    /\ Goto("manifest", "syncManifest")
    /\ dbCache' = WriteSlot(dbCache, h.revision + 1, InstallRecord)
    /\ UNCHANGED <<dbDisk, wal, h, loc, counts, history>>

\* Mutant: the floor that retention will publish is not advanced.
InstalledOldTime(x) ==
    [x EXCEPT !.generation = @ + 1, !.revision = @ + 1,
              !.live = @ + (x.sequence - x.installed),
              !.dataEnd = NewEnd, !.lastSegment = x.dataEnd, !.installed = x.sequence]

Installed(x) ==
    [x EXCEPT !.installedTime = x.lastTime, !.generation = @ + 1, !.revision = @ + 1,
              !.live = @ + (x.sequence - x.installed),
              !.dataEnd = NewEnd, !.lastSegment = x.dataEnd, !.installed = x.sequence]

\* The install point, and the handle's account of it.
SyncManifest ==
    /\ Goto("syncManifest", "reclaim")
    /\ SyncDb
    /\ h' = Installed(h)
    /\ UNCHANGED <<loc, counts, history>>

Reclaim ==
    /\ Goto("reclaim", "syncReclaim")
    /\ walCache' = NewWal("valid")
    /\ UNCHANGED <<walDisk, db, h, loc, counts, history>>

SyncReclaim ==
    /\ Goto("syncReclaim", "open")
    /\ SyncWal
    /\ h' = [h EXCEPT !.end = 0, !.failed = FALSE]
    /\ UNCHANGED <<loc, counts, history>>

------------------------------------------------------------------------------
(* timelite_batches_expire_before and finish_retention. *)

\* What the handle believes is installed.
HandleManifest == EncodeRetention(h.revision, h.generation, h.dataEnd, h.installed,
                                  h.installedTime, h.lastSegment, DataStart, 0)
InstalledSegments == Segments(dbCache, HandleManifest)

\* Mutant: a segment whose latest timestamp is just below the cutoff stays.
SegmentExpiresLate(o, c) == dbCache.cell[o].max + 1 < c
SegmentExpires(o, c) == dbCache.cell[o].max < c
Kept(c) == {o \in InstalledSegments : ~SegmentExpires(o, c)}
KeptUnits(c) == UNION {Units(dbCache, o) : o \in Kept(c)}

\* The promise: installed segments whose every timestamp is below the cutoff.
Entitled(c) == UNION {SegmentBatches(dbCache, o) : o \in
                  {s \in InstalledSegments : \A b \in SegmentBatches(dbCache, s) : b.time < c}}

\* Mutant: room for the four manifests of the call, none for its recovery.
ExpireRoomForFour == h.revision + 4 <= MaxRevision
\* Four manifests will be published, and finish_retention demands two revisions
\* even when it only has one left to publish.
ExpireRoom == h.revision + 5 <= MaxRevision

Expire(c) ==
    /\ Ready
    /\ Cardinality(InstalledSegments) = h.generation
    /\ Cardinality(Kept(c)) # h.generation
    /\ h.dataEnd + Cardinality(KeptUnits(c)) <= DbCapacity
    /\ ExpireRoom
    /\ pc' = "publish"
    /\ h' = [h EXCEPT !.failed = TRUE]
    /\ loc' = [revision |-> h.revision, count |-> h.generation, end |-> h.dataEnd,
               tail |-> h.lastSegment, root |-> DataStart, phase |-> 1,
               live |-> LiveBatches(dbCache, HandleManifest, Kept(c)), cutoff |-> c]
    /\ doom' = Entitled(c) /\ doomed' = doomed \cup Entitled(c)
    /\ UNCHANGED <<db, wal, counts, acked>>

\* Mutant: an emptied database forgets its timestamp floor.
RetentionRecordNoFloor ==
    EncodeRetention(loc.revision + 1, loc.count, loc.end, h.installed,
                    IF loc.count = 0 THEN 0 ELSE h.installedTime,
                    loc.tail, loc.root, loc.phase)

RetentionRecord ==
    EncodeRetention(loc.revision + 1, loc.count, loc.end, h.installed,
                    h.installedTime, loc.tail, loc.root, loc.phase)

Publish ==
    /\ Goto("publish", "syncPublish")
    /\ loc.revision < MaxRevision
    /\ dbCache' = WriteSlot(dbCache, loc.revision + 1, RetentionRecord)
    /\ UNCHANGED <<dbDisk, wal, h, loc, counts, history>>

AfterPublish == CASE loc.phase = 1 -> "copyTail"
                  [] loc.phase = 2 -> "finish"
                  [] loc.phase = 3 -> "trimDb"
                  [] OTHER -> IF h.open THEN "expireReturn" ELSE "trimWal"

SyncPublish ==
    /\ Goto("syncPublish", AfterPublish)
    /\ SyncDb
    /\ loc' = [loc EXCEPT !.revision = @ + 1]
    /\ UNCHANGED <<h, counts, history>>

\* copy_segments with the filter: the kept units, packed, behind data_end.
Packed(units, x) == h.dataEnd + Cardinality({u \in units : u < x})

TailImage(units) ==
    [o \in {Packed(units, x) : x \in units} |->
        Unit(dbCache, CHOOSE x \in units : Packed(units, x) = o)]

LastOf(S) == IF \E x \in S : \A y \in S : y <= x
             THEN CHOOSE x \in S : \A y \in S : y <= x ELSE 0

CopyTail ==
    LET kept  == Kept(loc.cutoff)
        units == KeptUnits(loc.cutoff)
        end   == h.dataEnd + Cardinality(units)
    IN  /\ Goto("copyTail", "syncCopy")
        /\ \A o \in kept : FramesOK(dbCache, o)
        /\ dbCache' = WriteCells(dbCache, end, TailImage(units))
        /\ loc' = [loc EXCEPT !.count = Cardinality(kept), !.end = end,
                              !.tail = IF kept = {} THEN 0 ELSE Packed(units, LastOf(kept)),
                              !.root = h.dataEnd, !.phase = 2]
        /\ UNCHANGED <<dbDisk, wal, h, counts, history>>

SyncCopy ==
    /\ Goto("syncCopy", "publish")
    /\ SyncDb
    /\ UNCHANGED <<h, loc, counts, history>>

\* finish_retention starts only with two revisions left.
Reserve == loc.revision + 2 <= MaxRevision

TailSegments == Segments(dbCache, EncodeRetention(0, loc.count, loc.end, 0, 0, 0, loc.root, 2))

\* Mutant: the tail of an emptied database is moved too.
MovedTailAlways(gap) == loc.tail - gap
MovedTail(gap) == IF loc.count = 0 THEN 0 ELSE loc.tail - gap

\* copy_segments without the filter: the tail copy back to the front.
CopyFront ==
    LET gap == loc.root - DataStart
        end == loc.end - gap
    IN  /\ Goto("finish", "syncCopy")
        /\ loc.phase = 2
        /\ Reserve
        /\ \A o \in TailSegments : FramesOK(dbCache, o)
        /\ dbCache' = WriteCells(dbCache, end, [o \in DataStart..(end - 1) |-> Unit(dbCache, o + gap)])
        /\ loc' = [loc EXCEPT !.end = end, !.tail = MovedTail(gap),
                              !.root = DataStart, !.phase = 3]
        /\ UNCHANGED <<dbDisk, wal, h, counts, history>>

\* An emptied database keeps one byte past its slots.
TrimSize == IF loc.end = DataStart THEN DataStart + 1 ELSE loc.end

TrimStart == \/ pc = "finish" /\ loc.phase # 2 /\ Reserve
             \/ pc = "trimDb"

\* Mutant: the last manifest repeats the phase instead of ending it.
TrimDbSamePhase ==
    /\ TrimStart /\ pc' = "syncTrimDb"
    /\ dbCache' = TruncateDb(dbCache, TrimSize)
    /\ UNCHANGED <<dbDisk, wal, h, loc, counts, history>>

TrimDb ==
    /\ TrimStart /\ pc' = "syncTrimDb"
    /\ dbCache' = TruncateDb(dbCache, TrimSize)
    /\ loc' = [loc EXCEPT !.phase = 0]
    /\ UNCHANGED <<dbDisk, wal, h, counts, history>>

SyncTrimDb ==
    /\ Goto("syncTrimDb", "publish")
    /\ SyncDb
    /\ UNCHANGED <<h, loc, counts, history>>

Retained == EncodeRetention(loc.revision, loc.count, loc.end, h.installed,
                            h.installedTime, loc.tail, DataStart, 0)

ExpireReturn ==
    /\ Goto("expireReturn", "open")
    /\ CheckSegments(dbCache, Retained)
    /\ h' = [h EXCEPT !.failed = FALSE, !.generation = loc.count, !.revision = loc.revision,
                      !.retention = TRUE, !.live = loc.live, !.dataEnd = loc.end,
                      !.lastSegment = loc.tail]
    /\ loc' = NoLoc
    /\ UNCHANGED <<db, wal, counts, history>>

------------------------------------------------------------------------------
(* Errors and power failures. *)

\* Errors a call finds by itself: no revision left, or bytes that do not validate.
Refused ==
    \/ pc = "publish" /\ loc.revision = MaxRevision
    \/ pc = "finish" /\ ~Reserve
    \/ pc = "segment" /\ ~WalFramesOK
    \/ pc = "copyTail" /\ \E o \in Kept(loc.cutoff) : ~FramesOK(dbCache, o)
    \/ pc = "finish" /\ loc.phase = 2 /\ \E o \in TailSegments : ~FramesOK(dbCache, o)
    \/ pc = "expireReturn" /\ ~CheckSegments(dbCache, Retained)

\* What the write or truncation just made leaves in its file if it is the one
\* that failed: part of its effect.  Earlier writes stay readable.
BeforeWrite == IF dbDisk.header = "absent" THEN BareDb("short") ELSE dbDisk
FailedDb ==
    IF pc \in {"walHeader", "syncUpgrade", "syncSegment", "syncManifest", "syncPublish",
               "syncCopy", "syncTrimDb"}
    THEN DbOutcomes(BeforeWrite, dbCache) ELSE {dbCache}
FailedWal ==
    IF pc \in {"syncTrim", "syncBody", "syncCommit", "syncReclaim"}
    THEN WalOutcomes(walDisk, walCache) ELSE {walCache}

\* An operation of the call in progress reports an error: open closes both
\* files, the other calls leave the handle failed.
Fail ==
    /\ pc \notin {"open", "closed", "appendReturn", "openReturn"}
    /\ faults < MaxFaults \/ Refused
    /\ faults' = IF Refused THEN faults ELSE faults + 1
    /\ dbCache' \in FailedDb
    /\ walCache' \in FailedWal
    /\ pc' = IF h.open THEN "open" ELSE "closed"
    /\ h' = IF h.open THEN h ELSE NoHandle
    /\ loc' = NoLoc
    /\ UNCHANGED <<dbDisk, walDisk, tries, history>>

\* Power fails: part of what was not synced survives, the handle does not.
Crash ==
    /\ pc # "closed" \/ dbCache # dbDisk \/ walCache # walDisk
    /\ faults < MaxFaults
    /\ faults' = faults + 1
    /\ dbCache' \in DbOutcomes(dbDisk, dbCache) /\ dbDisk' = dbCache'
    /\ walCache' \in WalOutcomes(walDisk, walCache) /\ walDisk' = walCache'
    /\ pc' = "closed" /\ h' = NoHandle /\ loc' = NoLoc
    /\ UNCHANGED <<tries, history>>

------------------------------------------------------------------------------

OpenStep ==
    \/ RefuseOrphanWal \/ CreateDb \/ CreateWal \/ WriteDbHeader \/ WriteWalHeader
    \/ Reject \/ Validate \/ ProvisionDb \/ ProvisionWal \/ TrimWal \/ NothingToTrim
    \/ SyncTrim \/ OpenReturn

AppendStep == SyncBody \/ WriteCommit \/ SyncCommit \/ AppendReturn

CheckpointStep ==
    \/ UpgradePrefix \/ SyncUpgrade \/ WriteSegment \/ SyncSegment
    \/ WriteManifest \/ SyncManifest \/ Reclaim \/ SyncReclaim

RetentionStep ==
    \/ Publish \/ SyncPublish \/ CopyTail \/ SyncCopy \/ CopyFront
    \/ TrimDb \/ SyncTrimDb \/ ExpireReturn

\* A call in progress takes its next step.
CallStep == OpenStep \/ AppendStep \/ CheckpointStep \/ RetentionStep

Next ==
    \/ OpenStart \/ Close
    \/ \E t \in Times : AppendBatch(t)
    \/ Checkpoint
    \/ \E c \in Cutoffs : Expire(c)
    \/ CallStep
    \/ Fail \/ Crash

Spec == Init /\ [][Next]_vars

------------------------------------------------------------------------------
(* Properties. *)

Handle == [open : BOOLEAN, failed : BOOLEAN, end : Nat, sequence : Nat, dataEnd : Nat,
           installed : Nat, generation : Nat, revision : Nat, live : Nat,
           retention : BOOLEAN, lastTime : Nat, installedTime : Nat, walMax : Nat,
           lastSegment : Nat, legacy : BOOLEAN]

Locals == [revision : Nat, count : Nat, end : Nat, tail : Nat, root : Nat,
           phase : 0..3, live : Nat, cutoff : Nat]

Pcs == {"closed", "open",
        "probe", "createWal", "dbHeader", "walHeader", "validate", "provisionDb",
        "provisionWal", "trimWal", "syncTrim", "openReturn",
        "syncBody", "commit", "syncCommit", "appendReturn",
        "upgrade", "syncUpgrade", "segment", "syncSegment", "manifest", "syncManifest",
        "reclaim", "syncReclaim",
        "publish", "syncPublish", "copyTail", "syncCopy", "finish", "trimDb",
        "syncTrimDb", "expireReturn"}

\* Both images of both files are well formed, the handle and the locals of the
\* call in progress have their types.
TypeOK ==
    /\ dbCache \in DbImage /\ dbDisk \in DbImage
    /\ walCache \in WalImage /\ walDisk \in WalImage
    /\ h \in Handle /\ loc \in Locals /\ pc \in Pcs
    /\ tries \in Nat /\ faults \in Nat
    /\ acked \subseteq Batch /\ doom \subseteq Batch /\ doomed \subseteq Batch

\* The files a reopen may find: after a power failure, or after a mere close.
Pairs == {<<dbDisk, walDisk>>, <<dbCache, walCache>>}

\* A batch whose append returned 0 is on disk, referenced by the manifest that
\* a reopen would choose or by the log, until an expiry was entitled to it; the
\* same holds of the cached files a reopen without a power failure would see.
CommittedHeld == \A p \in Pairs : acked \ doomed \subseteq Held(p[1], p[2])

\* timelite_batches_open never refuses its own files: whatever a crash or an
\* error leaves behind two valid pair headers can be opened again, except a log
\* that ends inside a frame header, which read_frame deliberately refuses.
ShortTail(w) == w.frames # <<>> /\ w.frames[Len(w.frames)].state = "short"
Accepts(d, w) == d.header = "valid" /\ w.header = "valid" => Opens(d, w) \/ ShortTail(w)
ReopenAccepts == \A p \in Pairs : Accepts(p[1], p[2])

\* Between calls a healthy handle has everything on disk and agrees, field by
\* field, with the handle a close and a reopen would build (the maximum of the
\* log's timestamps means nothing while the log is empty).
HandleMatchesReopen ==
    Ready =>
        /\ dbCache = dbDisk /\ walCache = walDisk
        /\ Opens(dbDisk, walDisk)
        /\ LET r == Recovered(dbDisk, walDisk)
           IN  h = [r EXCEPT !.open = TRUE, !.walMax = IF h.end = 0 THEN h.walMax ELSE @]

\* get_status counts exactly the batches a reopen would return, pending and
\* installed, after any history of checkpoints, expiries and recoveries.
CommittedBatches == h.live + (h.sequence - h.installed)
StatusExact == Ready => CommittedBatches = Cardinality(Held(dbDisk, walDisk))

\* A retention that was started can always be finished: as long as the newest
\* manifest on disk records an unfinished phase, the two revisions that
\* finish_retention demands are left.
RevisionReserve ==
    \A d \in {dbDisk, dbCache} :
        ReadManifests(d).phase # 0 => ReadManifests(d).revision + 2 <= MaxRevision

\* An expiry removes all the batches it was entitled to or none, even if it is
\* interrupted, and has removed them when it returns.
RetentionAtomic ==
    /\ \A p \in Pairs : Held(p[1], p[2]) \cap doom \in {{}, doom}
    /\ pc = "expireReturn" => Held(dbDisk, walDisk) \cap doom = {}

\* The disk implements the abstract log: crashes, errors and every step of a
\* checkpoint are invisible, a commit record or a manifest takes effect at once,
\* and no expiry, however complete, moves the next sequence or the time floor.
Log == INSTANCE BatchLog WITH
    Batches <- [seq : 1..MaxAppends, time : Times, id : 0..(MaxAppends - 1)],
    stored  <- Held(dbDisk, walDisk),
    high    <- LastSequence(walDisk, ReadManifests(dbDisk)),
    floor   <- LastTime(walDisk, ReadManifests(dbDisk))
ImplementsLog == Log!Spec

\* Calls run to their end, and an application whose handle failed or is gone
\* closes it and opens again.
Progress == CallStep \/ OpenStart \/ (Close /\ h.failed)
FairSpec == Spec /\ WF_vars(Progress)

\* An unfinished retention on disk is finished by its call or by a later open.
RetentionFinishes ==
    ReadManifests(dbDisk).phase # 0 ~> ReadManifests(dbDisk).phase = 0
==============================================================================
