# TLA+ verification of timelite's batch database

timelite is a small embedded time-series store in C. Its core is the *batch
database*: a pair of files, a write-ahead log (WAL) that receives committed
batches and a database file that receives them as immutable segments, with an
explicit checkpoint between the two and an explicit retention call that rewrites
the database file in place. The whole point of the code is what survives when
power fails or an operation reports an error between any two of its writes. That
is what this project models, checks and proves.

## The system

| Part | State | Operations | Correct when |
| --- | --- | --- | --- |
| Open and recovery (`timelite.c` `timelite_batches_open`, `read_manifests`, `check_segments`, `finish_retention`) | the two files; locals that become the handle | create, validate, provision, finish retention, trim the log | every pair the library can leave behind is accepted, and the handle is what the files say |
| Append | log, handle | body, sync, commit record, sync | a batch whose append returned 0 is never lost; one whose append failed is there completely or not at all |
| Checkpoint | log, database, handle | upgrade of the old layout, segment, manifest, reclaim, each followed by a sync | nothing is lost or duplicated at any interruption |
| Retention (`expire_before`, `publish_retention`, `copy_segments`) | database, handle, the manifest being published | four manifests (PREPARE, TAIL, CLEANUP, NORMAL), two copies, one truncation | all of the expired batches or none; sequences and the time floor survive; it can always be finished |
| Close, status | handle | reset; counts from the handle alone | counts equal what the files hold |
| Readers (`next`, `seek`, `next_range`, `aggregate_range`, `rewind`) | the read cursor in the handle | reading only | every batch once, in order, across checkpoints and expiries |
| Segment index (`low_bit`, `segment_at`, links in segment headers) | links in the database file | locate a segment by number | equals walking the segments |
| Storage (`file_io.c`, `file_io.h`) | file descriptors | read, write, size, truncate, sync, lock, identity, provision | loops resume correctly; provisioning makes a name durable |
| Pair ownership | lock on the database file, identity in both headers | create races, EBUSY, orphan log | one owner; no replacement next to an orphan |
| Version 1 lifecycle (`timelite_open`, `timelite_close`) | one 12-byte file | open modes, close | never overwrites a foreign file |
| Windows backend (`file_io_windows.c`) | a handle with one file position | the same operations | transfers land where they were asked for |
| Inspect tool (`tools/inspect/inspect.c`) | none: it reads the two files | `verify`, `status`, `--dump` | predicts what open and status will say; reports no loss where there is none |
| Continuous example (`examples/continuous.c`) | what it has exported | append, checkpoint, export, expire | nothing is deleted that was not exported |
| Other examples, tests, scripts | | | no state of their own |

Components interact through the two files and the handle only. There are no
threads and no callbacks, and one process at a time owns a pair. Three things are
hard. Interruption: a power failure keeps an arbitrary part of what was not
synced, an I/O error leaves the process running with a poisoned handle and files
in an intermediate state, and either may strike again during the recovery.
Moving data: checkpoint and expiry move batches under a persistent read cursor
and rewrite the links that searches follow, next to segments of older releases
that are neither linked nor ordered. And the doorway: several processes may open
or create the same files at once, with one advisory lock on one of the two.

## Modules

| Module | Contents |
| --- | --- |
| `PairFormat` | the two files as values, and how they are read: `ReadManifests`, `CheckSegments`, `WalOK`, `OrphanOK`, together `Opens`; `Recovered`, the handle an open builds; `Held`, the batches a pair holds |
| `PairStorage` | writes, truncations, and what may be left of unsynced ones (`DbOutcomes`, `WalOutcomes`) |
| `BatchPair` | the state machine: open, append, checkpoint, expire, close, errors and power failures; all properties of the pair |
| `BatchLog` | the abstract specification: what the pair promises, without files |
| `Inspect` | `timelite-inspect verify` as a function of the files that `BatchPair` leaves |
| `SegmentIndex` | segments with spans and links: the search, the walk of open, retention's copy |
| `BatchReader` | one handle and its cursor: next, seek, next_range, aggregate_range, rewind, with append, checkpoint, expiry and reopen under it |
| `BatchCursor` | the abstract specification of the readers: live batches and unread ones |
| `Continuous` | the policy of `examples/continuous.c` on top of `BatchReader` |
| `PairOwner` | several handles in `timelite_batches_open`, one system call per step |
| `FileTransfer` | the read and write loops and truncation of both backends |
| `Lifecycle` | the version 1 `timelite_open` and `timelite_close` |
| `MC...` | instances for TLC |
| `...Proofs` | theorems and their proofs |

`PairStorage` extends `PairFormat`, `BatchPair` extends both and instantiates
`BatchLog` with the refinement mapping `Log`; `Inspect` extends `BatchPair`.
`BatchReader` extends `SegmentIndex` and instantiates `BatchCursor`; `Continuous`
extends `BatchReader`. The two families model the same code from two sides: the
first has every write, sync and fault and simple batches, the second has whole
calls and records, links, order and cursors. `PairOwner`, `FileTransfer` and
`Lifecycle` stand alone; `PairOwner` ends where `BatchPair` begins, with a handle
that was let in, and `FileTransfer` is what stands behind the writes of
`PairStorage`.

### BatchPair: state

Each file has two images: the *cached* one every read sees and the *durable* one
a power failure falls back to. `dbCache` and `dbDisk` are a header state, a size,
two manifest slots and a function from offsets to contents; `walCache` and
`walDisk` are a header state and a sequence of frames. `h` is
`struct timelite_batches` without the descriptors, the cursor and the fields only
readers use; the names follow `private_*`. `loc` is `struct retention_state`
together with the arguments of the next `publish_retention`. `pc` is the next
step of the call in progress. `acked`, `doom` and `doomed` are history variables
used only by properties.

Sizes of the database file are counted in units instead of bytes: the slots end
at unit 2 (byte 160), a segment is a header of two units and one unit per frame.
Two header units are needed so that a database cut to 161 bytes holds no whole
header. Size 0 is the 32-byte layout and size 1 is any length from 33 to 159. A
segment header carries its first and last sequence and its latest timestamp.

In this family a batch has one timestamp and no values, and since appends are
refused out of order the log is always ordered; unordered data, old segment
headers, links and the cursor are in `BatchReader`. One process opens the pair,
with `TIMELITE_OPEN_OR_CREATE`; other modes, other processes and mismatching
identities are in `PairOwner`. A record whose checksum does not match is one
distinguished value (`NoManifest`, `Junk`), so the CRC-32 is taken to detect every
torn write.

### BatchPair: actions

A call is cut where an interruption can tell the difference: at each write or
group of writes up to its sync, at each sync and each truncation. For example
`timelite_batches_checkpoint` is `Checkpoint` (the guards, then the handle is
marked failed), `UpgradePrefix`, `SyncUpgrade` (only for the 32-byte layout),
`WriteSegment`, `SyncSegment`, `WriteManifest`, `SyncManifest` (with the handle's
bookkeeping), `Reclaim` and `SyncReclaim`. Early returns change nothing: their
conditions are guards of the first step. `Publish` and `SyncPublish` are
`publish_retention`, shared by `expire_before` and by recovery; `loc.phase` and
`h.open` say where it was called from, as the call stack does in C.

`Fail` is an error of the operation in progress, of which only part may have
taken effect (`FailedDb`, `FailedWal`; earlier writes stay readable), or one that
the code detects (`Refused`): open returns to the closed state, any other call
leaves the handle failed, and then only `Close` is possible. `Crash` is a
power failure: every unsynced write survives, disappears or is torn, and a torn
slot or header does not validate. A file whose directory entry was never synced
by provisioning may disappear. This is the storage contract the repository states
(`tests/batch_model_test.c`, first comment: synced ranges and names survive,
unsynced bytes may survive or disappear, synced bytes are never damaged by later
writes) with one refinement: the log grows by a prefix of the frame being
written, as the recovery table of `docs/feature/004-durable-batch.md` assumes,
because anything else is deliberately treated as damage. Synced bytes that a later write overwrites are old, new or refused.

### SegmentIndex, BatchReader, Continuous

Offsets are in units of 32 bytes: data starts at unit 5 (byte 160), a header of
feature 007 takes two units, an old one takes one, and a frame takes one unit per
record, so that frames differ in length. A file is a function from offsets to what
starts there; a record has a timestamp, a series and a value. Reads follow the
code: `ReadSegment` and `ReadFrame` return `Bad` where the code returns an error,
`ReadCursor` is `read_cursor`, and the searches call them as the code does, so a
wrong link or a cursor in the wrong place shows as `Bad` and not as an absence.
Every loop is a recursive function of the number of turns it has made.

`h` has the fields of `struct timelite_batches` that order and search depend on,
`c` its cursor. `live` and `unread` are functions of the other variables,
found by walking the files and by reading from the cursor to the end; they are
variables so that `BatchCursor` is refined by plain substitution. `Init` is any
pair that a release before time order may have left: its batches in any order of
time, some installed under old headers and some in the log. Append, checkpoint and
expiry are single steps here, and calls that return an error without effect are
stuttering steps. `SeqMax` and `TimeMax` stand for `UINT64_MAX`; sequences wrap
(`Wrap`) as 64-bit numbers do.

`Continuous` adds the control state of `append_with_policy`,
`checkpoint_with_policy` and `export_before_delete`, one library call per step,
and the set of records printed so far.

### PairOwner

A file is its identity (`NoId` until its header is valid) and the number of
changes made to it. Each handle is somewhere in `timelite_batches_open` (`pc`) with
its arguments and locals (`loc`), including what it believes of its files
(`seen`). `lock` maps a database path to the handle that holds its lock, to
`Free`, or to `Leaked` after a close that failed. Every system call of open is a
step that may fail (`Fail`), and a process may die anywhere. The work of an
admitted handle is `Change`: what it does is in `BatchPair`. Paths are never
removed, random identities never repeat, and no two databases are copies of each
other: the repository requires a trusted, stable path for a pair.

### FileTransfer

Bytes, one file, one call at a time: `transferred` and `buffer` are the caller's,
`position` is the position of a Windows handle, and `windows` says which
backend is linked. A system call moves any number of bytes up to a chunk, none, is
interrupted, or fails; a call that fails may have moved bytes of its chunk all the
same, and on Windows the position. A truncation that fails is assumed to leave the
file alone, save where Windows makes it of a write. `before` is history. Offsets past `INT64_MAX` are one value.

### Lifecycle

A file is its kind (version 1, a later version, something else), how much of a
header it has, and which handle created it. Handles are anywhere in
`timelite_open`; another program may take the name.

### Inspect

The tool keeps no state, so the module has only operators: the slots with their
four verdicts, the chain of segments, the scan of the log, the exit code and the
predicted status, in the order of `inspect_verify`. The images of `PairFormat` do
not distinguish zero bytes from torn ones in a slot; `Scrap` says which slots
without a record may hold bytes. Links and records inside frames, which those
images do not have, are left out.

## Properties

| Property | Says |
| --- | --- |
| `CommittedHeld` | a batch whose append returned 0 is held by the durable files, and by the cached ones, until an expiry was entitled to remove it |
| `ReopenAccepts` | two files with valid headers can always be opened, except after a log tail shorter than a frame header, which `read_frame` refuses on purpose |
| `HandleMatchesReopen` | between calls a healthy handle equals, field by field, the handle a reopen would build, and everything is durable |
| `StatusExact` | the counts of `get_status` equal the number of batches held |
| `RevisionReserve` | while the newest manifest records an unfinished retention, the two revisions that finishing demands are left |
| `RetentionAtomic` | all batches an expiry may remove are held, or none; none when it returns |
| `ImplementsLog` | the durable files implement `BatchLog` |
| `RetentionFinishes` | an unfinished retention is eventually finished |
| `Durable`, `UniqueSequences`, `TimeOrdered`, `NeverReturns` | the same promises stated of the abstract log |
| `VerifyPredictsOpen` | `verify` predicts success for exactly the pairs `open` accepts |
| `VerifyMatchesStatus`, `RecoveryKeepsPrediction` | the predicted status is that of the open handle, and does not change while a recovery is under way |
| `CrashesAreCoherent` | for what crashes leave `verify` predicts a successful open and lists torn slots only, so it exits 0 where there is none, unless the 160-byte prefix was cut short while it was first written, torn slots leave no manifest, or the log ends inside a frame header |
| `IndexFindsSegments` | the links lead to the same segment as a walk from the start |
| `OrderMatchesReopen` | what the handle believes about order is what an open derives from the files |
| `SeekExact`, `RangeComplete`, `AggregateExact` | seek, next_range and aggregate_range equal their definitions over all live or unread batches, from every reachable cursor |
| `ImplementsCursor` | the readers implement `BatchCursor`: no batch twice, none missed, none out of order, across appends, expiries and reopens |
| `CheckpointKeepsPlace` | a checkpoint changes neither the live batches nor the unread ones; `BatchCursor` alone would take a checkpoint that skips one batch for a read |
| `ExportedBeforeDeleted` | every record an expiry deletes was exported |
| `PairExclusive` | two admitted handles share neither the database nor the log |
| `CacheCurrent` | what an open handle believes of its files stays true |
| `IdentityMatches` | the two files of an admitted handle carry one identity |
| `OrphanLogKept` | a log whose identity no database carries is never changed |
| `WithinOffsets`, `ReadsWhatIsThere`, `WritesItsPrefix`, `TruncatesToSize` | what the storage operations promise, after any sequence of partial calls |
| `CallsReturn` | every storage call returns |
| `OpenIsWhole`, `ExistingKept` | a version 1 handle is open on a whole header only; only its creator writes a file |
| `TypeOK` | the type invariant, one per module that needs one |

`BatchLog` has four actions: `Commit` (a commit record becomes durable),
`Acknowledge` (append returns 0), `Announce` (an expiry decides what it removes)
and `Remove` (the TAIL manifest becomes durable). Its `stored` is `Held(dbDisk,
walDisk)`, its `high` and `floor` are the last sequence and timestamp that
recovery derives from the same files. Under this mapping every step of a
checkpoint, every failure and every recovery is a stutter, or the late effect of
an append or an expiry that had not returned.

## Runs

| Run | Configuration | Shows |
| --- | --- | --- |
| `durability` | 2 timestamps, 2 cutoffs, 3 appends, a log of 2 frames, a database of 11 units, largest revision 7, 2 faults | the invariants of `BatchPair` (about 250,000 states) |
| `refinement` | starts from no files and from the 32-byte layout, 2 appends, 2 faults, under `FairSpec` | `ImplementsLog`, `CommittedHeld`, `HandleMatchesReopen`, `RetentionFinishes`, and the properties of `Inspect` (about 41,000 states) |
| `abstract_log` | sequences up to 3, 2 timestamps | the abstract properties |
| `readers` | largest sequence 4, largest timestamp 4, up to 2 old batches, 3 kinds of batch to append, 2 cutoffs, 6 ranges | the readers' properties (about 30,000 states) |
| `segment_index` | largest sequence 9, log of one batch, up to 3 old batches, no reading | links and order with up to nine segments (about 8,700 states) |
| `ownership` | 2 handles, 2 databases, 1 log, 3 identities, 1 change per file | the ownership properties (about 314,000 states up to symmetry) |
| `transfer` | files of 3 bytes, requests of 4, chunks of 2, both backends | the storage properties |
| `lifecycle` | 3 handles, a header of 2 transfers | `OpenIsWhole`, `ExistingKept` (about 35,000 states) |
| `continuous` | a log of 3 units, a database of 9 beyond its start, up to 2 old batches, 2 cutoffs | `ExportedBeforeDeleted` (about 75,000 states) |
| `legacy_upgrade` | starts from the 32-byte layout, 1 append, 2 faults | violates `ReopenAccepts` |
| `inspect_clean` | as `durability` with 2 appends | violates `RecoveredVerifiesClean` |
| `dump_window` | as `readers` | violates `DumpFilters` |

Why these bounds. Three batches over a log of two frames give segments of one and
of two frames, a full log, and an expiry that keeps some segments and removes
others. Eleven units hold two segments of one frame and a temporary copy of one of
them, or three such segments and no copy, so that expire both succeeds and returns
`DATABASE_FULL`. A largest revision of 7 lets a checkpoint or two precede an
expiry and makes one more manifest too many, so both sides of each comparison
with the largest revision occur. Two faults allow a crash followed by a crash or
an error in the recovery, or two interrupted calls in a row; a third fault would
start again from a pair that one fault can already leave. The counters `tries` and
`faults` appear in guards only.

For the readers, four sequences give two old batches and two new ones, in one
segment or two or in the log, and let the sequences run out; batches of two
records make first, last and greatest timestamp differ. A link first leads
somewhere other than to the previous segment at segment 4 (to none) and 6 (to 4),
and the table has three levels at 8: that is why `segment_index` goes to nine. Two
handles suffice for every race over one file, two databases for a race over a
log, and three identities for a pair, a stray file and a new pair. A request of
three bytes in chunks of two or less takes up to three calls; lengths and offsets
one past the largest exercise the overflow check. In `continuous` the log takes
one batch or two and the database two or three segments, so both `FULL` results occur.

Deadlock is checked in every run: from every state open, close or the
next step is possible. In `abstract_log` an expiry of nothing always is.

Symmetry is used in `ownership` only, over handles and identities, which no
definition tells apart.

Fairness. `FairSpec` of `BatchPair` assumes weak fairness of `Progress`: a call
runs to its end (the code has no waiting of its own) and an application whose
handle is closed or failed closes it and opens it again, as `timelite.h` tells it
to (RECOVERY_REQUIRED until close and reopen). Faults are finite in number by the
bound `MaxFaults`; without that bound nothing finishes under endless faults.
Nothing is assumed of appends, checkpoints and expiries. `FileTransfer` assumes
that a system call is not interrupted for ever: the loops retry `EINTR` without
limit, and nothing else would end them. Errors are not fair, so a call does not
return because an error comes to its help.

Each property of a passing run has a mutant, an operator placed before the
definition it would replace and marked `Mutant`: a dropped sync, a forgotten
field, an off-by-one in the reserve, a lost floor and so on. Under the mutant TLC
finds the property violated.

## Findings

Upgrade of an old database. A database in the 32-byte layout of feature 004
receives its manifest slots at its first checkpoint. If that write fails or power
fails during it, leaving more than 32 bytes but no valid slot, the reopened handle
is not marked `legacy` any more (`read_manifests` sets it for a size of exactly
32), so the upgrade is not repeated, although `docs/feature/006-checkpoint.md`
line 221 says "upgrade repeats". The next checkpoint writes its segment behind
byte 160. A second interruption before its manifest is durable leaves a file
longer than 160 bytes without any valid manifest, which `read_manifests` refuses,
although line 222 promises that the orphan bytes are ignored and the log stays
authoritative. The committed batches are still in the log, in a pair that cannot
be opened. Run `legacy_upgrade` shows the sequence. A creation whose 160-byte
prefix was torn by a power failure while the log's header survived leads to the
same state (`tests/batch_model_test.c` line 1148 goes through it, without the
second interruption). That is why `refinement`, which starts from both, does not
check `ReopenAccepts`.

A recovered pair need not verify clean. `docs/feature/012-inspect-tool.md` lines
38 and 171 say that recovered pairs verify with zero inconsistencies. A manifest
slot torn by a power failure is not written by the recovery, and `verify` reports
it (`inspect.c` line 711) until a later manifest lands in that slot. Run
`inspect_clean` shows it; the pair itself is healthy.

The windowed dump can miss records. `README.md` line 643 says that `--from-us`
filters the dump. The tool seeks first (`inspect.c` line 1250), and seek looks at
the last record of a batch, so a batch of a release before time order whose last
record is older than the window is skipped although another record of it is
inside. `aggregate_range` avoids the same trap on purpose (`timelite.c` line
2209). Run `dump_window` shows it.

One case is excluded from `RangeComplete`, `AggregateExact` and `DumpFilters`
by name (`BoundWraps`): when the last installed sequence is `UINT64_MAX` and no
installed segment is in the ordered suffix, `next_range` computes the start of
the order as 0 (`timelite.c` line 2115) and may end a query early. It takes 2^64
batches to get there.

## Proofs

`BatchLogProofs`: `LogSafety` (`Spec => [](Durable /\ UniqueSequences /\
TimeOrdered)`) and `LogNeverReturns`, for every set of batches. The inductive
invariant adds to these properties that acknowledged batches have sequences up to
the high-water mark, so that a new batch is never one that was acknowledged.

`BatchPairProofs`: `TypeCorrect` (`Spec => []TypeOK`). The types are not
inductive: three subtractions must stay natural numbers and one read must stay
inside the log. `TypeInv` adds that the handle never has more installed than
committed and its data end behind the slots (`HandleOK`), that the tail copy lies
at or past its root (`LocalsOK`), and that the last frame of the log belongs to
the append in progress (`AppendOK`). Most of the work is in what recovery
computes from an arbitrary well-formed pair (`RecoveredType`, `RecoveredOrder`)
and in what storage may leave of a write (`DbOutcomesType`, `WalOutcomesType`).

The same module has `ReserveHolds` (`Spec => []RevisionReserve`). Any of the four
manifests of an expiry may be the one that survives, so each must carry what the
rest will cost. `ReserveInv` says so of all slots of both images (`FileReserve`:
2 revisions for phases 1 and 3, 3 for phase 2) and of the manifest about to be
published (`LocReserve`: 5, 4, 3). The check that `expire_before` makes once is
exactly what establishes it; it is preserved because a torn slot records no phase
and a surviving one is one of the two it could be.

A part of its own states, for every image of a database file, what the operators of
`PairFormat` compute: a *layout* (`Laid`) is the walk of `check_segments` as a
function from positions to offsets, `Whole` says that the segments of a manifest are
laid out and complete, `Data` is what they hold. Its lemmas say what copying
(`WholeShift`), extending (`WholeExtend`) and packing (`WholePack`) do to both.
Where a text-book proof would use induction over the segments, these use that a set
of natural numbers that holds 0 and the successor of each of its members holds them
all (`UpTo`, from the well-foundedness of the natural numbers).

The central results are in the same module.
- `NothingLost` (`Spec => []CommittedHeld`): no acknowledged batch is lost. It sets no
  upper bound: a batch whose append failed may be held as well, and crashes may leave
  several of those.
- `ExpiryAtomic` (`Spec => []RetentionAtomic`): an expiry removes all or nothing.
- `FilesImplementLog` (`Spec => ImplementsLog`): the pair of files refines the
  abstract log, every step being a step of the log or invisible to it. Together
  with `LogSafety` this gives the abstract properties of the files.

None of these is inductive: whether a batch survives depends on what a power
failure may leave of a write in flight. `PairInv` has therefore three kinds of
part. `Files` relates the durable files to the cached ones: each presents one
manifest (`Presents`: the other slot holds nothing newer), each manifest's data are
whole in *both* images (`Bridge`), so a torn write shows one manifest or the other
but never the slots of one with the data of the other; the log fits either
manifest (`Fits`), as one that continues it or as one a reclaim did not yet empty;
and what the two views hold differs by at most one commit or by one expiry.
`HistoryInv` ties the views to what callers were told (`acked`, `doom`, `doomed`).
`OpenInv`, `AppendInv`, `CheckpointInv` and `RetentionInv` say, step by step of
each call, what has been written and synced and what the handle knows of it: a
manifest is written only when the data it lists are durable, and the tail copy
of phase 2 is moved only to where it does not overlap itself. Each step has a lemma (`Step...`), so
that a proof that breaks after a change of the code's order names the step. Crashes
and errors are two lemmas more (`StepCrash`, `StepFail`), over every subset of the
dirty units that may survive.

`PairOwnerProofs`: `SoleOwner` (`Spec => [](PairExclusive /\ IdentityMatches /\
CacheCurrent)`) and `OrphanSafe` (`Spec => OrphanLogKept`), for any number of
handles, paths and identities. Only the database is locked, so the log's exclusion
has to come from identities: if two admitted handles shared a log, both databases
would carry its identity, and no two databases share one. The invariant
`OwnerInv` says why that stays true: a drawn identity is on no file but those its
handle stamps (`FreshIdentity`), a creator's log is one it created itself and
nobody else has stamped (`NewLog`), a handle past the lock holds it (`LockHeld`),
and what it read from the database's header is still there (`HeaderRead`).

`FileTransferProofs`: `TransfersExact` (`Spec => [](WithinOffsets /\
ReadsWhatIsThere /\ WritesItsPrefix /\ TruncatesToSize)`), for both backends and
every size of file, request and chunk. `TransferInv` adds where the loop stands:
the request fits below the largest offset and some of it is left (`LoopRange`),
the position of a Windows handle is where the POSIX loop would name it
(`Aligned`), and bytes past the end are zero (`TailIsZero`).
A write that fails is held to the chunk of the system call that failed.

`LifecycleProofs`: `OpenOnlyWhole` (`Spec => []OpenIsWhole`) and
`ExistingNeverWritten` (`Spec => ExistingKept`), for any number of handles and any
length of header. The invariant adds what a handle between two of its steps has
seen of the file and that the file it is writing is the one it created.

`ReopenProofs`: what a handle and a later open make of the same files.
- `StatusCounts` (`Spec => []StatusExact`). The handle's counter of live batches is
  kept by additions and subtractions across calls; `LiveInv` says that it is the
  number of batches the manifest lists, and, while an expiry runs, that the number
  decided at its start is what will be left.
- `HandleAgrees` (`Spec => []HandleMatchesReopen`): between calls a reopen would
  build the handle that is there, field by field.
- `ReadableOpens` (`Spec => []ReadableAccepts`): whatever the start and the faults,
  two valid headers are refused only because the log ends inside a frame header or
  because `read_manifests` finds no valid slot.
- `ReopenAccepted` (`Starts \subseteq {"empty"}` and `Spec` give `[]ReopenAccepts`): in a
  database that was created with its slots, the second reason never happens. The
  hypothesis is needed: the run `legacy_upgrade` shows the property false of a version
  1 database, whose slots are first written by a checkpoint.

`open` makes more checks than durability needs, so `PairInv` is not enough here and
each kind of check has an invariant of its own. `SegInv`: `check_segments` accepts
what either manifest lists and what a manifest about to be written will list; its
lemmas (`Chain`, `CheckIs`, `CheckShift`, `CheckExtend`, `CheckPack`) say what moving,
extending and packing segments do to it. `OrderInv`: a log holds no more
frames than its capacity and their times do not fall, torn ones included.
`OrphanInv`: bytes past the end of the data are those of an unfinished expiry, or a
segment no longer than the frames the log still holds. `ShapeInv`: an open handle
knows whether its file has slots. `StampInv`: a file created with slots keeps slot 0
until another manifest is durable.

The same module shows that the inspect tool and the library agree.
- `VerifyAgrees` (`Spec => []VerifyPredictsOpen`): verify predicts success for exactly
  the pairs that `open` accepts.
- `CoherentCrashes` (`Spec => []CrashesAreCoherent`): of all that calls, errors and power
  failures leave, verify reports only torn slots, a prefix cut short and a log that
  ends inside a frame header. A torn slot hides nothing else: beside it every other
  check of verify still finds nothing, as long as the other slot holds a manifest.
- `StatusPredicted` (`Spec => []VerifyMatchesStatus`): the predicted status is the
  handle's.
- `PredictionSurvives` (`Spec => RecoveryKeepsPrediction`): no step of a recovery, and no
  crash or error that interrupts it, changes what is predicted.

The tool reads the files by loops of its own, so the first task is to say what each
computes. They are recursive functions; on a whole file the state of the walk over
the segments after n of them has a closed form (`RoundOf`, shown round by round in
`RoundStep` and for all rounds with `UpTo`), and the live batches it has counted are
the units passed less two per header. `Sound` collects what the invariants of the
other modules say of a pair; `VerifyIs` and `OpensIs` reduce verify and open to the
same four conditions on a sound pair. One invariant is new: the tool takes the
revision of an install record for its number of segments and calls a record in the
slot of the other parity damage, which `check_manifest` and `read_manifests` do not;
`SlotInv` says that no record is ever written of which this makes a difference. For
`PredictionSurvives` the prediction is a function (`Forecast`) of four numbers, the
`Outlook` of a pair: extent and number of segments, pending frames and time floor.
While a recovery runs, the cached files and the durable ones have the same outlook
(`OutlookInv`), although their manifests, and the logs, differ; a crash shows one or
the other. That a recovery's next manifest has the extent of the last follows from
`LiveUnits`: both list the same batches in the same number of segments.

`ReaderFilesProofs` and `BatchReaderProofs`: the readers, for every capacity, every set
of batches, ranges and cutoffs, and every pair an old release may have left.
- `ReaderInvariant` (`Spec => []Inv` and `IndexSpec => []Inv`), with `ReaderType`.
- `ReaderIndex` (`[]IndexFindsSegments`): the links that checkpoints write and
  expiries rewrite lead to every segment.
- `ReaderOrder` (`[]OrderMatchesReopen`): what the handle keeps about order through any
  calls is what `check_segments` and the scan of the log derive from the files.
- `ReaderSeek`, `ReaderRange`, `ReaderAggregate` (`[]SeekExact`, `[]RangeComplete`,
  `[]AggregateExact`): the binary search, the early end of a query and the aggregate
  equal their definitions over all batches, from every cursor.
- `ReaderImplements` (`Spec => ImplementsCursor`): the readers refine `BatchCursor`.
- `CheckpointInvisible` (`Spec => CheckpointKeepsPlace`): a checkpoint moves the cursor
  past no batch.
- `PolicyExports` (`PolicySpec /\ []~BoundWraps => ExportedBeforeDeleted`): the policy of
  `continuous.c` deletes no record it has not exported. The second hypothesis is the
  case named under Findings, in which a query may end early.

The first module has the files, the cursor and the invariant, and the calls that leave
the segments alone; the second has checkpoint, expiry and the results. `Inv` says that the files
are whole (`Stored`: segments and frames lie one behind the other, `Linked` and
`TimesKept` tie the headers to what they head, and `ManifestOf` and `HandleSays` tie
the manifest and the handle to the files) and that the cursor stands in the log, in a
segment or between two of them, in front of one batch or at the end (`At`). `live` and
`unread` are then functions of a sequence of batches and a place in it (`Seen`). From
there every loop has a closed form: the walk of `check_segments` (`CheckResult`), the
descent of `segment_at` along links (whose lowest set bits are shown to reach each
number), the scan of the log (`OpenedStored`), reading to the end (`ReadsFound`), the
search of `seek` (`SeekFound`), the copy of an expiry and the relocation of the cursor
after it (`ExpiredFound`, `RelocateFound`), the next match of a query (`RangeFound`).
With these every call preserves `Inv`, the properties follow from the closed forms, and each call is a step of `BatchCursor` or none
(`WritingCursor`, `ReadingCursor`). For `continuous.c`, `PolicyInv` adds that while the
export runs every batch the cursor has passed has been printed up to the cutoff, and
that before an expiry all have.

Recursive functions take the place of induction over data: each is shown to exist,
once, so that it satisfies its own equation, and a statement about every turn follows
from the well-foundedness of the natural numbers.

The theorems hold for all values of the constants under the named assumptions of
the modules: capacities are natural numbers and the database is larger than its
slots; times and cutoffs are natural numbers; the largest revision and the two
bounds are natural numbers; the starts are among the three that exist; database
and log paths are different and the markers (`Absent`, `NoId`, `Free`, `Leaked`)
are none of the values they mark; offsets and lengths are natural numbers and a
chunk is not empty. For the readers (`LimitAssumption`, `ReaderAssumption`): there is
a largest sequence and a largest time; a batch has a record; an old release stored no
more batches than there are sequences; a database has at most 1 GiB, 2^25 units, for
which the 24 levels of the table of links are enough, as `timelite.c` line 813 says;
cutoffs are times and a range does not end before it starts (`next_range` returns
`EINVAL` for one that does). TLC evaluates the assumptions in the runs.

Only model-checked: liveness under fairness (`RetentionFinishes`, `CallsReturn`), which
is out of the prover's reach. Every other property of a passing run is stated by a theorem.

## Not modelled

- The byte encodings and the CRC-32: records are values.
- The path lookups inside provisioning, which is one step with its effect.
- On Windows, open, lock, sync and close, which are single calls of the system;
  provisioning is not supported there, so no batch pair can be opened.
- In the inspect tool, the checks of links and of records inside frames, the
  command line and the output.
- Checks of arguments and of the caller's buffers: they return before any effect.
- `basic.c` and `batches.c`, which are straight sequences of calls, and the build,
  test and evidence scripts.

## What is left

The case `BoundWraps` (hazard at `timelite.c` line 2115) has no property: the code
computes the start of the order as 0 there, and what a query then owes its caller is
not written down. The encodings, the checks of links and records in the inspect tool
and the Windows calls other than transfers and truncation could be modelled next.
