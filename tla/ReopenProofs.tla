----------------------------- MODULE ReopenProofs -----------------------------
(***************************************************************************)
(* What the handle counts and remembers is what a reopen would find, and   *)
(* timelite-inspect and the library agree on every pair of files that      *)
(* calls, errors and power failures can leave behind, for every value of   *)
(* the constants of BatchPair and Inspect.  The tool's loops are recursive *)
(* functions; where a file is whole each has a closed form, and the tool   *)
(* and the library read the same from it.                                  *)
(***************************************************************************)
EXTENDS Inspect, BatchPairProofs

------------------------------------------------------------------------------
(* Counting batches by their sequences. *)

\* As many batches as sequences, if each sequence belongs to one batch.
LEMMA SequencesCount ==
  ASSUME NEW B, NEW S, IsFiniteSet(S),
         \A b \in B : b.seq \in S,
         \A s \in S : \E b \in B : b.seq = s,
         \A a, b \in B : a.seq = b.seq => a = b
  PROVE  IsFiniteSet(B) /\ Cardinality(B) = Cardinality(S)
  <1> DEFINE f == [b \in B |-> b.seq]
  <1>1. f \in [B -> S]
    OBVIOUS
  <1>2. f \in Injection(B, S)
    BY <1>1 DEF Injection, IsInjective
  <1>3. f \in Surjection(B, S)
    BY <1>1 DEF Surjection
  <1> QED
    BY <1>2, <1>3, FS_Injection

\* In one segment, one batch per sequence of its header.
LEMMA SegmentUnique ==
  ASSUME NEW d \in DbImage, NEW o \in Nat, NEW end \in Nat, o >= DataStart, end <= DbCapacity,
         SegmentOK(d, o, end), FramesOK(d, o)
  PROVE  /\ \A a, b \in SegmentBatches(d, o) : a.seq = b.seq => a = b
         /\ \A s \in d.cell[o].first..d.cell[o].last : \E b \in SegmentBatches(d, o) : b.seq = s
  <1>1. /\ d.cell[o].first \in Nat /\ d.cell[o].last \in Nat /\ d.cell[o].first <= d.cell[o].last
        /\ SegmentSize(d, o) = 3 + (d.cell[o].last - d.cell[o].first)
    BY SegmentFields
  <1>2. PICK i \in Nat, l \in Nat : i = d.cell[o].first /\ l = d.cell[o].last /\ i <= l
    BY <1>1
  <1>3. Body(d, o) = (o + 2)..(o + 2 + (l - i))
    <2>1. o + SegmentSize(d, o) - 1 = o + 2 + (l - i)
      BY <1>1, <1>2
    <2> QED
      BY <2>1, BodyIs
  <1>4. ASSUME NEW a \in SegmentBatches(d, o)
        PROVE  \E x \in Body(d, o) : a = d.cell[x].batch /\ a.seq = i + (x - o - 2)
    <2>1. PICK x \in Body(d, o) : FrameOK(d, o, x) /\ a = d.cell[x].batch
      BY DEF SegmentBatches
    <2> QED
      BY <1>2, <2>1 DEF FrameOK, HeaderSize
  <1>5. ASSUME NEW a \in SegmentBatches(d, o), NEW b \in SegmentBatches(d, o), a.seq = b.seq
        PROVE  a = b
    <2>1. PICK x \in Body(d, o) : a = d.cell[x].batch /\ a.seq = i + (x - o - 2)
      BY <1>4
    <2>2. PICK y \in Body(d, o) : b = d.cell[y].batch /\ b.seq = i + (y - o - 2)
      BY <1>4
    <2>3. x \in Int /\ y \in Int
      BY <1>3
    <2>4. x = y
      BY <1>2, <1>5, <2>1, <2>2, <2>3
    <2> QED
      BY <2>1, <2>2, <2>4
  <1>6. ASSUME NEW s \in i..l PROVE \E b \in SegmentBatches(d, o) : b.seq = s
    <2>1. PICK x \in Nat : x = o + 2 + (s - i)
      BY <1>2
    <2>2. x \in Body(d, o)
      <3>1. s \in Nat /\ i <= s /\ s <= l
        BY <1>2
      <3>2. x >= o + 2 /\ x <= o + 2 + (l - i)
        BY <1>2, <2>1, <3>1
      <3>3. x \in (o + 2)..(o + 2 + (l - i))
        BY <1>2, <3>2
      <3> QED
        BY <1>3, <3>3
    <2>3. FrameOK(d, o, x)
      BY <2>2 DEF FramesOK
    <2>4. d.cell[x].batch \in SegmentBatches(d, o)
      BY <2>2, <2>3 DEF SegmentBatches
    <2>5. d.cell[x].batch.seq = i + (x - o - 2)
      BY <1>2, <2>3 DEF FrameOK, HeaderSize
    <2>6. i + (x - o - 2) = s
      BY <1>2, <2>1
    <2> QED
      BY <2>4, <2>5, <2>6
  <1> QED
    BY <1>2, <1>5, <1>6

\* The batches of some of the segments.
BatchesOf(d, K) == UNION {SegmentBatches(d, o) : o \in K}

\* check_segments and copy_segments count sequences, which are as many as the
\* batches of the segments they go through.
LEMMA LiveCounts ==
  ASSUME NEW d \in DbImage, NEW m, Bounds(m), Whole(d, m), NEW K, K \subseteq Segments(d, m)
  PROVE  /\ IsFiniteSet(BatchesOf(d, K))
         /\ LiveBatches(d, m, K) = Cardinality(BatchesOf(d, K))
         /\ \A a, b \in BatchesOf(d, K) : a.seq = b.seq => a = b
  <1>1. PICK f : f = Walk(d, m.root, m.count, m.end) /\ Laid(d, m, f)
    BY DEF Whole
  <1>2. Segments(d, m) = {f[k] : k \in 0..(m.count - 1)}
    BY <1>1, LaidWhole
  <1>3. m.end \in Nat /\ m.end <= DbCapacity /\ m.last \in Nat
    BY DEF Bounds
  <1>4. ASSUME NEW o \in K
        PROVE  /\ o \in Nat /\ o >= DataStart /\ SegmentOK(d, o, m.end) /\ FramesOK(d, o)
               /\ d.cell[o].first \in Nat /\ d.cell[o].last \in Nat /\ d.cell[o].first >= 1
               /\ d.cell[o].last <= m.last
    <2>1. PICK k \in 0..(m.count - 1) : o = f[k]
      BY <1>2, <1>4
    <2> QED
      BY <1>1, <2>1, LaidSegment DEF SegmentGood
  <1>5. ASSUME NEW o \in K, NEW p \in K, NEW a \in SegmentBatches(d, o), NEW b \in SegmentBatches(d, p),
               a.seq = b.seq
        PROVE  a = b
    <2>1. PICK j \in 0..(m.count - 1), k \in 0..(m.count - 1) : o = f[j] /\ p = f[k]
      BY <1>2
    <2>2. /\ a.seq \in Nat /\ d.cell[o].first <= a.seq /\ a.seq <= d.cell[o].last
          /\ d.cell[p].first <= b.seq /\ b.seq <= d.cell[p].last
          /\ d.cell[o].first \in Nat /\ d.cell[o].last \in Nat
          /\ d.cell[p].first \in Nat /\ d.cell[p].last \in Nat
      BY <1>3, <1>4, SegmentSequences
    <2>3. j < k \/ k < j \/ j = k
      BY DEF Bounds
    <2>4. ~ (j < k)
      <3>1. j < k => d.cell[o].last < d.cell[p].first
        BY <1>1, <2>1 DEF Laid
      <3> QED
        BY <1>5, <2>2, <3>1
    <2>5. ~ (k < j)
      <3>1. k < j => d.cell[p].last < d.cell[o].first
        BY <1>1, <2>1 DEF Laid
      <3> QED
        BY <1>5, <2>2, <3>1
    <2>6. o = p
      BY <2>1, <2>3, <2>4, <2>5
    <2> QED
      BY <1>3, <1>4, <1>5, <2>6, SegmentUnique
  <1> DEFINE B == BatchesOf(d, K)
             S == {s \in 1..m.last : \E o \in K : s >= d.cell[o].first /\ s <= d.cell[o].last}
  <1>6. IsFiniteSet(S)
    <2>1. IsFiniteSet(1..m.last)
      BY <1>3, FS_Interval
    <2> QED
      BY <2>1, FS_Subset
  <1>7. ASSUME NEW b \in B PROVE b.seq \in S
    <2>1. PICK o \in K : b \in SegmentBatches(d, o)
      BY DEF BatchesOf
    <2>2. b.seq \in Nat /\ d.cell[o].first <= b.seq /\ b.seq <= d.cell[o].last
      BY <1>3, <1>4, <2>1, SegmentSequences
    <2>3. b.seq \in 1..m.last
      BY <1>3, <1>4, <2>2
    <2> QED
      BY <2>2, <2>3
  <1>8. ASSUME NEW s \in S PROVE \E b \in B : b.seq = s
    <2>1. PICK o \in K : s >= d.cell[o].first /\ s <= d.cell[o].last
      OBVIOUS
    <2>2. s \in d.cell[o].first..d.cell[o].last
      BY <1>3, <1>4, <2>1
    <2>3. PICK b \in SegmentBatches(d, o) : b.seq = s
      BY <1>3, <1>4, <2>2, SegmentUnique
    <2> QED
      BY <2>3 DEF BatchesOf
  <1>9. \A a, b \in B : a.seq = b.seq => a = b
    BY <1>5 DEF BatchesOf
  <1>10. IsFiniteSet(B) /\ Cardinality(B) = Cardinality(S)
    BY <1>6, <1>7, <1>8, <1>9, SequencesCount
  <1>11. LiveBatches(d, m, K) = Cardinality(S)
    BY DEF LiveBatches
  <1> QED
    BY <1>9, <1>10, <1>11

\* The number of batches that a manifest lists.
Live(d, m) == Cardinality(Data(d, m))

\* What Live counts: the batches of the segments walked, a finite number.
LEMMA LiveData ==
  ASSUME NEW d \in DbImage, NEW m, Bounds(m), Whole(d, m)
  PROVE  /\ IsFiniteSet(Data(d, m)) /\ Live(d, m) = LiveBatches(d, m, Segments(d, m))
         /\ Live(d, m) \in Nat
  <1>1. Data(d, m) = BatchesOf(d, Segments(d, m))
    BY DEF Data, BatchesOf
  <1>2. IsFiniteSet(Data(d, m)) /\ Live(d, m) = LiveBatches(d, m, Segments(d, m))
    BY <1>1, LiveCounts DEF Live
  <1> QED
    BY <1>2, FS_CardinalityType DEF Live

\* The first n frames of a log that follows the manifest count as n more.
LEMMA LiveAndLog ==
  ASSUME NEW d \in DbImage, NEW m, Bounds(m), Whole(d, m), NEW w \in WalImage, FreshLog(w, m),
         NEW n \in Nat, n <= Len(w.frames)
  PROVE  Cardinality(Data(d, m) \cup {w.frames[i].batch : i \in 1..n}) = Live(d, m) + n
  <1>1. m.last \in Nat
    BY DEF Bounds
  <1>2. PICK x \in Nat : x = m.last
    BY <1>1
  <1> DEFINE W == {w.frames[i].batch : i \in 1..n}
  <1>3. Len(w.frames) \in Nat
    BY DEF WalImage
  <1>4. \A i \in 1..n : w.frames[i].batch.seq = x + i
    BY <1>2, <1>3 DEF FreshLog, WalSeq
  <1>5. IsFiniteSet(W) /\ Cardinality(W) = n
    <2>1. IsFiniteSet((x + 1)..(x + n)) /\ Cardinality((x + 1)..(x + n)) = n
      <3>1. /\ IsFiniteSet((x + 1)..(x + n))
            /\ Cardinality((x + 1)..(x + n)) = IF x + 1 > x + n THEN 0 ELSE (x + n) - (x + 1) + 1
        BY FS_Interval
      <3> QED
        BY <3>1
    <2>2. \A b \in W : b.seq \in (x + 1)..(x + n)
      BY <1>4
    <2>3. ASSUME NEW s \in (x + 1)..(x + n) PROVE \E b \in W : b.seq = s
      <3>1. s - x \in 1..n /\ x + (s - x) = s
        OBVIOUS
      <3>2. w.frames[s - x].batch.seq = s
        BY <1>4, <3>1
      <3> QED
        BY <3>1, <3>2
    <2>4. ASSUME NEW a \in W, NEW b \in W, a.seq = b.seq PROVE a = b
      <3>1. PICK i \in 1..n : a = w.frames[i].batch
        OBVIOUS
      <3>2. PICK j \in 1..n : b = w.frames[j].batch
        OBVIOUS
      <3>3. x + i = x + j
        BY <1>4, <2>4, <3>1, <3>2
      <3> QED
        BY <3>1, <3>2, <3>3
    <2> QED
      BY <2>1, <2>2, <2>3, <2>4, SequencesCount
  <1>6. IsFiniteSet(Data(d, m)) /\ Live(d, m) \in Nat
    BY LiveData
  <1>7. Data(d, m) \cap W = {}
    <2>1. ASSUME NEW b \in Data(d, m), b \in W PROVE FALSE
      <3>1. b.seq \in Nat /\ b.seq <= x
        BY <1>2, DataSequences
      <3>2. PICK i \in 1..n : b = w.frames[i].batch
        BY <2>1
      <3> QED
        BY <1>4, <3>1, <3>2
    <2> QED
      BY <2>1
  <1>8. Cardinality({}) = 0
    BY FS_EmptySet
  <1>9. Cardinality(Data(d, m) \cup W) = Cardinality(Data(d, m)) + Cardinality(W) - Cardinality(Data(d, m) \cap W)
    BY <1>5, <1>6, FS_Union
  <1>10. PICK k \in Nat : k = Live(d, m)
    BY <1>6
  <1>11. Cardinality(Data(d, m) \cup W) = k + n - 0
    BY <1>5, <1>7, <1>8, <1>9, <1>10 DEF Live
  <1> QED
    BY <1>10, <1>11

------------------------------------------------------------------------------
(* The count of live batches in the handle. *)

OpenPcs == {"provisionDb", "provisionWal", "trimWal", "syncTrim", "openReturn"}
CallPcs == AppendPcs \cup CheckpointPcs \cup {"reclaim", "syncReclaim"}

\* What the handle counts is what the manifest lists; an expiry knows from the
\* beginning what it will leave; a recovery never begins one.
LiveInv ==
    /\ pc \in OpenPcs => h.live = Live(dbCache, mC)
    /\ Ready \/ pc \in CallPcs => h.live = Live(dbDisk, mD)
    /\ pc \in RetentionPcs /\ ~h.open =>
          /\ h.live = Live(dbDisk, mD)
          /\ pc \in {"publish", "syncPublish", "syncCopy"} => loc.phase \in {0, 3}
    /\ pc \in RetentionPcs /\ h.open => loc.live = Cardinality(Data(dbDisk, mD) \ doom)

\* Between calls, and before a pair is validated, nothing is counted.
LEMMA LiveNothing ==
  ASSUME TypeInv, PairInv,
         Fail \/ Crash \/ Close \/ OpenStart \/ RefuseOrphanWal \/ CreateDb \/ CreateWal
              \/ WriteDbHeader \/ WriteWalHeader \/ Reject
  PROVE  LiveInv'
  <1>1. /\ pc' \in {"closed", "open", "validate", "probe", "createWal", "dbHeader", "walHeader"}
        /\ ~ Ready'
    BY DEF Fail, Crash, Close, OpenStart, RefuseOrphanWal, CreateDb, CreateWal, WriteDbHeader,
           WriteWalHeader, Reject, Goto, Ready, PairInv, FailedInv
  <1> QED
    BY <1>1 DEF LiveInv, OpenPcs, CallPcs, AppendPcs, CheckpointPcs, RetentionPcs

\* open counts as it walks over the segments.
LEMMA LiveValidate ==
  ASSUME TypeInv, PairInv, Validate
  PROVE  LiveInv'
  <1>1. pc' = "provisionDb" /\ dbCache' = dbCache /\ h' = Recovered(dbCache, walCache)
    BY DEF Validate, Goto, db
  <1>2. h'.live = LiveBatches(dbCache, mC, Segments(dbCache, mC))
    BY <1>1 DEF Recovered, mC
  <1>3. dbCache \in DbImage /\ mC \in Manifest /\ Valid(mC) /\ Whole(dbCache, mC)
    BY Known
  <1>4. h'.live = Live(dbCache, mC)
    BY <1>2, <1>3, ValidFields, LiveData
  <1>5. mC' = mC
    BY <1>1 DEF mC
  <1> QED
    BY <1>1, <1>4, <1>5 DEF LiveInv, OpenPcs, CallPcs, AppendPcs, CheckpointPcs, RetentionPcs, Ready

\* The rest of an open keeps the count Validate took.
LEMMA LiveOpen ==
  ASSUME TypeInv, PairInv, LiveInv,
         ProvisionDb \/ ProvisionWal \/ TrimWal \/ NothingToTrim \/ SyncTrim \/ OpenReturn
  PROVE  LiveInv'
  <1>1. pc \in OpenPcs /\ dbCache' = dbCache /\ h'.live = h.live
    BY DEF ProvisionDb, ProvisionWal, TrimWal, NothingToTrim, SyncTrim, OpenReturn, Goto, db,
           SyncWal, OpenPcs, TypeInv, TypeOK, Handle
  <1>2. h'.live = Live(dbCache, mC) /\ mC' = mC
    BY <1>1 DEF LiveInv, mC
  <1>3. CASE ProvisionDb \/ TrimWal \/ NothingToTrim \/ SyncTrim
    <2>1. pc' \in OpenPcs
      BY <1>3 DEF ProvisionDb, TrimWal, NothingToTrim, SyncTrim, Goto, OpenPcs
    <2> QED
      BY <1>1, <1>2, <2>1 DEF LiveInv, OpenPcs, CallPcs, AppendPcs, CheckpointPcs, RetentionPcs, Ready
  <1>4. CASE ProvisionWal
    <2>1. pc = "provisionWal" /\ pc' \in {"trimWal", "finish"} /\ dbDisk' = dbDisk /\ h' = h
      BY <1>4 DEF ProvisionWal, Goto, AfterProvision, db
    <2>2. dbDisk = dbCache /\ ~ h.open
      BY <2>1 DEF PairInv, OpenInv, SyncedDb, Opening
    <2>3. h'.live = Live(dbDisk', mD')
      BY <1>2, <2>1, <2>2 DEF mC, mD
    <2> QED
      BY <1>1, <1>2, <2>1, <2>2, <2>3
         DEF LiveInv, OpenPcs, CallPcs, AppendPcs, CheckpointPcs, RetentionPcs, Ready
  <1>5. CASE OpenReturn
    <2>1. pc = "openReturn" /\ pc' = "open" /\ dbDisk' = dbDisk
      BY <1>5 DEF OpenReturn, Goto, db
    <2>2. dbDisk = dbCache
      BY <2>1 DEF PairInv, OpenInv, Completing, SyncedDb
    <2>3. h'.live = Live(dbDisk', mD')
      BY <1>2, <2>1, <2>2 DEF mC, mD
    <2> QED
      BY <2>1, <2>3 DEF LiveInv, OpenPcs, CallPcs, AppendPcs, CheckpointPcs, RetentionPcs
  <1> QED
    BY <1>3, <1>4, <1>5

\* Appends change what is pending, a checkpoint before its install point nothing.
LEMMA LiveCall ==
  ASSUME TypeInv, PairInv, LiveInv,
         \/ \E t \in Times : AppendBatch(t)
         \/ AppendStep \/ Checkpoint \/ UpgradePrefix \/ WriteSegment \/ WriteManifest
         \/ Reclaim \/ SyncReclaim
  PROVE  LiveInv'
  <1>1. dbDisk' = dbDisk /\ h'.live = h.live
    BY DEF AppendBatch, AppendStep, SyncBody, WriteCommit, SyncCommit, AppendReturn, Checkpoint,
           UpgradePrefix, WriteSegment, WriteManifest, Reclaim, SyncReclaim, SyncWal, db,
           TypeInv, TypeOK, Handle
  <1>2. Ready \/ pc \in CallPcs
    BY DEF AppendBatch, AppendStep, SyncBody, WriteCommit, SyncCommit, AppendReturn, Checkpoint,
           UpgradePrefix, WriteSegment, WriteManifest, Reclaim, SyncReclaim, Goto, CallPcs,
           AppendPcs, CheckpointPcs
  <1>3. pc' \in CallPcs \/ pc' = "open"
    BY DEF AppendBatch, AppendStep, SyncBody, WriteCommit, SyncCommit, AppendReturn, Checkpoint,
           UpgradePrefix, WriteSegment, WriteManifest, Reclaim, SyncReclaim, Goto, CallPcs,
           AppendPcs, CheckpointPcs
  <1>4. h'.live = Live(dbDisk', mD')
    BY <1>1, <1>2 DEF LiveInv, mD
  <1> QED
    BY <1>3, <1>4 DEF LiveInv, OpenPcs, CallPcs, AppendPcs, CheckpointPcs, RetentionPcs

\* A sync that brings no manifest brings no data either.
LEMMA LiveSync ==
  ASSUME TypeInv, PairInv, mC = mD
  PROVE  Data(dbCache, mC) = Data(dbDisk, mD)
  <1>1. dbDisk \in DbImage /\ dbCache \in DbImage /\ mD \in Manifest /\ Bridge(dbDisk, dbCache, mD, mC)
    BY Known
  <1> QED
    BY <1>1, BridgeData

\* The fsyncs between a checkpoint's data writes move no batch.
LEMMA LiveSyncSegment ==
  ASSUME TypeInv, PairInv, LiveInv, SyncUpgrade \/ SyncSegment
  PROVE  LiveInv'
  <1>1. pc \in {"syncUpgrade", "syncSegment"} /\ pc' \in {"segment", "manifest"} /\ h'.live = h.live
    BY DEF SyncUpgrade, SyncSegment, Goto, TypeInv, TypeOK, Handle
  <1>2. Calling /\ SameManifest
    BY <1>1 DEF PairInv, AppendInv, CheckpointInv, CheckpointPcs
  <1>3. dbDisk' = dbCache
    BY <1>2 DEF SyncUpgrade, SyncSegment, SyncDb, Calling
  <1>4. Data(dbCache, mC) = Data(dbDisk, mD)
    BY <1>2, LiveSync DEF SameManifest
  <1>5. h.live = Live(dbDisk, mD)
    BY <1>1 DEF LiveInv, CallPcs, CheckpointPcs
  <1>6. h'.live = Live(dbDisk', mD')
    BY <1>1, <1>3, <1>4, <1>5 DEF Live, mD, mC
  <1> QED
    BY <1>1, <1>6 DEF LiveInv, OpenPcs, CallPcs, AppendPcs, CheckpointPcs, RetentionPcs, Ready

\* The install point: what was pending is live.
LEMMA LiveInstall ==
  ASSUME TypeInv, PairInv, LiveInv, SyncManifest
  PROVE  LiveInv'
  <1>1. pc = "syncManifest" /\ pc' = "reclaim" /\ h' = Installed(h)
    BY DEF SyncManifest, Goto
  <1>2. Calling /\ Checkpointing /\ SegmentWritten /\ InstallWritten
    BY <1>1 DEF PairInv, AppendInv, CheckpointInv, CheckpointPcs
  <1>3. dbDisk' = dbCache
    BY <1>2 DEF SyncManifest, SyncDb, Calling
  <1>4. /\ walDisk \in WalImage /\ h.end \in Nat /\ FreshLog(walDisk, mD) /\ Len(walDisk.frames) = h.end
        /\ h.sequence = mD.last + h.end /\ h.installed = mD.last /\ mD.last \in Nat
    BY <1>2, CheckpointLog
  <1>5. /\ dbDisk \in DbImage /\ dbCache \in DbImage /\ mD \in Manifest /\ Valid(mD)
        /\ Whole(dbDisk, mD) /\ Bridge(dbDisk, dbCache, mD, mC)
    BY Known
  <1>6. Bounds(mD)
    BY <1>5, ValidFields
  <1>7. Whole(dbCache, mD) /\ Data(dbCache, mD) = Data(dbDisk, mD)
    <2>1. Agree(dbDisk, dbCache, mD)
      BY <1>5 DEF Bridge
    <2>2. Alike(mD, mD)
      BY DEF Alike
    <2> QED
      BY <1>5, <1>6, <2>1, <2>2, WholeAgree
  <1>8. Data(dbCache, mC) = Data(dbCache, mD) \cup {walDisk.frames[i].batch : i \in 1..h.end}
    BY <1>2 DEF SegmentWritten, InstallWritten
  <1>9. PICK n \in Nat : n = h.end
    BY <1>4
  <1>10. Cardinality(Data(dbCache, mD) \cup {walDisk.frames[i].batch : i \in 1..n}) = Live(dbCache, mD) + n
    <2>1. n <= Len(walDisk.frames)
      BY <1>4, <1>9
    <2> QED
      BY <1>4, <1>5, <1>6, <1>7, <2>1, LiveAndLog
  <1>11. Live(dbCache, mC) = Live(dbDisk, mD) + n
    BY <1>7, <1>8, <1>9, <1>10 DEF Live
  <1>12. h.live = Live(dbDisk, mD)
    BY <1>1 DEF LiveInv, CallPcs, CheckpointPcs
  <1>13. h'.live = h.live + (h.sequence - h.installed)
    BY <1>1 DEF Installed, TypeInv, TypeOK, Handle
  <1>14. h.sequence - h.installed = n
    <2>1. PICK x \in Nat : x = mD.last
      BY <1>4
    <2>2. h.sequence = x + n /\ h.installed = x
      BY <1>4, <1>9, <2>1
    <2> QED
      BY <2>2
  <1>15. h'.live = Live(dbDisk', mD')
    BY <1>3, <1>11, <1>12, <1>13, <1>14 DEF mD, mC
  <1> QED
    BY <1>1, <1>15 DEF LiveInv, OpenPcs, CallPcs, AppendPcs, CheckpointPcs, RetentionPcs, Ready

\* An expiry decides how many batches will be left.
LEMMA LiveExpire ==
  ASSUME TypeInv, PairInv, LiveInv, NEW c \in Cutoffs, Expire(c)
  PROVE  LiveInv'
  <1>1. /\ dbDisk' = dbDisk /\ doom' = Entitled(c) /\ pc' = "publish" /\ h'.open = h.open
        /\ loc'.live = LiveBatches(dbCache, HandleManifest, Kept(c))
    BY DEF Expire, db, TypeInv, TypeOK, Handle
  <1>2. Calling /\ SyncedDb /\ dbCache = dbDisk /\ h.installed = mD.last /\ h.open
    BY AtReady DEF Expire
  <1>3. TieDb(mD) /\ mD.phase = 0
    BY <1>2 DEF Calling, TieKind
  <1>4. mD.root = DataStart /\ c \in Nat /\ dbCache \in DbImage
    BY <1>3, Known, ValidFields, TimesAssumption
  <1>5. /\ Bounds(HandleManifest) /\ Whole(dbCache, HandleManifest)
        /\ Kept(c) \subseteq Segments(dbCache, HandleManifest)
        /\ \A b : b \in Data(dbCache, mD) \ Entitled(c)
                      <=> \E o \in Kept(c) : b \in SegmentBatches(dbCache, o)
    BY <1>2, <1>3, <1>4, HandleLists
  <1>6. Data(dbCache, mD) \ Entitled(c) = BatchesOf(dbCache, Kept(c))
    <2>1. \A b : b \in BatchesOf(dbCache, Kept(c)) <=> \E o \in Kept(c) : b \in SegmentBatches(dbCache, o)
      BY DEF BatchesOf
    <2> QED
      BY <1>5, <2>1
  <1>7. loc'.live = Cardinality(BatchesOf(dbCache, Kept(c)))
    BY <1>1, <1>4, <1>5, LiveCounts
  <1>8. mD' = mD
    BY <1>1 DEF mD
  <1>9. loc'.live = Cardinality(Data(dbDisk', mD') \ doom')
    BY <1>1, <1>2, <1>6, <1>7, <1>8
  <1> QED
    BY <1>1, <1>2, <1>9 DEF LiveInv, OpenPcs, CallPcs, AppendPcs, CheckpointPcs, RetentionPcs, Ready

\* The writes of a retention change no durable data.
LEMMA LiveWrite ==
  ASSUME TypeInv, PairInv, LiveInv, Publish \/ CopyTail \/ CopyFront \/ TrimDb
  PROVE  LiveInv'
  <1>1. /\ dbDisk' = dbDisk /\ h' = h /\ doom' = doom /\ pc \in RetentionPcs /\ pc' \in RetentionPcs
        /\ loc'.live = loc.live
    BY DEF Publish, CopyTail, CopyFront, TrimDb, TrimStart, Goto, history, RetentionPcs, TypeInv,
           TypeOK, Locals
  <1>2. mD' = mD
    BY <1>1 DEF mD
  <1>3. ~ h.open /\ pc' \in {"publish", "syncPublish", "syncCopy"} => loc'.phase \in {0, 3}
    <2>1. CASE Publish
      BY <2>1 DEF Publish, Goto, LiveInv, RetentionPcs
    <2>2. CASE CopyTail
      <3>1. pc = "copyTail"
        BY <2>2 DEF CopyTail, Goto
      <3>2. h.open
        BY <3>1 DEF PairInv, RetentionInv, Deciding
      <3> QED
        BY <3>2
    <2>3. CASE CopyFront
      BY <2>3 DEF CopyFront, TypeInv, TypeOK, Locals
    <2>4. CASE TrimDb
      BY <2>4 DEF TrimDb
    <2> QED
      BY <2>1, <2>2, <2>3, <2>4
  <1>4. ~ h.open => h'.live = Live(dbDisk', mD')
    BY <1>1, <1>2 DEF LiveInv
  <1>5. h.open => loc'.live = Cardinality(Data(dbDisk', mD') \ doom')
    BY <1>1, <1>2 DEF LiveInv
  <1>6. pc' \notin OpenPcs /\ pc' \notin CallPcs /\ ~ Ready'
    BY <1>1 DEF RetentionPcs, OpenPcs, CallPcs, AppendPcs, CheckpointPcs, Ready
  <1> QED
    BY <1>1, <1>3, <1>4, <1>5, <1>6 DEF LiveInv

\* Nor do the syncs of data that no manifest lists yet.
LEMMA LiveSyncData ==
  ASSUME TypeInv, PairInv, LiveInv, SyncCopy \/ SyncTrimDb
  PROVE  LiveInv'
  <1>1. /\ pc \in {"syncCopy", "syncTrimDb"} /\ pc' = "publish" /\ h' = h /\ loc' = loc
        /\ doom' = doom
    BY DEF SyncCopy, SyncTrimDb, Goto, history
  <1>2. Retaining /\ mC = mD /\ (pc = "syncTrimDb" => loc.phase = 0)
    BY <1>1 DEF PairInv, RetentionInv, RetentionPcs
  <1>3. dbDisk' = dbCache
    BY <1>2 DEF SyncCopy, SyncTrimDb, SyncDb, Retaining
  <1>4. Data(dbDisk', mD') = Data(dbDisk, mD)
    BY <1>2, <1>3, LiveSync DEF mD, mC
  <1>5. ~ h.open => loc.phase \in {0, 3} /\ h.live = Live(dbDisk, mD)
    BY <1>1, <1>2 DEF LiveInv, RetentionPcs
  <1>6. h.open => loc.live = Cardinality(Data(dbDisk, mD) \ doom)
    BY <1>1 DEF LiveInv, RetentionPcs
  <1> QED
    BY <1>1, <1>4, <1>5, <1>6
       DEF LiveInv, Live, OpenPcs, CallPcs, AppendPcs, CheckpointPcs, RetentionPcs, Ready

\* A manifest of the retention lists what was listed before, or drops what the
\* expiry removes, which the count left out from the beginning.
LEMMA LivePublish ==
  ASSUME TypeInv, PairInv, LiveInv, SyncPublish
  PROVE  LiveInv'
  <1>1. /\ pc = "syncPublish" /\ pc' = AfterPublish /\ h' = h /\ doom' = doom
        /\ loc'.live = loc.live
    BY DEF SyncPublish, Goto, history, TypeInv, TypeOK, Locals
  <1>2. Retaining /\ Publishing /\ RecordWritten
    BY <1>1 DEF PairInv, RetentionInv, RetentionPcs
  <1>3. dbDisk' = dbCache /\ dbCache' = dbCache
    BY <1>2 DEF SyncPublish, SyncDb, Retaining
  <1>4. /\ dbDisk \in DbImage /\ dbCache \in DbImage /\ mD \in Manifest /\ Valid(mD)
        /\ Whole(dbDisk, mD) /\ Bridge(dbDisk, dbCache, mD, mC)
    BY Known
  <1>5. Data(dbCache, mD) = Data(dbDisk, mD)
    <2>1. Agree(dbDisk, dbCache, mD) /\ Bounds(mD)
      BY <1>4, ValidFields DEF Bridge
    <2>2. Alike(mD, mD)
      BY DEF Alike
    <2> QED
      BY <1>4, <2>1, <2>2, WholeAgree
  <1>6. mD' = mC /\ mC' = mC
    BY <1>3 DEF mD, mC
  <1>7. /\ loc.phase = 2 => Data(dbCache, mC) = Data(dbDisk, mD) \ doom
        /\ loc.phase # 2 => Data(dbCache, mC) = Data(dbDisk, mD)
    BY <1>2, <1>5 DEF Publishing, RecordWritten
  <1>8. Data(dbDisk', mD') \ doom = Data(dbDisk, mD) \ doom
    BY <1>3, <1>6, <1>7
  <1>9. h.open => loc'.live = Cardinality(Data(dbDisk', mD') \ doom')
    BY <1>1, <1>8 DEF LiveInv, RetentionPcs
  <1>10. ~ h.open => loc.phase \in {0, 3} /\ h'.live = Live(dbDisk', mD')
    <2>1. ~ h.open => loc.phase \in {0, 3} /\ h.live = Live(dbDisk, mD)
      BY <1>1 DEF LiveInv, RetentionPcs
    <2> QED
      BY <1>1, <1>3, <1>6, <1>7, <2>1 DEF Live
  <1>11. /\ pc' \in {"copyTail", "finish", "trimDb", "expireReturn", "trimWal"}
         /\ pc' = "trimWal" => ~ h.open
    BY <1>1 DEF AfterPublish
  <1>12. CASE pc' = "trimWal"
    <2>1. h'.live = Live(dbCache', mC')
      BY <1>3, <1>6, <1>10, <1>11, <1>12
    <2> QED
      BY <1>12, <2>1 DEF LiveInv, OpenPcs, CallPcs, AppendPcs, CheckpointPcs, RetentionPcs, Ready
  <1>13. CASE pc' # "trimWal"
    BY <1>1, <1>9, <1>10, <1>11, <1>13
       DEF LiveInv, OpenPcs, CallPcs, AppendPcs, CheckpointPcs, RetentionPcs, Ready
  <1> QED
    BY <1>12, <1>13

\* When the call returns nothing is left to leave out.
LEMMA LiveReturn ==
  ASSUME TypeInv, PairInv, LiveInv, ExpireReturn
  PROVE  LiveInv'
  <1>1. /\ pc = "expireReturn" /\ pc' = "open" /\ dbDisk' = dbDisk /\ h'.live = loc.live
    BY DEF ExpireReturn, Goto, db, TypeInv, TypeOK, Handle
  <1>2. h.open /\ Stored \cap doom = {}
    BY <1>1 DEF PairInv, RetentionInv, RetentionPcs, Retaining
  <1>3. Data(dbDisk, mD) \ doom = Data(dbDisk, mD)
    BY <1>2, HeldIs DEF Stored, mD
  <1>4. loc.live = Cardinality(Data(dbDisk, mD) \ doom)
    BY <1>1, <1>2 DEF LiveInv, RetentionPcs
  <1>5. h'.live = Live(dbDisk', mD')
    BY <1>1, <1>3, <1>4 DEF Live, mD
  <1> QED
    BY <1>1, <1>5 DEF LiveInv, OpenPcs, CallPcs, AppendPcs, CheckpointPcs, RetentionPcs

\* Nothing is open at first.
LEMMA LiveInit == Init => LiveInv
  BY DEF Init, LiveInv, OpenPcs, CallPcs, AppendPcs, CheckpointPcs, RetentionPcs, Ready

\* The count of live batches is inductive.
LEMMA LiveStep == TypeInv /\ PairInv /\ LiveInv /\ [Next]_vars => LiveInv'
  <1> SUFFICES ASSUME TypeInv, PairInv, LiveInv, [Next]_vars PROVE LiveInv'
    OBVIOUS
  <1>1. CASE UNCHANGED vars
    BY <1>1 DEF vars, db, wal, counts, history, LiveInv, Ready, mD, mC
  <1>2. CASE OpenStart \/ Close \/ Fail \/ Crash
    BY <1>2, LiveNothing
  <1>3. CASE OpenStep
    BY <1>3, LiveNothing, LiveValidate, LiveOpen DEF OpenStep
  <1>4. CASE AppendStep \/ Checkpoint \/ \E t \in Times : AppendBatch(t)
    BY <1>4, LiveCall
  <1>5. CASE CheckpointStep
    BY <1>5, LiveCall, LiveSyncSegment, LiveInstall DEF CheckpointStep
  <1>6. CASE \E c \in Cutoffs : Expire(c)
    BY <1>6, LiveExpire
  <1>7. CASE RetentionStep
    BY <1>7, LiveWrite, LiveSyncData, LivePublish, LiveReturn DEF RetentionStep
  <1> QED
    BY <1>1, <1>2, <1>3, <1>4, <1>5, <1>6, <1>7 DEF Next, CallStep

\* The handle's live counter is always the batches of the installed segments.
LEMMA LiveAlways == Spec => []LiveInv
  BY TypeInvAlways, PairInvAlways, LiveInit, LiveStep, PTL DEF Spec

\* timelite_batches_get_status, which reads no file, counts exactly the batches
\* that a reopen would return.
THEOREM StatusCounts == Spec => []StatusExact
  <1>1. TypeInv /\ PairInv /\ LiveInv => StatusExact
    <2> SUFFICES ASSUME TypeInv, PairInv, LiveInv, Ready
                 PROVE  CommittedBatches = Cardinality(Held(dbDisk, walDisk))
      BY DEF StatusExact
    <2>1. /\ h.end \in Nat /\ FreshView(walDisk, mD, h.end) /\ h.sequence = mD.last + h.end
          /\ h.installed = mD.last /\ Clean(walDisk)
      BY AtReady
    <2>2. h.live = Live(dbDisk, mD)
      BY DEF LiveInv
    <2>3. /\ dbDisk \in DbImage /\ walDisk \in WalImage /\ mD \in Manifest /\ Valid(mD)
          /\ Whole(dbDisk, mD) /\ mD.last \in Nat
      BY Known
    <2>4. PICK n \in Nat, x \in Nat : n = h.end /\ x = mD.last
      BY <2>1, <2>3
    <2>5. n <= Len(walDisk.frames) /\ FreshLog(walDisk, mD)
      BY <2>1, <2>4 DEF Clean
    <2>6. Cardinality(Data(dbDisk, mD) \cup {walDisk.frames[i].batch : i \in 1..n}) = Live(dbDisk, mD) + n
      BY <2>3, <2>5, ValidFields, LiveAndLog
    <2>7. Held(dbDisk, walDisk) = Data(dbDisk, mD) \cup {walDisk.frames[i].batch : i \in 1..n}
      BY <2>1, <2>4, HeldIs DEF FreshView, mD
    <2>8. h.sequence - h.installed = n
      <3>1. h.sequence = x + n /\ h.installed = x
        BY <2>1, <2>4
      <3> QED
        BY <3>1
    <2> QED
      BY <2>2, <2>6, <2>7, <2>8 DEF CommittedBatches
  <1> QED
    BY <1>1, TypeInvAlways, PairInvAlways, LiveAlways, PTL

------------------------------------------------------------------------------
(* check_segments accepts what the manifests list. *)

\* The sequence before the k-th segment of a layout.
Before(d, f, k) == IF k = 0 THEN 0 ELSE d.cell[f[k - 1]].last

\* What check_segments demands of a layout that is whole: the tail is its last
\* segment and, before the first retention, no sequence is missing and the last
\* segment has the time.
Chain(d, m, f) ==
    /\ m.count # 0 => m.tail = f[m.count - 1]
    /\ m.kind = "install" =>
          /\ \A k \in 0..(m.count - 1) : d.cell[f[k]].first = Before(d, f, k) + 1
          /\ Before(d, f, m.count) = m.last
          /\ m.count # 0 => m.time = d.cell[f[m.count - 1]].max

\* On a laid walk check_segments decides exactly Chain.
LEMMA CheckIs ==
  ASSUME NEW d \in DbImage, NEW m, Bounds(m), NEW f, Laid(d, m, f)
  PROVE  CheckSegments(d, m) <=> Chain(d, m, f)
  <1>1. Walk(d, m.root, m.count, m.end) = f
    BY LaidWhole
  <1>2. f[m.count] = m.end /\ m.count \in Nat /\ m.last \in Nat
    BY DEF Laid, Bounds
  <1>3. \A k \in 0..(m.count - 1) :
           /\ d.cell[f[k]].first \in Nat /\ d.cell[f[k]].first >= 1 /\ d.cell[f[k]].last \in Nat
           /\ d.cell[f[k]].last <= m.last
    BY LaidSegment
  <1>4. \A k \in 0..(m.count - 1) : d.cell[f[k]].first > Before(d, f, k)
    <2>1. TAKE k \in 0..(m.count - 1)
    <2>2. CASE k = 0
      BY <1>3, <2>2 DEF Before
    <2>3. CASE k # 0
      <3>1. k - 1 \in 0..(m.count - 1) /\ k - 1 < k
        BY <1>2, <2>3
      <3>2. d.cell[f[k - 1]].last < d.cell[f[k]].first
        BY <3>1 DEF Laid
      <3>3. d.cell[f[k - 1]].last \in Nat /\ d.cell[f[k]].first \in Nat
        BY <1>3, <3>1
      <3> QED
        BY <2>3, <3>2, <3>3 DEF Before
    <2> QED
      BY <2>2, <2>3
  <1>5. Before(d, f, m.count) <= m.last
    <2>1. CASE m.count = 0
      BY <1>2, <2>1 DEF Before
    <2>2. CASE m.count # 0
      <3>1. m.count - 1 \in 0..(m.count - 1)
        BY <1>2, <2>2
      <3> QED
        BY <1>3, <2>2, <3>1 DEF Before
    <2> QED
      BY <2>1, <2>2
  <1>6. CheckSegments(d, m) <=>
          /\ f[m.count] = m.end
          /\ \A k \in 0..(m.count - 1) :
                IF m.kind = "install" THEN d.cell[f[k]].first = Before(d, f, k) + 1
                                      ELSE d.cell[f[k]].first > Before(d, f, k)
          /\ IF m.kind = "install" THEN Before(d, f, m.count) = m.last
                                   ELSE Before(d, f, m.count) <= m.last
          /\ m.count # 0 => m.tail = f[m.count - 1]
          /\ m.kind = "install" /\ m.count # 0 => m.time = d.cell[m.tail].max
    BY <1>1 DEF CheckSegments, Before
  <1> QED
    BY <1>2, <1>4, <1>5, <1>6 DEF Chain

\* The record of a retention may replace an install record.
Follows(m, m2) == m2.kind = "install" => m.kind = "install" /\ m2.time = m.time

\* Copied segments are as good as the ones they were copied from.
LEMMA CheckShift ==
  ASSUME NEW d \in DbImage, NEW c \in DbImage, NEW m, NEW m2, Bounds(m), Bounds(m2),
         NEW gap \in Nat, m.root = m2.root + gap, m.end = m2.end + gap,
         m2.count = m.count, m2.last = m.last, Follows(m, m2),
         m.count # 0 => m.tail = m2.tail + gap /\ m2.tail \in Nat,
         \A o \in m2.root..(m2.end - 1) : c.cell[o] = d.cell[o + gap],
         Whole(d, m), CheckSegments(d, m)
  PROVE  CheckSegments(c, m2)
  <1> DEFINE f == Walk(d, m.root, m.count, m.end)
             g == Shifted(f, m.count, gap)
  <1>1. Laid(d, m, f)
    BY DEF Whole
  <1> HIDE DEF f
  <1>2. Chain(d, m, f)
    BY <1>1, CheckIs
  <1>3. Laid(c, m2, g)
    BY <1>1, LaidShift
  <1>4. m.count \in Nat /\ m.end \in Nat /\ m.root \in Nat /\ m2.root \in Nat /\ m2.end \in Nat
    BY DEF Bounds
  <1>5. \A k \in 0..(m.count - 1) :
           f[k] \in Nat /\ g[k] = f[k] - gap /\ c.cell[g[k]] = d.cell[f[k]]
    <2>1. TAKE k \in 0..(m.count - 1)
    <2>2. /\ f[k] \in Nat /\ f[k] >= m.root /\ SegmentSize(d, f[k]) \in Nat
          /\ SegmentSize(d, f[k]) >= 3 /\ f[k] + SegmentSize(d, f[k]) <= m.end
      BY <1>1, LaidSegment
    <2>3. k \in 0..m.count
      BY <1>4
    <2>4. g[k] = f[k] - gap
      BY <2>3 DEF Shifted
    <2>5. g[k] \in m2.root..(m2.end - 1) /\ g[k] + gap = f[k]
      BY <1>4, <2>2, <2>4
    <2> QED
      BY <2>2, <2>4, <2>5
  <1> HIDE DEF g
  <1>6. \A k \in 0..(m.count - 1) : k # 0 => k - 1 \in 0..(m.count - 1)
    BY <1>4
  <1>7. m.count # 0 => m.count - 1 \in 0..(m.count - 1)
    BY <1>4
  <1>8. \A k \in 0..m.count : Before(c, g, k) = Before(d, f, k)
    <2>1. TAKE k \in 0..m.count
    <2>2. k # 0 => k - 1 \in 0..(m.count - 1)
      BY <1>4
    <2> QED
      BY <1>5, <2>2 DEF Before
  <1>9. Chain(c, m2, g)
    <2>1. m2.count # 0 => m2.tail = g[m2.count - 1]
      <3>1. SUFFICES ASSUME m.count # 0
                     PROVE  m2.tail = g[m.count - 1]
        OBVIOUS
      <3>2. m.tail = f[m.count - 1]
        BY <1>2, <3>1 DEF Chain
      <3>3. f[m.count - 1] \in Nat /\ g[m.count - 1] = f[m.count - 1] - gap
        BY <1>5, <1>7, <3>1
      <3>4. m.tail = m2.tail + gap /\ m2.tail \in Nat
        BY <3>1
      <3> QED
        BY <3>2, <3>3, <3>4
    <2>2. ASSUME m2.kind = "install"
          PROVE  /\ \A k \in 0..(m2.count - 1) : c.cell[g[k]].first = Before(c, g, k) + 1
                 /\ Before(c, g, m2.count) = m2.last
                 /\ m2.count # 0 => m2.time = c.cell[g[m2.count - 1]].max
      <3>1. m.kind = "install" /\ m2.time = m.time
        BY <2>2 DEF Follows
      <3>2. \A k \in 0..(m.count - 1) : k \in 0..m.count
        BY <1>4
      <3>3. m.count \in 0..m.count
        BY <1>4
      <3>4. \A k \in 0..(m2.count - 1) : c.cell[g[k]].first = Before(c, g, k) + 1
        BY <1>2, <1>5, <1>8, <3>1, <3>2 DEF Chain
      <3>5. Before(c, g, m2.count) = m2.last
        BY <1>2, <1>8, <3>1, <3>3 DEF Chain
      <3>6. m2.count # 0 => m2.time = c.cell[g[m2.count - 1]].max
        BY <1>2, <1>5, <1>7, <3>1 DEF Chain
      <3> QED
        BY <3>4, <3>5, <3>6
    <2> QED
      BY <2>1, <2>2 DEF Chain
  <1> QED
    BY <1>3, <1>9, CheckIs

\* In particular where two files hold the same units.
LEMMA CheckAgree ==
  ASSUME NEW d \in DbImage, NEW c \in DbImage, NEW m, NEW m2, Bounds(m), Alike(m, m2),
         Follows(m, m2), m2.tail = m.tail, m.tail \in Nat, Agree(d, c, m),
         Whole(d, m), CheckSegments(d, m)
  PROVE  CheckSegments(c, m2)
  <1>1. /\ m.root \in Nat /\ m.end \in Nat /\ m.count \in Nat
        /\ DataStart <= m.root /\ m.end <= DbCapacity
    BY DEF Bounds
  <1>2. Bounds(m2)
    BY DEF Alike, Bounds
  <1>3. m.root = m2.root + 0 /\ m.end = m2.end + 0 /\ m2.count = m.count /\ m2.last = m.last
    BY <1>1 DEF Alike
  <1>4. m.tail = m2.tail + 0 /\ m2.tail \in Nat
    OBVIOUS
  <1>5. \A o \in m2.root..(m2.end - 1) : c.cell[o] = d.cell[o + 0]
    <2>1. TAKE o \in m2.root..(m2.end - 1)
    <2>2. o \in Nat /\ o + 0 = o /\ m.root <= o /\ o < m.end
      BY <1>1 DEF Alike
    <2>3. o \in Offsets
      BY <1>1, <2>2, CapacityAssumption DEF Offsets, DataStart
    <2> QED
      BY <2>2, <2>3 DEF Agree
  <1>6. 0 \in Nat
    OBVIOUS
  <1> QED
    BY <1>2, <1>3, <1>4, <1>5, <1>6, CheckShift

\* A manifest that lists one more segment, which is its tail.
LEMMA CheckExtend ==
  ASSUME NEW d \in DbImage, NEW m, NEW m2, Bounds(m), Bounds(m2),
         m2.root = m.root, m2.count = m.count + 1, m.last <= m2.last,
         SegmentOK(d, m.end, m2.end), m2.end = m.end + SegmentSize(d, m.end),
         SegmentGood(d, m.end, m2), m.last < d.cell[m.end].first,
         Whole(d, m), CheckSegments(d, m), m2.tail = m.end,
         m2.kind = "install" =>
            /\ m.kind = "install" /\ d.cell[m.end].first = m.last + 1
            /\ d.cell[m.end].last = m2.last /\ d.cell[m.end].max = m2.time
  PROVE  CheckSegments(d, m2)
  <1> DEFINE f == Walk(d, m.root, m.count, m.end)
             g == Extended(f, m.count, m2.end)
  <1>1. Laid(d, m, f)
    BY DEF Whole
  <1> HIDE DEF f
  <1>2. Chain(d, m, f)
    BY <1>1, CheckIs
  <1>3. Laid(d, m2, g)
    BY <1>1, LaidExtend
  <1>4. PICK n \in Nat : n = m.count
    BY DEF Bounds
  <1>5. \A k \in 0..n : g[k] = f[k]
    <2>1. TAKE k \in 0..n
    <2>2. k \in 0..(n + 1) /\ k # n + 1
      OBVIOUS
    <2> QED
      BY <1>4, <2>2 DEF Extended
  <1>6. f[n] = m.end
    BY <1>1, <1>4 DEF Laid
  <1>7. m2.count = n + 1 /\ m2.count # 0 /\ m2.count - 1 = n
    BY <1>4
  <1>8. g[n] = m.end
    BY <1>5, <1>6
  <1> HIDE DEF g
  <1>9. \A k \in 0..n : Before(d, g, k) = Before(d, f, k)
    <2>1. TAKE k \in 0..n
    <2>2. k # 0 => k - 1 \in 0..n
      OBVIOUS
    <2> QED
      BY <1>5, <2>2 DEF Before
  <1>10. ASSUME m2.kind = "install"
         PROVE  /\ \A k \in 0..(m2.count - 1) : d.cell[g[k]].first = Before(d, g, k) + 1
                /\ Before(d, g, m2.count) = m2.last
                /\ m2.count # 0 => m2.time = d.cell[g[m2.count - 1]].max
    <2>1. /\ m.kind = "install" /\ d.cell[m.end].first = m.last + 1
          /\ d.cell[m.end].last = m2.last /\ d.cell[m.end].max = m2.time
      BY <1>10
    <2>2. /\ \A k \in 0..(n - 1) : d.cell[f[k]].first = Before(d, f, k) + 1
          /\ Before(d, f, n) = m.last
      BY <1>2, <1>4, <2>1 DEF Chain
    <2>3. ASSUME NEW k \in 0..n PROVE d.cell[g[k]].first = Before(d, g, k) + 1
      <3>1. CASE k = n
        BY <1>8, <1>9, <2>1, <2>2, <3>1
      <3>2. CASE k # n
        <4>1. k \in 0..(n - 1)
          BY <3>2
        <4> QED
          BY <1>5, <1>9, <2>2, <4>1
      <3> QED
        BY <3>1, <3>2
    <2>4. Before(d, g, m2.count) = m2.last
      BY <1>7, <1>8, <2>1 DEF Before
    <2> QED
      BY <1>7, <1>8, <2>1, <2>3, <2>4
  <1>11. Chain(d, m2, g)
    BY <1>7, <1>8, <1>10 DEF Chain
  <1> QED
    BY <1>3, <1>11, CheckIs

\* Two walks from one root go the same way.
LEMMA WalkPrefix ==
  ASSUME NEW d, NEW m, NEW m2, m2.root = m.root, m.count \in Nat, m2.count \in Nat,
         m.count <= m2.count, NEW f, NEW g, Laid(d, m, f), Laid(d, m2, g)
  PROVE  \A k \in 0..m.count : g[k] = f[k]
  <1> DEFINE T == {k \in 0..m.count : g[k] = f[k]}
  <1>1. 0 \in T
    BY DEF Laid
  <1>2. ASSUME NEW k \in 0..(m.count - 1), k \in T PROVE k + 1 \in T
    <2>1. k \in 0..(m2.count - 1) /\ k + 1 \in 0..m.count
      OBVIOUS
    <2>2. f[k + 1] = f[k] + SegmentSize(d, f[k]) /\ g[k + 1] = g[k] + SegmentSize(d, g[k])
      BY <2>1 DEF Laid
    <2> QED
      BY <1>2, <2>1, <2>2
  <1> HIDE DEF T
  <1>3. \A k \in 0..m.count : k \in T
    BY <1>1, <1>2, UpTo
  <1> QED
    BY <1>3 DEF T

\* The last of some numbers below a bound.
LEMMA LastOfIs ==
  ASSUME NEW S, S \subseteq Nat, S # {}, NEW e \in Nat, \A x \in S : x < e
  PROVE  LastOf(S) \in S /\ \A x \in S : x <= LastOf(S)
  <1> DEFINE T == {y \in Nat : \A x \in S : x <= y}
  <1>1. PICK s \in S : TRUE
    OBVIOUS
  <1>2. e \in T
    OBVIOUS
  <1>3. PICK z \in T : \A y \in T : z <= y
    BY <1>2, LeastNat
  <1>4. z \in S
    <2>1. SUFFICES ASSUME z \notin S PROVE FALSE
      OBVIOUS
    <2>2. \A x \in S : x \in Nat /\ x <= z /\ x # z
      BY <2>1
    <2>3. z # 0
      BY <1>1, <2>2
    <2>4. z - 1 \in T
      BY <2>2, <2>3
    <2> QED
      BY <1>3, <2>4
  <1>5. \E x \in S : \A y \in S : y <= x
    BY <1>4
  <1> QED
    BY <1>5 DEF LastOf

\* The last segment of a packed copy is the copy of the last segment selected.
LEMMA CheckPack ==
  ASSUME NEW d \in DbImage, NEW c \in DbImage, NEW m, Bounds(m), Whole(d, m),
         NEW K, K \subseteq Segments(d, m),
         NEW U, UnitsOf(d, K, U),
         m.end + Cardinality(U) <= DbCapacity,
         PackedInto(d, c, m.end, U),
         NEW m2, m2.root = m.end, m2.count = Cardinality(K), m2.end = m.end + Cardinality(U),
         m2.last = m.last, m2.kind = "retain",
         m2.tail = IF K = {} THEN 0 ELSE m.end + Count(U, LastOf(K))
  PROVE  CheckSegments(c, m2)
  <1> DEFINE f == Walk(d, m.root, m.count, m.end)
             F == Walk(c, m2.root, m2.count, m2.end)
  <1>1. Laid(d, m, f)
    BY DEF Whole
  <1>2. Bounds(m2) /\ Whole(c, m2)
    BY WholePack
  <1>3. Laid(c, m2, F)
    BY <1>2 DEF Whole
  <1> HIDE DEF f, F
  <1>4. K \subseteq {f[k] : k \in 0..(m.count - 1)}
    BY <1>1, LaidWhole
  <1>5. /\ IsFiniteSet(K) /\ K \subseteq Nat /\ IsFiniteSet(U) /\ U \subseteq Nat
        /\ \A o \in K : m.root <= o /\ o < m.end
    <2>1. /\ IsFiniteSet(K) /\ K \subseteq Nat /\ IsFiniteSet(U) /\ U \subseteq Nat
          /\ \A x \in U : m.root <= x /\ x < m.end
          /\ \A o \in K : m.root <= o /\ o < m.end
          /\ \A k \in 0..(m.count - 1) : \A i \in 0..(SegmentSize(d, f[k]) - 1) :
                 /\ f[k] + i \in U <=> f[k] \in K
                 /\ i # 0 => f[k] + i \notin K
      BY <1>1, <1>4, Selected
    <2> QED
      BY <2>1, Zenon
  <1>6. m2.count # 0 => m2.tail = F[m2.count - 1]
    <2>1. SUFFICES ASSUME m2.count # 0 PROVE m2.tail = F[m2.count - 1]
      OBVIOUS
    <2>2. K # {}
      BY <2>1, FS_EmptySet
    <2>3. PICK e \in Nat : e = m.end
      BY DEF Bounds
    <2>4. PICK L \in Nat : L = LastOf(K) /\ L \in K /\ \A x \in K : x <= L
      BY <1>5, <2>2, <2>3, LastOfIs
    <2>5. PICK j \in 0..(m.count - 1) : L = f[j]
      BY <1>4, <2>4
    <2>6. j \in 0..m.count
      BY DEF Bounds
    <2> DEFINE p == PackedPart(d, m, f, K, U, j)
               G == Walk(c, p.root, p.count, p.end)
    <2>7. Bounds(p) /\ Whole(c, p)
      BY <1>1, <1>4, <2>6, PackParts
    <2>8. p.root = m.end /\ p.count = Count(K, L) /\ p.end = m.end + Count(U, L)
      BY <2>5 DEF PackedPart
    <2> HIDE DEF p
    <2>9. Laid(c, p, G)
      BY <2>7 DEF Whole
    <2> HIDE DEF G
    <2>10. Count(K, L) \in Nat /\ Count(K, L) + 1 = Cardinality(K)
      <3>1. L + 1 \in Nat /\ \A x \in K : x < L + 1
        BY <1>5, <2>4
      <3>2. Count(K, L + 1) = Cardinality(K)
        BY <1>5, <3>1, CountOrder
      <3>3. Count(K, L) \in Nat /\ Count(K, L + 1) = Count(K, L) + 1
        BY <1>5, <2>4, CountStep
      <3> QED
        BY <3>2, <3>3
    <2>11. PICK n \in Nat : n = p.count /\ m2.count = n + 1
      BY <2>8, <2>10
    <2>12. n \in 0..p.count /\ p.count \in Nat /\ m2.count \in Nat /\ p.count <= m2.count
           /\ m2.root = p.root
      BY <2>8, <2>11
    <2>13. F[n] = G[n]
      BY <1>3, <2>9, <2>12, WalkPrefix
    <2>14. G[n] = p.end
      BY <2>9, <2>11 DEF Laid
    <2>15. m2.tail = m.end + Count(U, L)
      BY <2>2, <2>4
    <2>16. m2.count - 1 = n
      BY <2>11
    <2> QED
      BY <2>8, <2>13, <2>14, <2>15, <2>16
  <1>7. Chain(c, m2, F)
    BY <1>6 DEF Chain
  <1> QED
    BY <1>2, <1>3, <1>7, CheckIs

\* A manifest that lists nothing is always accepted.
LEMMA CheckEmpty ==
  ASSUME NEW d \in DbImage
  PROVE  CheckSegments(d, EmptyManifest)
  <1>1. Bounds(EmptyManifest) /\ Whole(d, EmptyManifest)
    BY EmptyWhole
  <1> DEFINE f == Walk(d, EmptyManifest.root, EmptyManifest.count, EmptyManifest.end)
  <1>2. Laid(d, EmptyManifest, f)
    BY <1>1 DEF Whole
  <1> HIDE DEF f
  <1>3. Chain(d, EmptyManifest, f)
    BY EmptyWhole DEF Chain, Before
  <1> QED
    BY <1>1, <1>2, <1>3, CheckIs

\* A file that presents the manifest of another, with its data.
LEMMA BridgeCheck ==
  ASSUME NEW d \in DbImage, NEW c \in DbImage, NEW w, NEW v, NEW D, Files(d, c, w, v, D),
         CheckSegments(d, ReadManifests(d)), ReadManifests(c) = ReadManifests(d)
  PROVE  CheckSegments(c, ReadManifests(c))
  <1>1. PICK m \in Manifest : m = ReadManifests(d) /\ Valid(m) /\ Whole(d, m)
    BY FilesManifests
  <1>2. Bounds(m) /\ m.tail \in Nat
    BY <1>1, ValidFields
  <1>3. Agree(d, c, m)
    BY <1>1 DEF Files, Bridge
  <1>4. Alike(m, m) /\ Follows(m, m)
    BY DEF Alike, Follows
  <1> QED
    BY <1>1, <1>2, <1>3, <1>4, CheckAgree

\* What a failed write or a power failure leaves is accepted, whichever of the
\* two manifests it presents.
LEMMA OutcomeCheck ==
  ASSUME NEW d \in DbImage, NEW c \in DbImage, NEW x \in DbImage, NEW w, NEW v, NEW y, NEW D,
         Files(d, c, w, v, D), Files(d, x, w, y, D),
         CheckSegments(d, ReadManifests(d)), CheckSegments(c, ReadManifests(c)),
         ReadManifests(x) \in {ReadManifests(d), ReadManifests(c)}
  PROVE  CheckSegments(x, ReadManifests(x))
  <1>1. CASE ReadManifests(x) = ReadManifests(d)
    BY <1>1, BridgeCheck
  <1>2. CASE ReadManifests(x) = ReadManifests(c)
    <2>1. PICK m \in Manifest : m = ReadManifests(c) /\ Valid(m) /\ Whole(c, m)
      BY FilesManifests
    <2>2. Bounds(m) /\ m.tail \in Nat
      BY <2>1, ValidFields
    <2>3. Agree(d, c, m)
      BY <2>1 DEF Files, Bridge
    <2>4. Agree(d, x, m)
      BY <1>2, <2>1 DEF Files, Bridge
    <2>5. Agree(c, x, m)
      BY <2>3, <2>4 DEF Agree
    <2>6. Alike(m, m) /\ Follows(m, m)
      BY DEF Alike, Follows
    <2> QED
      BY <1>2, <2>1, <2>2, <2>5, <2>6, CheckAgree
  <1> QED
    BY <1>1, <1>2

------------------------------------------------------------------------------
(* The log is in the order of time. *)

OrderedLog(w) ==
    /\ Len(w.frames) <= WalCapacity
    /\ \A i, j \in 1..Len(w.frames) : i <= j => w.frames[i].batch.time <= w.frames[j].batch.time

OrderInv == OrderedLog(walDisk) /\ OrderedLog(walCache)

\* A log with a part of the frames of another, perhaps in another state.
LEMMA OrderedPart ==
  ASSUME NEW w \in WalImage, NEW v \in WalImage, OrderedLog(w), Len(v.frames) <= Len(w.frames),
         \A i \in 1..Len(v.frames) : v.frames[i].batch = w.frames[i].batch
  PROVE  OrderedLog(v)
  <1>1. PICK n \in Nat, k \in Nat : n = Len(w.frames) /\ k = Len(v.frames)
    BY DEF WalImage
  <1>2. n <= WalCapacity /\ k <= n /\ \A i \in 1..k : i \in 1..n
    BY <1>1 DEF OrderedLog
  <1>3. k <= WalCapacity
    BY <1>2, CapacityAssumption
  <1>4. \A i, j \in 1..k : i <= j => v.frames[i].batch.time <= v.frames[j].batch.time
    BY <1>1, <1>2 DEF OrderedLog
  <1> QED
    BY <1>1, <1>3, <1>4 DEF OrderedLog

\* A log of no frames.
LEMMA OrderedEmpty ==
  ASSUME NEW w, w.frames = <<>>
  PROVE  OrderedLog(w)
  <1>1. Len(<<>>) = 0 /\ 0 <= WalCapacity
    BY CapacityAssumption
  <1> QED
    BY <1>1 DEF OrderedLog

\* Another state of the last frame.
LEMMA OrderedState ==
  ASSUME NEW w \in WalImage, OrderedLog(w), NEW s \in {"short", "open", "full"}
  PROVE  OrderedLog([w EXCEPT !.frames[Len(w.frames)].state = s])
  <1> DEFINE v == [w EXCEPT !.frames[Len(w.frames)].state = s]
  <1>1. v \in WalImage /\ Len(v.frames) = Len(w.frames)
    BY LastFrameType
  <1>2. w.frames \in Seq(WalFrame)
    BY DEF WalImage
  <1>3. ASSUME NEW i \in 1..Len(v.frames) PROVE v.frames[i].batch = w.frames[i].batch
    <2>1. i \in DOMAIN w.frames /\ w.frames[i] \in WalFrame
      BY <1>1, <1>2
    <2> QED
      BY <1>2, <2>1 DEF WalFrame, WalImage
  <1>4. Len(v.frames) <= Len(w.frames)
    BY <1>1, <1>2
  <1> HIDE DEF v
  <1>5. OrderedLog(v)
    BY <1>1, <1>3, <1>4, OrderedPart
  <1> QED
    BY <1>5 DEF v

\* What a write leaves of the log.
LEMMA OrderedOutcome ==
  ASSUME NEW w \in WalImage, NEW v \in WalImage, OrderedLog(w), OrderedLog(v),
         NEW y \in WalOutcomes(w, v)
  PROVE  OrderedLog(y)
  <1>1. \/ y = w \/ y = v \/ y = NewWal("short")
        \/ y = [v EXCEPT !.frames[Len(v.frames)].state = "short"]
    BY DEF WalOutcomes
  <1>2. NewWal("short").frames = <<>>
    BY DEF NewWal
  <1> QED
    BY <1>1, <1>2, OrderedEmpty, OrderedState

\* A new log has no frames.
LEMMA OrderInit == Init => OrderInv
  <1>1. SUFFICES ASSUME Init PROVE OrderInv
    OBVIOUS
  <1>2. PICK x : walCache = NewWal(x) /\ walDisk = walCache
    BY <1>1 DEF Init
  <1>3. walCache.frames = <<>> /\ walDisk.frames = <<>>
    BY <1>2 DEF NewWal
  <1> QED
    BY <1>3, OrderedEmpty DEF OrderInv

\* append takes no batch older than the last one.
LEMMA OrderAppend ==
  ASSUME TypeInv, PairInv, OrderInv, TypeInv', NEW t \in Times, AppendBatch(t)
  PROVE  OrderInv'
  <1>1. PICK n \in Nat : n = h.end /\ n < WalCapacity
    BY AtReady DEF AppendBatch
  <1>2. /\ Ready /\ walDisk' = walDisk /\ (h.sequence # 0 => t >= h.lastTime)
        /\ walCache' = [walCache EXCEPT !.frames =
                           Append(@, [batch |-> NextBatch(t), state |-> "open"])]
    BY DEF AppendBatch
  <1>3. /\ walCache = walDisk /\ walDisk \in WalImage /\ walCache' \in WalImage
        /\ FreshView(walDisk, mD, n) /\ Len(walDisk.frames) = n /\ mD.last \in Nat
        /\ h.sequence = mD.last + n /\ h.lastTime = LastTime(walDisk, mD)
    BY <1>1, <1>2, AtReady, Known DEF Clean, TypeInv, TypeOK, Floor, mD
  <1>4. walDisk.frames \in Seq(WalFrame) /\ walDisk.frames \in Seq(WalFrame)
    BY <1>3 DEF WalImage
  <1>5. walCache'.frames = Append(walDisk.frames, [batch |-> NextBatch(t), state |-> "open"])
    BY <1>2, <1>3 DEF WalImage
  <1>6. /\ Len(walCache'.frames) = n + 1
        /\ \A i \in 1..n : walCache'.frames[i] = walDisk.frames[i]
        /\ walCache'.frames[n + 1].batch = NextBatch(t)
    BY <1>3, <1>4, <1>5
  <1>7. NextBatch(t).time = t /\ t \in Nat
    BY TimesAssumption DEF NextBatch
  <1>8. \A i \in 1..n : walDisk.frames[i].batch.time \in Nat /\ walDisk.frames[i].batch.time <= t
    <2>1. TAKE i \in 1..n
    <2>2. n \in 1..n /\ i <= n /\ n # 0
      OBVIOUS
    <2>3. h.sequence # 0
      BY <1>3, <2>2
    <2>4. t >= walDisk.frames[n].batch.time
      BY <1>2, <1>3, <2>2, <2>3 DEF FreshView
    <2>5. walDisk.frames[i].batch.time <= walDisk.frames[n].batch.time
      BY <1>3, <2>2 DEF OrderInv, OrderedLog
    <2>6. walDisk.frames[i].batch.time \in Nat /\ walDisk.frames[n].batch.time \in Nat
      BY <1>3, <2>2, WalBatchType
    <2> QED
      BY <1>7, <2>4, <2>5, <2>6
  <1>9. n + 1 <= WalCapacity
    BY <1>1, CapacityAssumption
  <1>10. ASSUME NEW i \in 1..(n + 1), NEW j \in 1..(n + 1), i <= j
         PROVE  walCache'.frames[i].batch.time <= walCache'.frames[j].batch.time
    <2>1. CASE j # n + 1
      <3>1. i \in 1..n /\ j \in 1..n
        BY <1>10, <2>1
      <3> QED
        BY <1>3, <1>6, <1>10, <3>1 DEF OrderInv, OrderedLog
    <2>2. CASE j = n + 1 /\ i # n + 1
      <3>1. i \in 1..n
        BY <2>2
      <3> QED
        BY <1>6, <1>7, <1>8, <2>2, <3>1
    <2>3. CASE j = n + 1 /\ i = n + 1
      BY <1>6, <1>7, <2>3
    <2> QED
      BY <2>1, <2>2, <2>3
  <1>11. OrderedLog(walCache')
    BY <1>6, <1>9, <1>10 DEF OrderedLog
  <1> QED
    BY <1>2, <1>11 DEF OrderInv

\* The other writes to the log: a new one, a part of it, a commit record.
LEMMA OrderWrite ==
  ASSUME TypeInv, PairInv, OrderInv, TypeInv',
         CreateWal \/ WriteWalHeader \/ TrimWal \/ WriteCommit \/ Reclaim
  PROVE  OrderInv'
  <1>1. walDisk' = walDisk /\ walCache \in WalImage /\ walCache' \in WalImage
    BY DEF CreateWal, WriteWalHeader, TrimWal, WriteCommit, Reclaim, TypeInv, TypeOK
  <1>2. CASE CreateWal \/ WriteWalHeader \/ Reclaim
    <2>1. walCache'.frames = <<>>
      BY <1>2 DEF CreateWal, WriteWalHeader, Reclaim, NewWal
    <2> QED
      BY <1>1, <2>1, OrderedEmpty DEF OrderInv
  <1>3. CASE WriteCommit
    <2>1. walCache' = [walCache EXCEPT !.frames[Len(walCache.frames)].state = "full"]
      BY <1>3 DEF WriteCommit
    <2>2. OrderedLog(walCache')
      BY <1>1, <2>1, OrderedState DEF OrderInv
    <2> QED
      BY <1>1, <2>2 DEF OrderInv
  <1>4. CASE TrimWal
    <2>1. PICK n \in Nat : n = h.end
      BY Known, HandleFields
    <2>2. /\ walCache.frames \in Seq(WalFrame) /\ n < Len(walCache.frames)
          /\ walCache'.frames = SubSeq(walCache.frames, 1, n)
      BY <1>1, <1>4, <2>1 DEF TrimWal, WalImage
    <2>3. Len(walCache'.frames) = n /\ \A i \in 1..n : walCache'.frames[i] = walCache.frames[i]
      BY <2>2
    <2>4. Len(walCache'.frames) <= Len(walCache.frames)
      BY <2>2, <2>3
    <2>5. \A i \in 1..Len(walCache'.frames) : walCache'.frames[i].batch = walCache.frames[i].batch
      BY <2>3
    <2>6. OrderedLog(walCache')
      BY <1>1, <2>4, <2>5, OrderedPart DEF OrderInv
    <2> QED
      BY <1>1, <2>6 DEF OrderInv
  <1> QED
    BY <1>2, <1>3, <1>4

\* Steps that write nothing to the log.
LEMMA OrderSync ==
  ASSUME OrderInv, walCache' = walCache, walDisk' = walDisk \/ walDisk' = walCache
  PROVE  OrderInv'
  BY DEF OrderInv

\* An error or a power failure leaves an ordered log.
LEMMA OrderFault ==
  ASSUME TypeInv, PairInv, OrderInv, Fail \/ Crash
  PROVE  OrderInv'
  <1>1. walDisk \in WalImage /\ walCache \in WalImage
    BY Known
  <1>2. \A y \in WalOutcomes(walDisk, walCache) : OrderedLog(y)
    BY <1>1, OrderedOutcome DEF OrderInv
  <1>3. CASE Fail
    <2>1. PICK y \in FailedWal : walCache' = y /\ walDisk' = walDisk
      BY <1>3 DEF Fail
    <2>2. y \in WalOutcomes(walDisk, walCache) \/ y = walCache
      BY DEF FailedWal
    <2> QED
      BY <1>2, <2>1, <2>2 DEF OrderInv
  <1>4. CASE Crash
    <2>1. PICK y \in WalOutcomes(walDisk, walCache) : walCache' = y /\ walDisk' = y
      BY <1>4 DEF Crash
    <2> QED
      BY <1>2, <2>1 DEF OrderInv
  <1> QED
    BY <1>3, <1>4

\* The order of the log's frames is inductive.
LEMMA OrderStep == TypeInv /\ PairInv /\ OrderInv /\ TypeInv' /\ [Next]_vars => OrderInv'
  <1>1. SUFFICES ASSUME TypeInv, PairInv, OrderInv, TypeInv', [Next]_vars PROVE OrderInv'
    OBVIOUS
  <1>2. CASE UNCHANGED vars
    BY <1>1, <1>2, OrderSync DEF vars, wal
  <1>3. CASE OpenStart \/ Close \/ OpenStep
    <2>1. CASE OpenStart \/ Close \/ RefuseOrphanWal \/ CreateDb \/ WriteDbHeader \/ Reject \/ Validate
               \/ ProvisionDb \/ ProvisionWal \/ NothingToTrim \/ SyncTrim \/ OpenReturn
      <3>1. walCache' = walCache /\ (walDisk' = walDisk \/ walDisk' = walCache)
        BY <2>1 DEF OpenStart, Close, RefuseOrphanWal, CreateDb, WriteDbHeader, Reject, Validate,
                    ProvisionDb, ProvisionWal, NothingToTrim, SyncTrim, OpenReturn, SyncWal, wal
      <3> QED
        BY <1>1, <3>1, OrderSync
    <2> QED
      BY <1>1, <1>3, <2>1, OrderWrite DEF OpenStep
  <1>4. CASE (\E t \in Times : AppendBatch(t)) \/ AppendStep
    <2>1. CASE SyncBody \/ SyncCommit \/ AppendReturn
      <3>1. walCache' = walCache /\ (walDisk' = walDisk \/ walDisk' = walCache)
        BY <2>1 DEF SyncBody, SyncCommit, AppendReturn, SyncWal, wal
      <3> QED
        BY <1>1, <3>1, OrderSync
    <2> QED
      BY <1>1, <1>4, <2>1, OrderWrite, OrderAppend DEF AppendStep
  <1>5. CASE Checkpoint \/ CheckpointStep
    <2>1. CASE Checkpoint \/ UpgradePrefix \/ SyncUpgrade \/ WriteSegment \/ SyncSegment
               \/ WriteManifest \/ SyncManifest \/ SyncReclaim
      <3>1. walCache' = walCache /\ (walDisk' = walDisk \/ walDisk' = walCache)
        BY <2>1 DEF Checkpoint, UpgradePrefix, SyncUpgrade, WriteSegment, SyncSegment,
                    WriteManifest, SyncManifest, SyncReclaim, SyncDb, SyncWal, wal
      <3> QED
        BY <1>1, <3>1, OrderSync
    <2> QED
      BY <1>1, <1>5, <2>1, OrderWrite DEF CheckpointStep
  <1>6. CASE (\E c \in Cutoffs : Expire(c)) \/ RetentionStep
    <2>1. walCache' = walCache /\ walDisk' = walDisk
      BY <1>6 DEF Expire, RetentionStep, Publish, SyncPublish, CopyTail, SyncCopy, CopyFront,
                  TrimDb, SyncTrimDb, ExpireReturn, SyncDb, wal
    <2> QED
      BY <1>1, <2>1, OrderSync
  <1>7. CASE Fail \/ Crash
    BY <1>1, <1>7, OrderFault
  <1> QED
    BY <1>1, <1>2, <1>3, <1>4, <1>5, <1>6, <1>7 DEF Next, CallStep

\* The frames of both logs are always ordered.
LEMMA OrderAlways == Spec => []OrderInv
  BY TypeInvAlways, PairInvAlways, OrderInit, OrderStep, PTL DEF Spec

------------------------------------------------------------------------------
(* check_segments accepts the files, before and after every write. *)

InstallPcs == {"syncSegment", "manifest", "syncManifest"}
RecordPcs  == {"publish", "syncPublish", "syncCopy", "syncTrimDb"}

\* Every manifest lists segments that check_segments accepts, and so does the one
\* that a call is about to write.
SegInv ==
    /\ CheckSegments(dbDisk, mD) /\ CheckSegments(dbCache, mC)
    /\ pc \in InstallPcs => CheckSegments(dbCache, InstallRecord)
    /\ pc \in RecordPcs => CheckSegments(dbCache, RetentionRecord)

\* A new or a version 1 file has no segments.
LEMMA SegInit == Init => SegInv
  <1> SUFFICES ASSUME Init PROVE SegInv
    OBVIOUS
  <1>1. TypeInv /\ PairInv
    BY TypeInvInit, PairInvInit
  <1>2. dbDisk = dbCache /\ pc = "closed"
    BY DEF Init
  <1>3. dbCache = NewDb \/ \E x : dbCache = BareDb(x)
    BY StartsAssumption DEF Init, LegacyDb
  <1>4. Presents(dbCache, EmptyManifest)
    BY <1>3, NewPresents
  <1>5. mC = EmptyManifest /\ dbCache \in DbImage
    BY <1>1, <1>4, Known, PresentsReads, EmptyWhole
  <1>6. mD = mC
    BY <1>2 DEF mD, mC
  <1>7. CheckSegments(dbCache, EmptyManifest)
    BY <1>5, CheckEmpty
  <1> QED
    BY <1>2, <1>5, <1>6, <1>7 DEF SegInv, InstallPcs, RecordPcs

\* Steps that write no unit and no slot.
LEMMA SegSync ==
  ASSUME SegInv, dbCache' = dbCache, dbDisk' = dbDisk \/ dbDisk' = dbCache,
         \/ pc' \notin InstallPcs \cup RecordPcs
         \/ /\ h' = h /\ loc' = loc
            /\ pc' \in InstallPcs => pc \in InstallPcs
            /\ pc' \in RecordPcs => pc \in RecordPcs
  PROVE  SegInv'
  <1>1. CheckSegments(dbDisk', mD') /\ CheckSegments(dbCache', mC')
    BY DEF SegInv, mD, mC
  <1>2. pc' \in InstallPcs => CheckSegments(dbCache', InstallRecord')
    BY DEF SegInv, InstallRecord, NewEnd
  <1>3. pc' \in RecordPcs => CheckSegments(dbCache', RetentionRecord')
    BY DEF SegInv, RetentionRecord
  <1> QED
    BY <1>1, <1>2, <1>3 DEF SegInv

\* They are most of the steps.
LEMMA SegQuiet ==
  ASSUME SegInv,
         \/ OpenStart \/ Close \/ RefuseOrphanWal \/ CreateWal \/ WriteWalHeader \/ Reject
         \/ Validate \/ ProvisionDb \/ ProvisionWal \/ TrimWal \/ NothingToTrim \/ SyncTrim
         \/ OpenReturn \/ (\E t \in Times : AppendBatch(t)) \/ AppendStep \/ Checkpoint
         \/ SyncUpgrade \/ SyncSegment \/ SyncManifest \/ Reclaim \/ SyncReclaim
         \/ SyncPublish \/ SyncCopy \/ SyncTrimDb \/ ExpireReturn
  PROVE  SegInv'
  <1>1. CASE \/ OpenStart \/ Close \/ RefuseOrphanWal \/ CreateWal \/ WriteWalHeader \/ Reject
             \/ Validate \/ ProvisionDb \/ TrimWal \/ NothingToTrim \/ SyncTrim \/ OpenReturn
    <2>1. /\ dbCache' = dbCache /\ (dbDisk' = dbDisk \/ dbDisk' = dbCache)
          /\ pc' \notin InstallPcs \cup RecordPcs
      BY <1>1 DEF OpenStart, Close, RefuseOrphanWal, CreateWal, WriteWalHeader, Reject, Validate,
         ProvisionDb, TrimWal, NothingToTrim, SyncTrim, OpenReturn, Goto, SyncWal, db, wal,
         InstallPcs, RecordPcs
    <2> QED
      BY <2>1, SegSync
  <1>2. CASE ProvisionWal \/ Checkpoint \/ AppendStep \/ \E t \in Times : AppendBatch(t)
    <2>1. /\ dbCache' = dbCache /\ dbDisk' = dbDisk
          /\ pc' \notin InstallPcs \cup RecordPcs
      BY <1>2 DEF ProvisionWal, AfterProvision, Checkpoint, AppendStep, AppendBatch, SyncBody,
         WriteCommit, SyncCommit, AppendReturn, Goto, SyncWal, db, wal, InstallPcs, RecordPcs
    <2> QED
      BY <2>1, SegSync
  <1>3. CASE SyncUpgrade \/ SyncManifest \/ Reclaim \/ SyncReclaim \/ SyncPublish \/ ExpireReturn
    <2>1. /\ dbCache' = dbCache /\ (dbDisk' = dbDisk \/ dbDisk' = dbCache)
          /\ pc' \notin InstallPcs \cup RecordPcs
      BY <1>3 DEF SyncUpgrade, SyncManifest, Reclaim, SyncReclaim, SyncPublish, AfterPublish,
         ExpireReturn, Goto, SyncDb, SyncWal, db, wal, InstallPcs, RecordPcs
    <2> QED
      BY <2>1, SegSync
  <1>4. CASE SyncSegment \/ SyncCopy \/ SyncTrimDb
    <2>1. /\ dbCache' = dbCache /\ (dbDisk' = dbDisk \/ dbDisk' = dbCache)
          /\ h' = h /\ loc' = loc
          /\ pc' \in InstallPcs => pc \in InstallPcs
          /\ pc' \in RecordPcs => pc \in RecordPcs
      BY <1>4 DEF SyncSegment, SyncCopy, SyncTrimDb, Goto, SyncDb, db, wal, InstallPcs, RecordPcs
    <2> QED
      BY <2>1, SegSync
  <1> QED
    BY <1>1, <1>2, <1>3, <1>4

\* Files that hold nothing yet.
LEMMA SegCreate ==
  ASSUME TypeInv, PairInv, SegInv, TypeInv', PairInv', CreateDb \/ WriteDbHeader \/ UpgradePrefix
  PROVE  SegInv'
  <1>1. dbDisk' = dbDisk /\ pc' \notin InstallPcs \cup RecordPcs
    BY DEF CreateDb, WriteDbHeader, UpgradePrefix, Goto, InstallPcs, RecordPcs
  <1>2. mC' = EmptyManifest
    <2>1. CASE CreateDb \/ WriteDbHeader
      <3>1. pc' \in {"createWal", "dbHeader", "walHeader"}
        BY <2>1 DEF CreateDb, WriteDbHeader, Goto
      <3> QED
        BY <3>1 DEF PairInv, OpenInv, Creating
    <2>2. CASE UpgradePrefix
      <3>1. pc = "upgrade" /\ pc' = "syncUpgrade"
        BY <2>2 DEF UpgradePrefix, Goto
      <3>2. mC' = mD'
        BY <3>1 DEF PairInv, CheckpointInv, SameManifest
      <3>3. mD' = mD
        BY <1>1 DEF mD
      <3>4. mD = EmptyManifest
        BY <3>1 DEF PairInv, CheckpointInv, AppendInv, Calling, TieDb, CheckpointPcs
      <3> QED
        BY <3>2, <3>3, <3>4
    <2> QED
      BY <2>1, <2>2
  <1>3. dbCache' \in DbImage
    BY DEF TypeInv, TypeOK
  <1>4. CheckSegments(dbCache', mC')
    BY <1>2, <1>3, CheckEmpty
  <1>5. CheckSegments(dbDisk', mD')
    BY <1>1 DEF SegInv, mD
  <1> QED
    BY <1>1, <1>4, <1>5 DEF SegInv

\* The same units, read after the same manifest.
LEMMA CheckCells ==
  ASSUME NEW d \in DbImage, NEW c \in DbImage, c.cell = d.cell, NEW m \in Manifest, Bounds(m),
         Whole(d, m), CheckSegments(d, m)
  PROVE  CheckSegments(c, m)
  <1>1. Alike(m, m) /\ Follows(m, m) /\ Agree(d, c, m) /\ m.tail \in Nat
    BY DEF Alike, Follows, Agree, Manifest
  <1> QED
    BY <1>1, CheckAgree

\* A file whose write has not touched the manifest.
LEMMA SegKept ==
  ASSUME TypeInv, PairInv, SegInv, TypeInv', PairInv', dbDisk' = dbDisk, mC' = mD'
  PROVE  CheckSegments(dbDisk', mD') /\ CheckSegments(dbCache', mC') /\ CheckSegments(dbCache', mD)
  <1>1. CheckSegments(dbDisk', mD') /\ mD' = mD
    BY DEF SegInv, mD
  <1>2. /\ Files(dbDisk', dbCache', walDisk', walCache', doom') /\ dbDisk' \in DbImage
        /\ dbCache' \in DbImage
    BY DEF PairInv, TypeInv, TypeOK
  <1>3. CheckSegments(dbCache', ReadManifests(dbCache'))
    BY <1>1, <1>2, BridgeCheck DEF mD, mC
  <1> QED
    BY <1>1, <1>3 DEF mC, mD

\* The segment of a checkpoint is accepted as the tail of the next manifest.
LEMMA SegWriteSegment ==
  ASSUME TypeInv, PairInv, OrderInv, SegInv, TypeInv', PairInv', WriteSegment
  PROVE  SegInv'
  <1>1. /\ pc = "segment" /\ pc' = "syncSegment" /\ dbDisk' = dbDisk /\ h' = h
        /\ dbCache' = WriteCells(dbCache, NewEnd, SegmentImage)
    BY DEF WriteSegment, Goto
  <1>2. Calling /\ Checkpointing
    BY <1>1 DEF PairInv, AppendInv, CheckpointInv, CheckpointPcs
  <1>3. mC' = mD' /\ Whole(dbCache', mC') /\ dbCache' \in DbImage /\ mD' = mD
    <2>1. mC' = mD'
      BY <1>1 DEF PairInv, CheckpointInv, SameManifest
    <2>2. dbCache' \in DbImage /\ dbDisk' \in DbImage
          /\ Files(dbDisk', dbCache', walDisk', walCache', doom')
      BY DEF TypeInv, TypeOK, PairInv
    <2>3. Whole(dbCache', ReadManifests(dbCache'))
      BY <2>2, FilesManifests
    <2> QED
      BY <1>1, <2>1, <2>2, <2>3 DEF mC, mD
  <1>4. CheckSegments(dbDisk', mD') /\ CheckSegments(dbCache', mC') /\ CheckSegments(dbCache', mD)
    BY <1>1, <1>3, SegKept
  <1>5. PICK c \in DbImage : c = dbCache'
    BY <1>3
  <1>6. Whole(c, mD) /\ CheckSegments(c, mD) /\ c = WriteCells(dbCache, NewEnd, SegmentImage)
    BY <1>1, <1>3, <1>4, <1>5
  <1>7. PICK e \in Nat : e = mD.end
    BY <1>2, InstallFacts
  <1>8. PICK n \in Nat : n = h.end /\ n # 0 /\ n <= WalCapacity
    BY <1>2, CheckpointLog
  <1>9. PICK a \in Nat : a = mD.last
    BY <1>2, CheckpointLog
  <1>10. PICK x \in Nat : x = h.walMax
    BY Known, HandleFields
  <1>11. e >= DataStart /\ e + 2 + n <= DbCapacity /\ InstallRecord.end = e + 2 + n
         /\ InstallRecord.last = a + n
    BY <1>2, <1>7, <1>8, <1>9, InstallFacts DEF DataStart
  <1> DEFINE b == [i \in 1..n |-> walDisk.frames[i].batch]
  <1>12. c.cell[e] = Header(a + 1, a + n, x) /\ c.cell[e + 1] = HeaderRest
    BY <1>2, <1>6, <1>7, <1>8, <1>9, <1>10, SegmentCells
  <1>13. \A i \in 1..n : c.cell[e + 1 + i] = Frame(b[i]) /\ b[i].seq = a + i
    <2>1. \A i \in 1..n : c.cell[e + 1 + i] = Frame(walDisk.frames[i].batch)
      BY <1>2, <1>6, <1>7, <1>8, SegmentCells
    <2>2. \A i \in 1..n : WalSeq(walDisk, i) = a + i
      BY <1>2, <1>8, <1>9, CheckpointLog DEF FreshLog
    <2> QED
      BY <2>1, <2>2 DEF WalSeq
  <1>14. (\E i \in 1..n : b[i].time = x) /\ (\A i \in 1..n : b[i].time <= x)
    BY <1>2, <1>8, <1>10, CheckpointLog DEF IsMax
  <1>15. x = h.lastTime
    <2>1. /\ h.lastTime = LastTime(walDisk, mD) /\ FreshView(walDisk, mD, n)
          /\ Len(walDisk.frames) = n /\ walDisk \in WalImage
      BY <1>2, <1>8, CheckpointLog
    <2>2. h.lastTime = b[n].time
      BY <1>8, <2>1 DEF FreshView
    <2>3. PICK j \in 1..n : b[j].time = x
      BY <1>14
    <2>4. b[j].time <= b[n].time
      BY SMTT(30), <1>8, <2>1, <2>3 DEF OrderInv, OrderedLog
    <2>5. b[n].time <= x /\ b[n].time \in Nat
      <3>1. n \in 1..n /\ walDisk.frames[n].batch.time \in Nat
        BY <1>8, <2>1, WalBatchType
      <3> QED
        BY <1>14, <3>1
    <2> QED
      BY <2>2, <2>3, <2>4, <2>5
  <1>16. PICK r : r = InstallRecord
    OBVIOUS
  <1>17. r.last = a + n
    BY <1>11, <1>16
  <1> HIDE DEF b
  <1>18. SegmentAt(c, e, a, n, x, b)
    BY <1>8, <1>11, <1>12, <1>13, <1>14 DEF SegmentAt
  <1>19. /\ SegmentOK(c, e, e + 2 + n) /\ SegmentSize(c, e) = 2 + n /\ c.cell[e].first = a + 1
         /\ SegmentGood(c, e, r)
    BY SMTT(30), <1>17, <1>18, FreshSegment
  <1>20. c.cell[e].last = a + n /\ c.cell[e].max = x
    BY <1>12 DEF Header
  <1>21. /\ Bounds(mD) /\ Bounds(r) /\ r.root = mD.root /\ r.count = mD.count + 1
         /\ r.tail = mD.end /\ r.time = h.lastTime
         /\ r.kind = (IF h.retention THEN "retain" ELSE "install")
    BY <1>2, <1>16, InstallFacts
  <1>22. r.end = e + 2 + n /\ r.end = e + SegmentSize(c, e)
    BY <1>11, <1>16, <1>19
  <1>23. mD.last <= r.last /\ mD.last < c.cell[e].first
    BY <1>9, <1>17, <1>19
  <1>24. r.kind = "install" =>
            /\ mD.kind = "install" /\ c.cell[mD.end].first = mD.last + 1
            /\ c.cell[mD.end].last = r.last /\ c.cell[mD.end].max = r.time
    <2>1. mD.kind \in {"install", "retain"}
      BY Known, ValidFields
    <2>2. h.retention <=> mD.kind = "retain"
      BY <1>2 DEF Calling, TieKind
    <2> QED
      BY <1>7, <1>9, <1>15, <1>17, <1>19, <1>20, <1>21, <2>1, <2>2
  <1>25. CheckSegments(c, r)
    BY <1>6, <1>7, <1>19, <1>21, <1>22, <1>23, <1>24, CheckExtend
  <1>26. InstallRecord' = InstallRecord
    BY <1>1 DEF InstallRecord, NewEnd
  <1> QED
    BY <1>1, <1>4, <1>5, <1>16, <1>25, <1>26 DEF SegInv, InstallPcs, RecordPcs

\* A manifest is written for data that are in place.
LEMMA SegWriteManifest ==
  ASSUME TypeInv, PairInv, SegInv, TypeInv', PairInv', WriteManifest
  PROVE  SegInv'
  <1>1. /\ pc = "manifest" /\ pc' = "syncManifest" /\ dbDisk' = dbDisk /\ h' = h
        /\ dbCache' = WriteSlot(dbCache, h.revision + 1, InstallRecord)
    BY DEF WriteManifest, Goto
  <1>2. Calling /\ Checkpointing /\ SegmentWritten
    BY <1>1 DEF PairInv, AppendInv, CheckpointInv, CheckpointPcs
  <1>3. dbCache \in DbImage /\ dbCache' \in DbImage /\ h.revision + 1 \in Nat
    BY Known, HandleFields DEF TypeInv, TypeOK
  <1>4. dbCache'.cell = dbCache.cell
    BY <1>1, <1>3, WriteSlotFacts
  <1>5. InstallRecord' = InstallRecord
    BY <1>1 DEF InstallRecord, NewEnd
  <1>6. mC' = InstallRecord
    BY <1>1, <1>5 DEF PairInv, CheckpointInv, InstallWritten
  <1>7. /\ InstallRecord \in Manifest /\ Bounds(InstallRecord) /\ Whole(dbCache, InstallRecord)
        /\ CheckSegments(dbCache, InstallRecord)
    BY <1>1, <1>2, InstallFacts DEF SegmentWritten, SegInv, InstallPcs
  <1>8. CheckSegments(dbCache', InstallRecord)
    BY <1>3, <1>4, <1>7, CheckCells
  <1>9. CheckSegments(dbDisk', mD')
    BY <1>1 DEF SegInv, mD
  <1> QED
    BY <1>1, <1>5, <1>6, <1>8, <1>9 DEF SegInv, InstallPcs, RecordPcs

\* The published retention manifest lists segments that were checked.
LEMMA SegPublish ==
  ASSUME TypeInv, PairInv, SegInv, TypeInv', PairInv', Publish
  PROVE  SegInv'
  <1>1. /\ pc = "publish" /\ pc' = "syncPublish" /\ dbDisk' = dbDisk /\ h' = h /\ loc' = loc
        /\ dbCache' = WriteSlot(dbCache, loc.revision + 1, RetentionRecord)
    BY DEF Publish, Goto
  <1>2. Publishing
    BY <1>1 DEF PairInv, RetentionInv
  <1>3. dbCache \in DbImage /\ dbCache' \in DbImage /\ loc \in Locals /\ h \in Handle
    BY Known DEF TypeInv, TypeOK
  <1>4. loc.revision + 1 \in Nat
    BY <1>3, LocalsFields
  <1>5. dbCache'.cell = dbCache.cell
    BY <1>1, <1>3, <1>4, WriteSlotFacts
  <1>6. RetentionRecord' = RetentionRecord
    BY <1>1 DEF RetentionRecord
  <1>7. mC' = RetentionRecord
    BY <1>1, <1>6 DEF PairInv, RetentionInv, RecordWritten
  <1>8. /\ RetentionRecord \in Manifest /\ Valid(RetentionRecord) /\ Whole(dbCache, RetentionRecord)
        /\ CheckSegments(dbCache, RetentionRecord)
    BY <1>1, <1>2, <1>3, RecordIs, RecordFields DEF Publishing, SegInv, RecordPcs
  <1>9. CheckSegments(dbCache', RetentionRecord)
    BY <1>3, <1>5, <1>8, ValidFields, CheckCells
  <1>10. CheckSegments(dbDisk', mD')
    BY <1>1 DEF SegInv, mD
  <1> QED
    BY <1>1, <1>6, <1>7, <1>9, <1>10 DEF SegInv, InstallPcs, RecordPcs

\* The first manifest of a retention, and the last, list what is there.
LEMMA SegExpire ==
  ASSUME TypeInv, PairInv, SegInv, TypeInv', PairInv', NEW c \in Cutoffs, Expire(c)
  PROVE  SegInv'
  <1>1. /\ Ready /\ pc' = "publish" /\ dbDisk' = dbDisk /\ dbCache' = dbCache
        /\ loc'.count = h.generation /\ loc'.end = h.dataEnd /\ loc'.tail = h.lastSegment
        /\ loc'.root = DataStart
    BY DEF Expire, db
  <1>2. h'.installed = h.installed
    BY Known DEF Expire, Handle
  <1>3. Calling /\ mD \in Manifest /\ Valid(mD) /\ dbCache = dbDisk /\ mC = mD
    BY <1>1, AtReady, Known
  <1>4. /\ h.dataEnd = mD.end /\ h.generation = mD.count /\ h.lastSegment = mD.tail
        /\ h.installed = mD.last /\ mD.root = DataStart
    BY <1>3, ValidFields DEF Calling, TieDb, TieLog, TieKind
  <1>5. PICK r : r = RetentionRecord' /\ r = RecordOf(loc', h')
    BY DEF RetentionRecord, RecordOf
  <1>6. loc' \in Locals /\ h' \in Handle
    BY DEF TypeInv, TypeOK
  <1>7. Alike(mD, r) /\ Follows(mD, r) /\ r.tail = mD.tail
    BY <1>1, <1>2, <1>4, <1>5, <1>6, RecordFields DEF Alike, Follows
  <1>8. /\ Bounds(mD) /\ mD.tail \in Nat /\ Agree(dbDisk, dbDisk, mD) /\ dbDisk \in DbImage
        /\ Whole(dbDisk, mD) /\ CheckSegments(dbDisk, mD)
    BY <1>3, Known, ValidFields DEF Agree, SegInv
  <1>9. CheckSegments(dbDisk, r)
    BY <1>7, <1>8, CheckAgree
  <1>10. CheckSegments(dbDisk', mD') /\ CheckSegments(dbCache', mC')
    BY <1>1, <1>3, <1>8 DEF mD, mC
  <1> QED
    BY <1>1, <1>3, <1>5, <1>9, <1>10 DEF SegInv, InstallPcs, RecordPcs

\* The truncation ends at the published end of the segments.
LEMMA SegTrimDb ==
  ASSUME TypeInv, PairInv, SegInv, TypeInv', PairInv', TrimDb
  PROVE  SegInv'
  <1>1. /\ pc \in {"finish", "trimDb"} /\ pc' = "syncTrimDb" /\ dbDisk' = dbDisk /\ h' = h
        /\ loc.phase # 2 \/ pc = "trimDb"
        /\ loc' = [loc EXCEPT !.phase = 0]
    BY DEF TrimDb, TrimStart
  <1>2. LocIs(mD) /\ Retaining /\ mC' = mD' /\ loc.phase # 2
    BY <1>1 DEF PairInv, RetentionInv, RetentionPcs
  <1>3. loc \in Locals /\ loc' \in Locals /\ h' \in Handle
    BY DEF TypeInv, TypeOK
  <1>4. /\ loc'.count = loc.count /\ loc'.end = loc.end /\ loc'.tail = loc.tail
        /\ loc'.root = loc.root
    BY <1>1, <1>3 DEF Locals
  <1>5. PICK r : r = RetentionRecord' /\ r = RecordOf(loc', h')
    BY DEF RetentionRecord, RecordOf
  <1>6. h'.installed = mD.last
    BY <1>1, <1>2 DEF Retaining, TieLog
  <1>7. Alike(mD, r) /\ Follows(mD, r) /\ r.tail = mD.tail
    BY <1>2, <1>3, <1>4, <1>5, <1>6, RecordFields DEF Alike, Follows, LocIs
  <1>8. mD' = mD
    BY <1>1 DEF mD
  <1>9. /\ mD \in Manifest /\ Bounds(mD) /\ mD.tail \in Nat /\ dbDisk \in DbImage
        /\ Whole(dbDisk, mD) /\ CheckSegments(dbDisk, mD)
    BY Known, ValidFields DEF SegInv
  <1>10. Agree(dbDisk, dbCache', mD) /\ dbCache' \in DbImage
    BY <1>1, <1>8 DEF PairInv, Files, Bridge, TypeInv, TypeOK, mD
  <1>11. CheckSegments(dbCache', r)
    BY <1>7, <1>9, <1>10, CheckAgree
  <1>12. CheckSegments(dbDisk', mD') /\ CheckSegments(dbCache', mC')
    BY <1>1, <1>2, SegKept
  <1> QED
    BY <1>1, <1>5, <1>11, <1>12 DEF SegInv, InstallPcs, RecordPcs

\* What a failed write or a power failure leaves.
LEMMA SegFault ==
  ASSUME TypeInv, PairInv, SegInv, Fail \/ Crash
  PROVE  SegInv'
  <1>1. /\ dbDisk \in DbImage /\ dbCache \in DbImage
        /\ Files(dbDisk, dbCache, walDisk, walCache, doom)
        /\ CheckSegments(dbDisk, ReadManifests(dbDisk))
        /\ CheckSegments(dbCache, ReadManifests(dbCache))
    BY Known DEF SegInv, mD, mC
  <1>2. CASE Fail
    <2>1. /\ dbCache' \in FailedDb /\ walCache' \in FailedWal /\ dbDisk' = dbDisk
          /\ pc' \in {"open", "closed"}
      BY <1>2 DEF Fail
    <2>2. PICK x, y : x = dbCache' /\ y = walCache' /\ x \in FailedDb /\ y \in FailedWal
      BY <2>1
    <2>3. /\ Files(dbDisk, x, walDisk, y, doom) /\ x \in DbImage
          /\ ReadManifests(x) \in {ReadManifests(dbDisk), ReadManifests(dbCache)}
      BY <2>2, FailFiles DEF mD, mC
    <2>4. CheckSegments(x, ReadManifests(x))
      BY <1>1, <2>3, OutcomeCheck
    <2> QED
      BY <1>1, <2>1, <2>2, <2>4 DEF SegInv, mD, mC, InstallPcs, RecordPcs
  <1>3. CASE Crash
    <2>1. /\ dbCache' \in DbOutcomes(dbDisk, dbCache) /\ dbDisk' = dbCache'
          /\ walCache' \in WalOutcomes(walDisk, walCache) /\ pc' = "closed"
      BY <1>3 DEF Crash
    <2>2. PICK x, y : /\ x = dbCache' /\ y = walCache' /\ x \in DbOutcomes(dbDisk, dbCache)
                      /\ y \in WalOutcomes(walDisk, walCache)
      BY <2>1
    <2>3. /\ Files(dbDisk, x, walDisk, y, doom) /\ x \in DbImage
          /\ ReadManifests(x) \in {ReadManifests(dbDisk), ReadManifests(dbCache)}
      BY <2>2, OutcomeRecorded DEF mD, mC
    <2>4. CheckSegments(x, ReadManifests(x))
      BY <1>1, <2>3, OutcomeCheck
    <2> QED
      BY <2>1, <2>2, <2>4 DEF SegInv, mD, mC, InstallPcs, RecordPcs
  <1> QED
    BY <1>2, <1>3

\* The filtered copy.
LEMMA SegCopyTail ==
  ASSUME TypeInv, PairInv, SegInv, TypeInv', PairInv', CopyTail
  PROVE  SegInv'
  <1>1. dbDisk' = dbDisk /\ h' = h /\ pc = "copyTail" /\ pc' = "syncCopy"
    BY DEF CopyTail, Goto
  <1>2. PICK t \in Nat : t = loc.cutoff
    BY Known, LocalsFields
  <1>3. PICK K : K = Kept(t)
    OBVIOUS
  <1>4. PICK U : U = KeptUnits(t)
    OBVIOUS
  <1>5. /\ dbCache' = WriteCells(dbCache, h.dataEnd + Cardinality(U), TailImage(U))
        /\ loc' = [loc EXCEPT !.count = Cardinality(K), !.end = h.dataEnd + Cardinality(U),
                              !.tail = IF K = {} THEN 0 ELSE Packed(U, LastOf(K)),
                              !.root = h.dataEnd, !.phase = 2]
    BY <1>2, <1>3, <1>4 DEF CopyTail
  <1>6. Retaining /\ SyncedDb /\ LocIs(mD) /\ loc.phase = 1 /\ Deciding
    BY <1>1 DEF PairInv, RetentionInv, RetentionPcs
  <1>7. /\ TieDb(mD) /\ mD.root = DataStart /\ h.installed = mD.last /\ h.dataEnd = mD.end
        /\ mD.end + Cardinality(U) <= DbCapacity
    BY <1>2, <1>4, <1>6 DEF Deciding, TieDb, Retaining, TieLog
  <1>8. /\ dbCache' \in DbImage /\ dbCache \in DbImage /\ loc \in Locals /\ h \in Handle
        /\ loc' \in Locals
    BY Known DEF TypeInv, TypeOK
  <1>9. /\ IsFiniteSet(U) /\ U \subseteq Nat /\ \A x \in U : x \in Offsets /\ x < mD.end
    BY <1>2, <1>4, <1>6, <1>7, KeptUnitsFacts
  <1>10. PackedInto(dbCache, dbCache', mD.end, U)
    BY <1>5, <1>6, <1>7, <1>9, TailCells
  <1>11. UnitsOf(dbCache, K, U)
    BY <1>2, <1>3, <1>4, <1>6, <1>7, KeptUnitsFacts
  <1>12. PICK m : m = HandleManifest
    OBVIOUS
  <1>13. /\ Bounds(m) /\ Whole(dbCache, m) /\ m.end = mD.end /\ m.last = mD.last
         /\ K \subseteq Segments(dbCache, m)
    BY <1>2, <1>3, <1>6, <1>7, <1>12, HandleLists
  <1>14. /\ loc'.count = Cardinality(K) /\ loc'.end = mD.end + Cardinality(U)
         /\ loc'.tail = (IF K = {} THEN 0 ELSE mD.end + Count(U, LastOf(K)))
         /\ loc'.root = mD.end
    BY <1>5, <1>7, <1>8 DEF Locals, Packed, Count
  <1>15. PICK r : r = RetentionRecord' /\ r = RecordOf(loc', h)
    BY <1>1 DEF RetentionRecord, RecordOf
  <1>16. /\ r.kind = "retain" /\ r.count = Cardinality(K) /\ r.end = m.end + Cardinality(U)
         /\ r.last = m.last /\ r.root = m.end
         /\ r.tail = IF K = {} THEN 0 ELSE m.end + Count(U, LastOf(K))
    BY <1>7, <1>8, <1>13, <1>14, <1>15, RecordFields
  <1>17. m.end + Cardinality(U) <= DbCapacity /\ PackedInto(dbCache, dbCache', m.end, U)
    BY <1>7, <1>10, <1>13
  <1>18. CheckSegments(dbCache', r)
    BY <1>8, <1>11, <1>13, <1>16, <1>17, CheckPack
  <1>19. mC' = mD'
    BY <1>1 DEF PairInv, RetentionInv
  <1>20. CheckSegments(dbDisk', mD') /\ CheckSegments(dbCache', mC')
    BY <1>1, <1>19, SegKept
  <1> QED
    BY <1>1, <1>15, <1>18, <1>20 DEF SegInv, InstallPcs, RecordPcs

\* The copy back to the front.
LEMMA SegCopyFront ==
  ASSUME TypeInv, PairInv, SegInv, TypeInv', PairInv', CopyFront
  PROVE  SegInv'
  <1> DEFINE gap == loc.root - DataStart
             end == loc.end - gap
             image == [o \in DataStart..(end - 1) |-> Unit(dbCache, o + gap)]
  <1>1. dbDisk' = dbDisk /\ h' = h /\ pc = "finish" /\ pc' = "syncCopy" /\ loc.phase = 2
    BY DEF CopyFront, Goto
  <1>2. /\ dbCache' = WriteCells(dbCache, end, image)
        /\ loc' = [loc EXCEPT !.end = end, !.tail = MovedTail(gap), !.root = DataStart, !.phase = 3]
    BY DEF CopyFront
  <1>3. Retaining /\ SyncedDb /\ LocIs(mD) /\ mC' = mD'
    BY <1>1 DEF PairInv, RetentionInv, RetentionPcs
  <1>4. /\ dbCache' \in DbImage /\ dbDisk \in DbImage /\ Whole(dbDisk, mD) /\ mD \in Manifest
        /\ Valid(mD) /\ loc \in Locals /\ h \in Handle /\ loc' \in Locals /\ dbCache = dbDisk
    BY <1>3, Known DEF TypeInv, TypeOK, SyncedDb
  <1>5. /\ loc.root = mD.root /\ loc.end = mD.end /\ loc.count = mD.count /\ loc.tail = mD.tail
        /\ mD.phase = 2 /\ h.installed = mD.last
    BY <1>1, <1>3 DEF LocIs, Retaining, TieLog
  <1>6. Bounds(mD) /\ mD.tail \in Nat
    BY <1>4, ValidFields
  <1>7. PICK R \in Nat, E \in Nat : /\ R = mD.root /\ E = mD.end /\ R >= 2 /\ R <= E
                                    /\ E <= DbCapacity
    BY <1>6 DEF Bounds, DataStart
  <1>8. PICK g \in Nat : g = gap /\ R = 2 + g
    BY <1>5, <1>7 DEF DataStart
  <1>9. PICK e \in Nat : e = end /\ E = e + g /\ e >= 2 /\ e <= DbCapacity
    BY <1>5, <1>7, <1>8, CapacityAssumption
  <1>10. dbCache' = WriteCells(dbDisk, e, image) /\ DOMAIN image = 2..(e - 1)
    BY <1>2, <1>4, <1>9 DEF DataStart
  <1>11. \A o \in 2..(e - 1) : image[o] = Unit(dbDisk, o + g)
    BY <1>4, <1>8, <1>9 DEF DataStart
  <1>12. loc'.tail = IF mD.count = 0 THEN 0 ELSE mD.tail - g
    <2>1. loc'.tail = MovedTail(g)
      BY <1>2, <1>4, <1>8 DEF Locals
    <2> QED
      BY <1>5, <2>1 DEF MovedTail
  <1>13. loc'.count = mD.count /\ loc'.end = e /\ loc'.root = 2 /\ loc'.phase = 3
    BY <1>2, <1>4, <1>5, <1>9 DEF Locals, DataStart
  <1> HIDE DEF gap, end, image
  <1>14. \A o \in Offsets : dbCache'.cell[o] = IF o \in DOMAIN image THEN image[o] ELSE dbDisk.cell[o]
    BY <1>4, <1>9, <1>10, WriteCellsFacts
  <1>15. \A o \in 2..(e - 1) : dbCache'.cell[o] = dbDisk.cell[o + g]
    <2>1. ASSUME NEW o \in 2..(e - 1) PROVE dbCache'.cell[o] = dbDisk.cell[o + g]
      <3>1. o \in Offsets /\ o + g \in Offsets
        BY <1>7, <1>9, CapacityAssumption DEF Offsets, DataStart
      <3> QED
        BY <1>10, <1>11, <1>14, <3>1 DEF Unit
    <2> QED
      BY <2>1
  <1>16. PICK r : r = RetentionRecord' /\ r = RecordOf(loc', h)
    BY <1>1 DEF RetentionRecord, RecordOf
  <1>17. /\ r.kind = "retain" /\ r.count = mD.count /\ r.end = e /\ r.last = mD.last /\ r.root = 2
         /\ r.tail = loc'.tail
    BY <1>4, <1>5, <1>13, <1>16, RecordFields
  <1>18. Bounds(r) /\ Follows(mD, r)
    BY <1>6, <1>7, <1>9, <1>17 DEF Bounds, Follows, DataStart
  <1>19. mD.count # 0 => mD.tail = r.tail + g /\ r.tail \in Nat
    <2>1. ASSUME mD.count # 0 PROVE mD.tail = r.tail + g /\ r.tail \in Nat
      <3>1. mD.tail >= R /\ r.tail = mD.tail - g
        BY <1>4, <1>7, <1>12, <1>17, <2>1, ValidTail
      <3> QED
        BY <1>6, <1>7, <1>8, <3>1
    <2> QED
      BY <2>1
  <1>20. CheckSegments(dbCache', r)
    <2>1. mD.root = r.root + g /\ mD.end = r.end + g /\ CheckSegments(dbDisk, mD)
      BY <1>7, <1>8, <1>9, <1>17 DEF SegInv
    <2>2. \A o \in r.root..(r.end - 1) : dbCache'.cell[o] = dbDisk.cell[o + g]
      BY <1>15, <1>17
    <2> QED
      BY <1>4, <1>6, <1>17, <1>18, <1>19, <2>1, <2>2, CheckShift
  <1>21. CheckSegments(dbDisk', mD') /\ CheckSegments(dbCache', mC')
    BY <1>1, <1>3, SegKept
  <1> QED
    BY <1>1, <1>16, <1>20, <1>21 DEF SegInv, InstallPcs, RecordPcs

\* That check_segments accepts the installed segments is inductive.
LEMMA SegStep ==
  TypeInv /\ PairInv /\ OrderInv /\ SegInv /\ TypeInv' /\ PairInv' /\ [Next]_vars => SegInv'
  <1> SUFFICES ASSUME TypeInv, PairInv, OrderInv, SegInv, TypeInv', PairInv', [Next]_vars
               PROVE  SegInv'
    OBVIOUS
  <1>1. CASE UNCHANGED vars
    <2>1. dbCache' = dbCache /\ dbDisk' = dbDisk /\ pc' = pc /\ h' = h /\ loc' = loc
      BY <1>1 DEF vars, db
    <2> QED
      BY <2>1, SegSync
  <1>2. CASE OpenStart \/ Close \/ Checkpoint \/ AppendStep \/ \E t \in Times : AppendBatch(t)
    BY <1>2, SegQuiet
  <1>3. CASE OpenStep
    BY <1>3, SegQuiet, SegCreate DEF OpenStep
  <1>4. CASE CheckpointStep
    BY <1>4, SegQuiet, SegCreate, SegWriteSegment, SegWriteManifest DEF CheckpointStep
  <1>5. CASE \E c \in Cutoffs : Expire(c)
    BY <1>5, SegExpire
  <1>6. CASE RetentionStep
    BY <1>6, SegQuiet, SegPublish, SegCopyTail, SegCopyFront, SegTrimDb DEF RetentionStep
  <1>7. CASE Fail \/ Crash
    BY <1>7, SegFault
  <1> QED
    BY <1>1, <1>2, <1>3, <1>4, <1>5, <1>6, <1>7 DEF Next, CallStep

\* check_segments always accepts what each manifest installs.
LEMMA SegAlways == Spec => []SegInv
  BY TypeInvAlways, PairInvAlways, OrderAlways, SegInit, SegStep, PTL DEF Spec

------------------------------------------------------------------------------
(* What lies behind the data. *)

\* A file longer than its data was left by an expiry in progress, is the emptied
\* database, or has at most one segment behind them, no longer than the log.
OrphanFits(d, w) ==
    LET m == ReadManifests(d)
    IN  \/ m.phase # 0
        \/ d.size <= m.end
        \/ m.kind = "retain" /\ m.count = 0 /\ d.size <= DataStart + 1
        \/ /\ LastSequence(w, m) > m.last
           /\ d.size + m.last <= m.end + 2 + LastSequence(w, m)

OrphanInv ==
    /\ \A d \in {dbDisk, dbCache} : \A w \in {walDisk, walCache} : OrphanFits(d, w)
    /\ mC # mD => dbCache.size = dbDisk.size
    /\ pc \in {"publish", "syncPublish", "syncTrimDb"} /\ loc.phase = 0 => dbCache.size = TrimSize

\* A shorter file with the same manifest, and a log that has no less.
LEMMA OrphanMore ==
  ASSUME NEW d \in DbImage, NEW w \in WalImage, NEW c \in DbImage, NEW v \in WalImage,
         NEW m \in Manifest, m = ReadManifests(d), ReadManifests(c) = m, c.size <= d.size,
         LastSequence(w, m) <= LastSequence(v, m), OrphanFits(d, w)
  PROVE  OrphanFits(c, v)
  <1>1. PICK s \in Nat, t \in Nat : s = d.size /\ t = c.size /\ t <= s
    BY DEF DbImage
  <1>2. PICK p \in Nat, q \in Nat : p = LastSequence(w, m) /\ q = LastSequence(v, m) /\ p <= q
    BY WalBaseType
  <1>3. PICK e \in Nat, a \in Nat : e = m.end /\ a = m.last
    BY DEF Manifest
  <1>4. CASE m.phase # 0
    BY <1>4 DEF OrphanFits
  <1>5. CASE s <= e
    <2>1. t <= e
      BY <1>1, <1>3, <1>5
    <2> QED
      BY <1>1, <1>3, <2>1 DEF OrphanFits
  <1>6. CASE m.kind = "retain" /\ m.count = 0 /\ s <= 3
    <2>1. t <= 3
      BY <1>1, <1>6
    <2> QED
      BY <1>1, <1>6, <2>1 DEF OrphanFits, DataStart
  <1>7. CASE p > a /\ s + a <= e + 2 + p
    <2>1. q > a /\ t + a <= e + 2 + q
      BY <1>1, <1>2, <1>3, <1>7
    <2> QED
      BY <1>1, <1>2, <1>3, <2>1 DEF OrphanFits
  <1>8. m.phase # 0 \/ s <= e \/ (m.kind = "retain" /\ m.count = 0 /\ s <= 3)
        \/ (p > a /\ s + a <= e + 2 + p)
    BY <1>1, <1>2, <1>3 DEF OrphanFits, DataStart
  <1> QED
    BY <1>4, <1>5, <1>6, <1>7, <1>8

\* A new file has no bytes after its slots.
LEMMA OrphanInit == Init => OrphanInv
  <1> SUFFICES ASSUME Init PROVE OrphanInv
    OBVIOUS
  <1>1. dbDisk = dbCache /\ pc = "closed"
    BY DEF Init
  <1>2. dbCache = NewDb \/ \E x : dbCache = BareDb(x)
    BY StartsAssumption DEF Init, LegacyDb
  <1>3. dbCache.size <= 2
    <2>1. CASE dbCache = NewDb
      BY <2>1 DEF NewDb, LegacyDb, BareDb, DataStart
    <2>2. CASE \E x : dbCache = BareDb(x)
      BY <2>2 DEF BareDb
    <2> QED
      BY <1>2, <2>1, <2>2
  <1>4. mC = EmptyManifest
    BY <1>2, NewPresents, Known, PresentsReads, EmptyWhole, TypeInvInit, PairInvInit
  <1>5. ReadManifests(dbCache).end = 2 /\ ReadManifests(dbCache) = mC
    BY <1>4, EmptyWhole DEF mC, DataStart
  <1>6. \A w : OrphanFits(dbCache, w)
    BY <1>3, <1>5 DEF OrphanFits
  <1> QED
    BY <1>1, <1>6 DEF OrphanInv, mD, mC

\* Steps that write nothing.
LEMMA OrphanSync ==
  ASSUME OrphanInv, dbCache' = dbCache, walCache' = walCache,
         dbDisk' = dbDisk \/ dbDisk' = dbCache, walDisk' = walDisk \/ walDisk' = walCache,
         \/ pc' \notin {"publish", "syncPublish", "syncTrimDb"} \/ loc'.phase # 0
         \/ pc \in {"publish", "syncPublish", "syncTrimDb"} /\ loc' = loc
  PROVE  OrphanInv'
  <1>1. \A d \in {dbDisk', dbCache'} : \A w \in {walDisk', walCache'} : OrphanFits(d, w)
    BY DEF OrphanInv
  <1>2. mC' # mD' => dbCache'.size = dbDisk'.size
    BY DEF OrphanInv, mD, mC
  <1>3. pc' \in {"publish", "syncPublish", "syncTrimDb"} /\ loc'.phase = 0 => dbCache'.size = TrimSize'
    BY DEF OrphanInv, TrimSize
  <1> QED
    BY <1>1, <1>2, <1>3 DEF OrphanInv

\* Steps that write neither cells of the database nor frames of the log.
LEMMA OrphanQuiet ==
  ASSUME TypeInv, PairInv, OrphanInv,
         \/ OpenStart \/ Close \/ RefuseOrphanWal \/ Reject
         \/ Validate \/ ProvisionDb \/ ProvisionWal \/ NothingToTrim \/ SyncTrim
         \/ OpenReturn \/ SyncBody \/ SyncCommit \/ AppendReturn \/ Checkpoint
         \/ SyncUpgrade \/ SyncSegment \/ SyncManifest \/ SyncReclaim
         \/ SyncPublish \/ SyncCopy \/ SyncTrimDb \/ ExpireReturn \/ \E c \in Cutoffs : Expire(c)
  PROVE  OrphanInv'
  <1>1. CASE \/ OpenStart \/ Close \/ RefuseOrphanWal \/ Reject
             \/ Validate \/ ProvisionDb \/ ProvisionWal \/ NothingToTrim \/ SyncTrim
             \/ OpenReturn \/ SyncBody \/ SyncCommit \/ AppendReturn \/ Checkpoint
    <2>1. /\ dbCache' = dbCache /\ walCache' = walCache
          /\ dbDisk' = dbDisk \/ dbDisk' = dbCache
          /\ walDisk' = walDisk \/ walDisk' = walCache
          /\ pc' \notin {"publish", "syncPublish", "syncTrimDb"}
      BY <1>1 DEF OpenStart, Close, RefuseOrphanWal, Reject, Validate, ProvisionDb, ProvisionWal,
         AfterProvision, NothingToTrim, SyncTrim, OpenReturn, SyncBody, SyncCommit, AppendReturn,
         Checkpoint, Goto, SyncWal, db, wal
    <2> QED
      BY <2>1, OrphanSync
  <1>2. CASE SyncUpgrade \/ SyncSegment \/ SyncManifest \/ SyncReclaim \/ SyncPublish \/ ExpireReturn
    <2>1. /\ dbCache' = dbCache /\ walCache' = walCache
          /\ dbDisk' = dbDisk \/ dbDisk' = dbCache
          /\ walDisk' = walDisk \/ walDisk' = walCache
          /\ pc' \notin {"publish", "syncPublish", "syncTrimDb"}
      BY <1>2 DEF SyncUpgrade, SyncSegment, SyncManifest, SyncReclaim, SyncPublish, AfterPublish,
         ExpireReturn, Goto, SyncDb, SyncWal, db, wal
    <2> QED
      BY <2>1, OrphanSync
  <1>3. CASE SyncCopy \/ SyncTrimDb
    <2>1. /\ dbCache' = dbCache /\ walCache' = walCache /\ walDisk' = walDisk /\ loc' = loc
          /\ dbDisk' = dbDisk \/ dbDisk' = dbCache
          /\ pc \in {"syncCopy", "syncTrimDb"}
      BY <1>3 DEF SyncCopy, SyncTrimDb, Goto, SyncDb, wal
    <2>2. pc = "syncCopy" => loc.phase # 0
      BY DEF PairInv, RetentionInv
    <2> QED
      BY <2>1, <2>2, OrphanSync
  <1>4. ASSUME NEW c \in Cutoffs, Expire(c) PROVE OrphanInv'
    <2>1. /\ dbCache' = dbCache /\ walCache' = walCache /\ walDisk' = walDisk /\ dbDisk' = dbDisk
          /\ loc'.phase = 1
      BY <1>4 DEF Expire, db, wal
    <2> QED
      BY <2>1, OrphanSync
  <1> QED
    BY <1>1, <1>2, <1>3, <1>4

\* What a file relates to its log from within the invariant.
LEMMA OrphanTypes ==
  ASSUME TypeInv, PairInv, NEW m, m = mD \/ m = mC
  PROVE  /\ m \in Manifest /\ Valid(m) /\ m.end \in Nat /\ m.end >= 2 /\ m.last \in Nat
         /\ \A w \in WalImage : LastSequence(w, m) \in Nat
  BY Known, ValidFields, WalBaseType

\* Writes to the log: its last sequence never goes back.
LEMMA OrphanLog ==
  ASSUME TypeInv, PairInv, OrphanInv, TypeInv', PairInv',
         (\E t \in Times : AppendBatch(t)) \/ WriteCommit \/ TrimWal \/ Reclaim
            \/ CreateWal \/ WriteWalHeader
  PROVE  OrphanInv'
  <1>1. /\ dbCache' = dbCache /\ dbDisk' = dbDisk /\ walDisk' = walDisk
        /\ pc' \notin {"publish", "syncPublish", "syncTrimDb"}
    BY DEF AppendBatch, WriteCommit, TrimWal, Reclaim, CreateWal, WriteWalHeader, Goto, db
  <1>2. mC = mD
    <2>1. CASE \E t \in Times : AppendBatch(t)
      BY <2>1, AtReady DEF AppendBatch
    <2>2. CASE WriteCommit \/ TrimWal \/ Reclaim
      <3>1. pc \in {"commit", "trimWal", "reclaim"}
        BY <2>2 DEF WriteCommit, TrimWal, Reclaim, Goto
      <3>2. SyncedDb
        BY <3>1 DEF PairInv, OpenInv, AppendInv, CheckpointInv, Completing, Appending, Reclaiming,
           AppendPcs
      <3> QED
        BY <3>2 DEF SyncedDb, mD, mC
    <2>3. CASE CreateWal \/ WriteWalHeader
      <3>1. pc \in {"createWal", "walHeader"}
        BY <2>3 DEF CreateWal, WriteWalHeader, Goto
      <3> QED
        BY <3>1 DEF PairInv, OpenInv, Creating
    <2> QED
      BY <2>1, <2>2, <2>3
  <1>3. PICK v \in WalImage : v = walCache'
    BY DEF TypeInv, TypeOK
  <1>4. PICK m \in Manifest : m = mD /\ ReadManifests(dbDisk) = m /\ ReadManifests(dbCache) = m
    BY <1>2, Known
  <1>5. LastSequence(walDisk, m) <= LastSequence(v, m)
    <2>1. Files(dbDisk, dbCache, walDisk, v, doom')
      BY <1>1, <1>3 DEF PairInv
    <2>2. High(dbCache, v) = High(dbDisk, walDisk) \/ High(dbCache, v) = High(dbDisk, walDisk) + 1
      BY <1>4, <2>1 DEF Files, Same, Commits
    <2>3. LastSequence(walDisk, m) \in Nat
      BY <1>4, Known, WalBaseType
    <2> QED
      BY <1>4, <2>2, <2>3 DEF High
  <1>6. OrphanFits(dbDisk, v) /\ OrphanFits(dbCache, v)
    <2>1. /\ OrphanFits(dbDisk, walDisk) /\ OrphanFits(dbCache, walDisk) /\ walDisk \in WalImage
          /\ dbDisk \in DbImage /\ dbCache \in DbImage
      BY Known DEF OrphanInv
    <2>2. dbDisk.size <= dbDisk.size /\ dbCache.size <= dbCache.size
      BY <2>1 DEF DbImage
    <2> QED
      BY <1>3, <1>4, <1>5, <2>1, <2>2, OrphanMore
  <1>7. \A d \in {dbDisk', dbCache'} : \A w \in {walDisk', walCache'} : OrphanFits(d, w)
    BY <1>1, <1>3, <1>6 DEF OrphanInv
  <1>8. mC' = mD'
    BY <1>1, <1>2 DEF mC, mD
  <1> QED
    BY <1>1, <1>7, <1>8 DEF OrphanInv

\* Writes to the database that leave its manifest alone.
LEMMA OrphanData ==
  ASSUME TypeInv, PairInv, OrphanInv, dbDisk' = dbDisk, walDisk' = walDisk, walCache' = walCache,
         mC' = mD', \A w : OrphanFits(dbCache', w),
         pc' \in {"publish", "syncPublish", "syncTrimDb"} /\ loc'.phase = 0 => dbCache'.size = TrimSize'
  PROVE  OrphanInv'
  BY DEF OrphanInv

\* The file is no longer than its slots, or an expiry is going on.
LEMMA OrphanWrite ==
  ASSUME TypeInv, PairInv, OrphanInv, TypeInv', PairInv',
         CreateDb \/ WriteDbHeader \/ UpgradePrefix \/ CopyTail \/ CopyFront \/ TrimDb
  PROVE  OrphanInv'
  <1>1. dbDisk' = dbDisk /\ walDisk' = walDisk /\ walCache' = walCache /\ mD' = mD
    BY DEF CreateDb, WriteDbHeader, UpgradePrefix, CopyTail, CopyFront, TrimDb, wal, mD
  <1>2. CASE CreateDb \/ WriteDbHeader \/ UpgradePrefix
    <2>1. dbCache'.size <= 2
      <3>1. CASE CreateDb
        BY <3>1 DEF CreateDb, BareDb
      <3>2. CASE WriteDbHeader
        BY <3>2 DEF WriteDbHeader, NewDb, LegacyDb, BareDb, DataStart
      <3>3. CASE UpgradePrefix
        BY <3>3 DEF UpgradePrefix, NewDb, LegacyDb, BareDb, DataStart
      <3> QED
        BY <1>2, <3>1, <3>2, <3>3
    <2>2. pc' \in {"createWal", "walHeader", "syncUpgrade"}
      BY <1>2 DEF CreateDb, WriteDbHeader, UpgradePrefix, Goto
    <2>3. mC' = mD'
      BY <2>2 DEF PairInv, OpenInv, CheckpointInv, Creating, SameManifest
    <2>4. mD.end \in Nat /\ mD.end >= 2 /\ dbCache'.size \in Nat
      BY OrphanTypes DEF TypeInv, TypeOK, DbImage
    <2>5. dbCache'.size <= ReadManifests(dbCache').end
      <3>1. dbCache'.size <= mD.end
        BY <2>1, <2>4
      <3> QED
        BY <1>1, <2>3, <3>1 DEF mC
    <2>6. \A w : OrphanFits(dbCache', w)
      BY <2>5 DEF OrphanFits
    <2> QED
      BY <1>1, <2>2, <2>3, <2>6, OrphanData
  <1>3. CASE CopyTail \/ CopyFront \/ TrimDb
    <2>1. pc \in {"copyTail", "finish", "trimDb"} /\ pc' \in {"syncCopy", "syncTrimDb"}
      BY <1>3 DEF CopyTail, CopyFront, TrimDb, TrimStart, Goto
    <2>2. LocIs(mD) /\ loc.phase # 0
      BY <2>1 DEF PairInv, RetentionInv
    <2>3. mC' = mD'
      BY <2>1 DEF PairInv, RetentionInv
    <2>4. ReadManifests(dbCache').phase # 0
      BY <1>1, <2>2, <2>3 DEF LocIs, mC
    <2>5. \A w : OrphanFits(dbCache', w)
      BY <2>4 DEF OrphanFits
    <2>6. pc' = "syncTrimDb" => dbCache'.size = TrimSize'
      <3>1. ASSUME pc' = "syncTrimDb" PROVE dbCache'.size = TrimSize'
        <4>1. TrimDb
          BY <1>3, <3>1 DEF CopyTail, CopyFront, Goto
        <4>2. dbCache'.size = TrimSize /\ loc' = [loc EXCEPT !.phase = 0]
          BY <4>1, Known DEF TrimDb, TruncateDb, DbImage
        <4>3. loc'.end = loc.end
          BY <4>2, Known DEF Locals
        <4> QED
          BY <4>2, <4>3 DEF TrimSize
      <3> QED
        BY <3>1
    <2> QED
      BY <1>1, <2>1, <2>3, <2>5, <2>6, OrphanData
  <1> QED
    BY <1>2, <1>3

\* What lies behind the data of a checkpoint ends where its segment does.
LEMMA OrphanBound ==
  ASSUME TypeInv, PairInv, OrphanInv, Calling, Checkpointing
  PROVE  /\ dbDisk.size <= NewEnd /\ NewEnd \in Nat /\ dbDisk.size \in Nat
         /\ LastSequence(walDisk, mD) = mD.last + h.end /\ NewEnd = mD.end + 2 + h.end
  <1>1. PICK s \in Nat : s = dbDisk.size
    BY Known DEF DbImage
  <1>2. PICK e \in Nat, a \in Nat, n \in Nat :
           /\ e = mD.end /\ e >= 2 /\ a = mD.last /\ n = h.end /\ n # 0
    BY CheckpointLog, InstallFacts
  <1>3. NewEnd = e + 2 + n
    BY <1>2, InstallFacts
  <1>4. LastSequence(walDisk, mD) = a + n
    BY <1>2, CheckpointLog DEF FreshView
  <1>5. mD.phase = 0 /\ OrphanFits(dbDisk, walDisk)
    BY DEF Calling, TieKind, OrphanInv
  <1>6. s <= e \/ s <= 3 \/ s + a <= e + 2 + (a + n)
    BY <1>1, <1>2, <1>4, <1>5 DEF OrphanFits, DataStart, mD
  <1>7. s <= e + 2 + n
    BY <1>1, <1>2, <1>6
  <1> QED
    BY <1>1, <1>2, <1>3, <1>4, <1>7

\* A checkpoint's segment is the orphan its log accounts for.
LEMMA OrphanSegment ==
  ASSUME TypeInv, PairInv, OrphanInv, TypeInv', PairInv', WriteSegment
  PROVE  OrphanInv'
  <1>1. /\ pc = "segment" /\ pc' = "syncSegment" /\ dbDisk' = dbDisk
        /\ walDisk' = walDisk /\ walCache' = walCache
        /\ dbCache' = WriteCells(dbCache, NewEnd, SegmentImage)
    BY DEF WriteSegment, Goto, wal
  <1>2. Calling /\ Checkpointing /\ SyncedDb
    BY <1>1 DEF PairInv, AppendInv, CheckpointInv, CheckpointPcs
  <1>3. mC' = mD' /\ mD' = mD
    BY <1>1 DEF PairInv, CheckpointInv, SameManifest, mD
  <1>4. PICK e \in Nat, a \in Nat, n \in Nat :
           /\ e = mD.end /\ a = mD.last /\ n = h.end /\ n # 0
    BY <1>2, CheckpointLog, InstallFacts
  <1>5. PICK s \in Nat : /\ s = dbDisk.size /\ s <= e + 2 + n /\ NewEnd = e + 2 + n
                         /\ LastSequence(walDisk, mD) = a + n
    BY <1>2, <1>4, OrphanBound
  <1>6. dbCache'.size = e + 2 + n
    <2>1. dbCache = dbDisk /\ dbCache \in DbImage
      BY <1>2, Known DEF SyncedDb
    <2>2. dbCache'.size = IF NewEnd > s THEN NewEnd ELSE s
      BY <1>1, <1>5, <2>1 DEF WriteCells, DbImage
    <2> QED
      BY <1>4, <1>5, <2>2
  <1>7. walCache = walDisk
    BY <1>2 DEF Checkpointing, SyncedWal
  <1>8. a + n > a /\ (e + 2 + n) + a <= e + 2 + (a + n)
    BY <1>4
  <1>9. OrphanFits(dbCache', walDisk)
    BY <1>3, <1>4, <1>5, <1>6, <1>8 DEF OrphanFits, mC
  <1>10. \A d \in {dbDisk', dbCache'} : \A w \in {walDisk', walCache'} : OrphanFits(d, w)
    BY <1>1, <1>7, <1>9 DEF OrphanInv
  <1> QED
    BY <1>1, <1>3, <1>10 DEF OrphanInv

\* The next manifest reaches to the end of the file, or leaves one unit that an
\* emptied database keeps.
LEMMA OrphanSlot ==
  ASSUME TypeInv, PairInv, OrphanInv, TypeInv', PairInv', WriteManifest \/ Publish
  PROVE  OrphanInv'
  <1>1. CASE WriteManifest
    <2>1. /\ pc = "manifest" /\ pc' = "syncManifest" /\ dbDisk' = dbDisk /\ h' = h
          /\ walDisk' = walDisk /\ walCache' = walCache
          /\ dbCache' = WriteSlot(dbCache, h.revision + 1, InstallRecord)
      BY <1>1 DEF WriteManifest, Goto, wal
    <2>2. Calling /\ Checkpointing /\ SyncedDb
      BY <2>1 DEF PairInv, AppendInv, CheckpointInv, CheckpointPcs
    <2>3. dbCache' .size = dbDisk.size
      <3>1. dbCache = dbDisk /\ dbCache \in DbImage /\ h.revision + 1 \in Nat
        BY <2>2, Known, HandleFields DEF SyncedDb
      <3> QED
        BY <2>1, <3>1, WriteSlotFacts
    <2>4. mC' = InstallRecord
      <3>1. InstallRecord' = InstallRecord
        BY <2>1 DEF InstallRecord, NewEnd
      <3> QED
        BY <2>1, <3>1 DEF PairInv, CheckpointInv, InstallWritten
    <2>5. InstallRecord.end = NewEnd
      BY <2>2, InstallFacts
    <2>6. dbCache'.size <= ReadManifests(dbCache').end
      BY <2>2, <2>3, <2>4, <2>5, OrphanBound DEF mC
    <2>7. \A w : OrphanFits(dbCache', w)
      BY <2>6 DEF OrphanFits
    <2>8. \A d \in {dbDisk', dbCache'} : \A w \in {walDisk', walCache'} : OrphanFits(d, w)
      BY <2>1, <2>7 DEF OrphanInv
    <2> QED
      BY <2>1, <2>3, <2>8 DEF OrphanInv
  <1>2. CASE Publish
    <2>1. /\ pc = "publish" /\ pc' = "syncPublish" /\ dbDisk' = dbDisk /\ h' = h /\ loc' = loc
          /\ walDisk' = walDisk /\ walCache' = walCache
          /\ dbCache' = WriteSlot(dbCache, loc.revision + 1, RetentionRecord)
      BY <1>2 DEF Publish, Goto, wal
    <2>2. Publishing /\ SyncedDb
      BY <2>1 DEF PairInv, RetentionInv
    <2>3. dbCache'.size = dbCache.size /\ dbCache'.size = dbDisk.size
      <3>1. dbCache = dbDisk /\ dbCache \in DbImage /\ loc.revision + 1 \in Nat
        BY <2>2, Known, LocalsFields DEF SyncedDb
      <3> QED
        BY <2>1, <3>1, WriteSlotFacts
    <2>4. mC' = RetentionRecord
      <3>1. RetentionRecord' = RetentionRecord
        BY <2>1 DEF RetentionRecord
      <3> QED
        BY <2>1, <3>1 DEF PairInv, RetentionInv, RecordWritten
    <2>5. PICK r \in Manifest : /\ r = RetentionRecord /\ r.kind = "retain" /\ r.end = loc.end
                                /\ r.phase = loc.phase /\ Valid(r)
      BY <2>2, Known, RecordIs, RecordFields DEF Publishing
    <2>6. loc.phase = 0 => dbCache'.size = TrimSize
      BY <2>1, <2>3 DEF OrphanInv
    <2>7. ASSUME NEW w PROVE OrphanFits(dbCache', w)
      <3>1. ReadManifests(dbCache') = r
        BY <2>4, <2>5 DEF mC
      <3>2. CASE loc.phase # 0
        BY <2>5, <3>1, <3>2 DEF OrphanFits
      <3>3. CASE loc.phase = 0 /\ loc.end # DataStart
        <4>1. dbCache'.size = r.end /\ r.end \in Nat
          BY <2>5, <2>6, <3>3, ValidFields DEF TrimSize
        <4>2. dbCache'.size <= r.end
          BY <4>1
        <4> QED
          BY <3>1, <4>2 DEF OrphanFits
      <3>4. CASE loc.phase = 0 /\ loc.end = DataStart
        <4>1. dbCache'.size = DataStart + 1
          BY <2>6, <3>4 DEF TrimSize
        <4>2. r.count = 0
          <5>1. Bounds(r) /\ r.root = 2 /\ r.end = 2 /\ r.count \in Nat
            BY <2>5, <3>4, ValidFields DEF DataStart
          <5>2. Whole(dbCache, r) /\ dbCache \in DbImage
            BY <2>2, <2>5, Known DEF Publishing
          <5>3. r.count * 3 <= 0
            BY <5>1, <5>2, WholeCounts DEF SegmentMin, HeaderSize
          <5> QED
            BY <5>1, <5>3
        <4>3. dbCache'.size <= DataStart + 1
          BY <4>1 DEF DataStart
        <4> QED
          BY <2>5, <3>1, <4>2, <4>3 DEF OrphanFits
      <3> QED
        BY <3>2, <3>3, <3>4
    <2>8. \A d \in {dbDisk', dbCache'} : \A w \in {walDisk', walCache'} : OrphanFits(d, w)
      BY <2>1, <2>7 DEF OrphanInv
    <2>9. TrimSize' = TrimSize
      BY <2>1 DEF TrimSize
    <2> QED
      BY <2>1, <2>3, <2>6, <2>8, <2>9 DEF OrphanInv
  <1> QED
    BY <1>1, <1>2

\* What survives of a file is no longer than one of the two, and as long as both
\* if they are as long as each other and it is a database at all.
LEMMA OutcomeSize ==
  ASSUME NEW d \in DbImage, NEW c \in DbImage, NEW x \in DbOutcomes(d, c)
  PROVE  /\ x.size \in Nat /\ (x.size <= d.size \/ x.size <= c.size)
         /\ x = d \/ x.size <= c.size
         /\ d.size = c.size /\ x.header = "valid" => x.size = c.size
  <1>1. PICK s \in Nat, t \in Nat : s = d.size /\ t = c.size
    BY DEF DbImage
  <1>2. CASE x = d \/ x = c
    BY <1>1, <1>2
  <1>3. CASE x # d /\ x # c
    <2>1. x \in PartialWrites(d, c)
      BY <1>3 DEF DbOutcomes
    <2>2. PICK v \in Survivals(d, c) : x = Settle(Survivor(d, c, v))
      BY <2>1 DEF PartialWrites
    <2>3. v.size \in s..t
      BY <1>1, <2>2 DEF Survivals
    <2>4. PICK q : q = Survivor(d, c, v)
      OBVIOUS
    <2>5. q.size = v.size
      BY <2>4 DEF Survivor
    <2>6. CASE q.header # "valid"
      <3>1. x = BareDb(q.header)
        BY <2>2, <2>4, <2>6 DEF Settle
      <3>2. x.size = 0 /\ x.header # "valid"
        BY <2>6, <3>1 DEF BareDb
      <3> QED
        BY <1>1, <3>2
    <2>7. CASE q.header = "valid"
      <3>1. x.size = q.size
        <4>1. x = [TruncateDb(q, q.size) EXCEPT
                     !.slot = [i \in {0, 1} |-> IF q.size = 0 \/ (i = 1 /\ q.size < DataStart)
                                                THEN NoManifest ELSE q.slot[i]]]
          BY <2>2, <2>4, <2>7 DEF Settle
        <4>2. x.size = TruncateDb(q, q.size).size
          BY <4>1 DEF TruncateDb
        <4>3. q = [header |-> v.header, size |-> v.size,
                   slot |-> [i \in {0, 1} |-> IF i = 0 THEN v.slot0 ELSE v.slot1],
                   cell |-> [o \in Offsets |-> IF o \notin v.lost THEN c.cell[o]
                                 ELSE IF v.old THEN d.cell[o] ELSE Junk]]
          BY <2>4 DEF Survivor
        <4>4. TruncateDb(q, q.size).size = q.size
          BY <4>3 DEF TruncateDb
        <4> QED
          BY <4>2, <4>4
      <3> QED
        BY <1>1, <2>3, <2>5, <3>1
    <2> QED
      BY <2>6, <2>7
  <1> QED
    BY <1>2, <1>3

\* What a write leaves of the log, if there was none in flight.
LEMMA OutcomeLog ==
  ASSUME NEW w \in WalImage, NEW y \in WalOutcomes(w, w)
  PROVE  y = w
  <1>1. Len(w.frames) \in Nat
    BY LenProperties DEF WalImage
  <1>2. Len(w.frames) # Len(w.frames) + 1
    BY <1>1
  <1> QED
    BY <1>2 DEF WalOutcomes

\* What a failed write or a power failure leaves of both files.
LEMMA OrphanOutcome ==
  ASSUME TypeInv, PairInv, OrphanInv, NEW x \in DbOutcomes(dbDisk, dbCache),
         NEW y \in WalOutcomes(walDisk, walCache)
  PROVE  /\ OrphanFits(dbDisk, y) /\ OrphanFits(x, walDisk) /\ OrphanFits(x, y)
         /\ ReadManifests(x) # mD => x.size = dbDisk.size
  <1>1. /\ dbDisk \in DbImage /\ dbCache \in DbImage /\ walDisk \in WalImage
        /\ walCache \in WalImage /\ mD \in Manifest /\ mC \in Manifest
        /\ mD = ReadManifests(dbDisk) /\ mC = ReadManifests(dbCache)
    BY Known
  <1>2. /\ x \in DbImage /\ y \in WalImage /\ ReadManifests(x) \in {mD, mC}
        /\ Files(dbDisk, x, walDisk, y, doom)
    BY OutcomeRecorded
  <1>3. /\ OrphanFits(dbDisk, walDisk) /\ OrphanFits(dbDisk, walCache)
        /\ OrphanFits(dbCache, walDisk) /\ OrphanFits(dbCache, walCache)
    BY DEF OrphanInv
  <1>4. PICK s \in Nat, t \in Nat, k \in Nat :
           /\ s = dbDisk.size /\ t = dbCache.size /\ k = x.size /\ (k <= s \/ k <= t)
           /\ s = t /\ x.header = "valid" => k = t
    BY <1>1, OutcomeSize DEF DbImage
  <1>5. CASE mC = mD
    <2>1. PICK p \in Nat, q \in Nat, j \in Nat :
             /\ p = LastSequence(walDisk, mD) /\ q = LastSequence(walCache, mD)
             /\ j = LastSequence(y, mD) /\ (j = p \/ j = q)
      <3>1. y = walDisk \/ LogSame(walCache, y, mD)
        BY <1>5, Known, WalSettled
      <3> QED
        BY <1>1, <1>2, <3>1, WalBaseType DEF LogSame
    <2>2. PICK v \in {walDisk, walCache} : LastSequence(v, mD) <= LastSequence(y, mD)
      BY <2>1
    <2>3. PICK d \in {dbDisk, dbCache} : x.size <= d.size
      BY <1>4
    <2>4. /\ v \in WalImage /\ d \in DbImage /\ OrphanFits(d, v) /\ OrphanFits(dbDisk, v)
          /\ OrphanFits(d, walDisk) /\ ReadManifests(d) = mD /\ ReadManifests(x) = mD
      BY <1>1, <1>2, <1>3, <1>5
    <2>5. /\ LastSequence(walDisk, mD) <= LastSequence(walDisk, mD) /\ dbDisk.size <= dbDisk.size
      BY <1>4, <2>1
    <2>6. OrphanFits(x, y)
      BY <1>1, <1>2, <2>2, <2>3, <2>4, OrphanMore
    <2>7. OrphanFits(dbDisk, y)
      BY <1>1, <1>2, <2>2, <2>4, <2>5, OrphanMore
    <2>8. OrphanFits(x, walDisk)
      BY <1>1, <1>2, <2>3, <2>4, <2>5, OrphanMore
    <2> QED
      BY <2>4, <2>6, <2>7, <2>8
  <1>6. CASE mC # mD
    <2>1. walCache = walDisk /\ s = t
      BY <1>1, <1>4, <1>6, Known DEF Files, OrphanInv
    <2>2. y = walDisk
      BY <1>1, <2>1, OutcomeLog
    <2>3. PICK d \in {dbDisk, dbCache} : ReadManifests(d) = ReadManifests(x)
      BY <1>1, <1>2
    <2>4. /\ d \in DbImage /\ OrphanFits(d, walDisk) /\ x.size <= d.size
          /\ ReadManifests(d) \in Manifest
      BY <1>1, <1>3, <1>4, <2>1, <2>3
    <2>5. LastSequence(walDisk, ReadManifests(d)) <= LastSequence(walDisk, ReadManifests(d))
      BY <1>1, <2>4, WalBaseType
    <2>6. OrphanFits(x, walDisk)
      BY <1>1, <1>2, <2>3, <2>4, <2>5, OrphanMore
    <2>7. ASSUME ReadManifests(x) # mD PROVE x.size = dbDisk.size
      <3>1. ReadManifests(x) = mC /\ mC.revision = mD.revision + 1 /\ mD.revision \in Nat
        BY <1>1, <1>2, <1>6, <2>7, Known, ValidFields DEF Bridge
      <3>2. ReadManifests(x) # EmptyManifest
        BY <3>1, EmptyWhole
      <3>3. Presents(x, ReadManifests(x))
        BY <1>1, <1>2, FilesManifests
      <3>4. x.header = "valid"
        BY <3>2, <3>3 DEF Presents
      <3> QED
        BY <1>4, <2>1, <3>4
    <2> QED
      BY <1>3, <2>2, <2>6, <2>7
  <1> QED
    BY <1>5, <1>6

\* An error or a power failure leaves an orphan the log accounts for.
LEMMA OrphanFault ==
  ASSUME TypeInv, PairInv, OrphanInv, Fail \/ Crash
  PROVE  OrphanInv'
  <1>1. CASE Crash
    <2>1. /\ dbCache' \in DbOutcomes(dbDisk, dbCache) /\ dbDisk' = dbCache'
          /\ walCache' \in WalOutcomes(walDisk, walCache) /\ walDisk' = walCache' /\ pc' = "closed"
      BY <1>1 DEF Crash
    <2>2. OrphanFits(dbCache', walCache')
      BY <2>1, OrphanOutcome
    <2> QED
      BY <2>1, <2>2 DEF OrphanInv, mD, mC
  <1>2. CASE Fail
    <2>1. /\ dbCache' \in FailedDb /\ walCache' \in FailedWal /\ dbDisk' = dbDisk
          /\ walDisk' = walDisk /\ pc' \in {"open", "closed"}
      BY <1>2 DEF Fail
    <2>2. PICK x, y : x = dbCache' /\ y = walCache' /\ x \in FailedDb /\ y \in FailedWal
      BY <2>1
    <2>3. OrphanFits(dbDisk, walDisk) /\ OrphanFits(dbDisk, walCache) /\ OrphanFits(dbCache, walDisk)
          /\ OrphanFits(dbCache, walCache)
      BY DEF OrphanInv
    <2>4. /\ OrphanFits(dbDisk, y) /\ OrphanFits(x, walDisk) /\ OrphanFits(x, y)
          /\ ReadManifests(x) # mD => x.size = dbDisk.size
      <3>1. CASE x \in DbOutcomes(dbDisk, dbCache) /\ y \in WalOutcomes(walDisk, walCache)
        BY <3>1, OrphanOutcome
      <3>2. CASE x = dbCache /\ y = walCache
        BY <2>3, <3>2 DEF OrphanInv, mC
      <3>3. CASE /\ Creating /\ y = walCache /\ x \in DbImage /\ Presents(x, EmptyManifest)
                 /\ x \in DbOutcomes(BareDb("short"), dbCache)
        <4>1. ReadManifests(x) = EmptyManifest /\ mD = EmptyManifest /\ mC = EmptyManifest
          BY <3>3, PresentsReads, EmptyWhole DEF Creating
        <4>2. dbCache.size <= 2
          <5>1. walCache \in WalImage /\ walCache.frames = <<>> /\ EmptyManifest.last = 0
                /\ dbCache \in DbImage
            BY <3>3, Known, EmptyWhole DEF Creating
          <5>2. LastSequence(walCache, EmptyManifest) = 0
            BY <5>1, EmptyLog
          <5>3. PICK s \in Nat : s = dbCache.size
            BY <5>1 DEF DbImage
          <5> QED
            BY <2>3, <4>1, <5>1, <5>2, <5>3, EmptyWhole DEF OrphanFits, mC, DataStart
        <4>3. x.size <= 2
          <5>1. BareDb("short") \in DbImage /\ BareDb("short").size = 0 /\ dbCache \in DbImage
            BY NewFiles, Known DEF BareDb
          <5>2. x.size \in Nat /\ (x.size <= 0 \/ x.size <= dbCache.size)
            BY <3>3, <5>1, OutcomeSize
          <5>3. dbCache.size \in Nat
            BY <5>1 DEF DbImage
          <5> QED
            BY <4>2, <5>2, <5>3
        <4>4. x.size <= EmptyManifest.end
          BY <4>3, EmptyWhole DEF DataStart
        <4>5. \A w : OrphanFits(x, w)
          BY <4>1, <4>4 DEF OrphanFits
        <4> QED
          BY <2>3, <3>3, <4>1, <4>5
      <3> QED
        BY <2>2, <3>1, <3>2, <3>3, FailCases
    <2>5. \A d \in {dbDisk', dbCache'} : \A w \in {walDisk', walCache'} : OrphanFits(d, w)
      BY <2>1, <2>2, <2>3, <2>4
    <2>6. mC' # mD' => dbCache'.size = dbDisk'.size
      BY <2>1, <2>2, <2>4 DEF mC, mD
    <2> QED
      BY <2>1, <2>5, <2>6 DEF OrphanInv
  <1> QED
    BY <1>1, <1>2

\* That the log accounts for orphan bytes is inductive.
LEMMA OrphanStep == TypeInv /\ PairInv /\ OrphanInv /\ TypeInv' /\ PairInv' /\ [Next]_vars => OrphanInv'
  <1> SUFFICES ASSUME TypeInv, PairInv, OrphanInv, TypeInv', PairInv', [Next]_vars
               PROVE  OrphanInv'
    OBVIOUS
  <1>1. CASE UNCHANGED vars
    BY <1>1 DEF vars, db, wal, OrphanInv, mD, mC, TrimSize
  <1>2. CASE OpenStart \/ Close \/ Checkpoint \/ \E c \in Cutoffs : Expire(c)
    BY <1>2, OrphanQuiet
  <1>3. CASE OpenStep
    BY <1>3, OrphanQuiet, OrphanLog, OrphanWrite DEF OpenStep
  <1>4. CASE AppendStep \/ \E t \in Times : AppendBatch(t)
    BY <1>4, OrphanQuiet, OrphanLog DEF AppendStep
  <1>5. CASE CheckpointStep
    BY <1>5, OrphanQuiet, OrphanLog, OrphanWrite, OrphanSegment, OrphanSlot DEF CheckpointStep
  <1>6. CASE RetentionStep
    BY <1>6, OrphanQuiet, OrphanWrite, OrphanSlot DEF RetentionStep
  <1>7. CASE Fail \/ Crash
    BY <1>7, OrphanFault
  <1> QED
    BY <1>1, <1>2, <1>3, <1>4, <1>5, <1>6, <1>7 DEF Next, CallStep

\* Bytes after the installed segments are always accounted for.
LEMMA OrphanAlways == Spec => []OrphanInv
  BY TypeInvAlways, PairInvAlways, OrphanInit, OrphanStep, PTL DEF Spec

------------------------------------------------------------------------------
(* The layout that the handle believes in. *)

\* read_manifests accepts the file, and the handle knows whether it has slots.
Shape(d) == ManifestsReadable(d) /\ (h.legacy <=> d.size = 0)

ShapeInv ==
    /\ pc \in OpenPcs => Shape(dbCache)
    /\ Ready \/ pc \in AppendPcs => Shape(dbDisk)
    /\ pc \in {"reclaim", "syncReclaim"} => mD # EmptyManifest /\ ~h.legacy

\* A file with a manifest other than the first has slots.
LEMMA ShapeOf ==
  ASSUME NEW d \in DbImage, NEW m \in Manifest, Presents(d, m), m # EmptyManifest,
         ReadManifests(d) = m
  PROVE  ManifestsReadable(d) /\ d.size # 0
  <1>1. ValidSlots(d) # {}
    BY DEF ReadManifests
  <1>2. Valid(m) /\ m.end <= d.size
    BY DEF Presents
  <1>3. PICK e \in Nat, s \in Nat : e = m.end /\ s = d.size /\ e >= 2
    BY <1>2, ValidFields DEF DbImage
  <1> QED
    BY <1>1, <1>2, <1>3 DEF ManifestsReadable

\* The open path establishes the shape of an open handle's files.
LEMMA ShapeOpen ==
  ASSUME TypeInv, PairInv, ShapeInv, OpenStart \/ Close \/ OpenStep
  PROVE  ShapeInv'
  <1>1. CASE \/ OpenStart \/ Close \/ RefuseOrphanWal \/ CreateDb \/ CreateWal
             \/ WriteDbHeader \/ WriteWalHeader \/ Reject
    <2>1. pc' \notin OpenPcs \cup AppendPcs \cup {"open", "reclaim", "syncReclaim"}
      BY <1>1 DEF OpenStart, Close, RefuseOrphanWal, CreateDb, CreateWal, WriteDbHeader,
         WriteWalHeader, Reject, Goto, OpenPcs, AppendPcs
    <2> QED
      BY <2>1 DEF ShapeInv, Ready
  <1>2. CASE Validate
    <2>1. /\ pc' = "provisionDb" /\ dbCache' = dbCache /\ Opens(dbCache, walCache)
          /\ h' = Recovered(dbCache, walCache)
      BY <1>2 DEF Validate, Goto, db
    <2>2. ManifestsReadable(dbCache) /\ h'.legacy = (dbCache.size = 0)
      BY <2>1 DEF Opens, Recovered
    <2>3. Shape(dbCache)'
      BY <2>1, <2>2 DEF Shape
    <2> QED
      BY <2>1, <2>3 DEF ShapeInv, Ready, OpenPcs, AppendPcs
  <1>3. CASE ProvisionDb \/ ProvisionWal \/ TrimWal \/ NothingToTrim \/ SyncTrim
    <2>1. /\ pc \in OpenPcs /\ dbCache' = dbCache /\ h' = h
          /\ pc' \notin AppendPcs \cup {"open", "reclaim", "syncReclaim"}
      BY <1>3 DEF ProvisionDb, ProvisionWal, AfterProvision, TrimWal, NothingToTrim, SyncTrim, Goto,
         SyncWal, db, OpenPcs, AppendPcs
    <2>2. Shape(dbCache)'
      BY <2>1 DEF ShapeInv, Shape
    <2> QED
      BY <2>1, <2>2 DEF ShapeInv, Ready
  <1>4. CASE OpenReturn
    <2>1. pc = "openReturn" /\ pc' = "open" /\ dbDisk' = dbDisk
      BY <1>4 DEF OpenReturn, Goto, db
    <2>2. h'.legacy = h.legacy
      BY <1>4, Known DEF OpenReturn, Handle
    <2>3. dbDisk = dbCache
      BY <2>1 DEF PairInv, OpenInv, Completing, SyncedDb
    <2>4. Shape(dbDisk)'
      BY <2>1, <2>2, <2>3 DEF ShapeInv, Shape, OpenPcs
    <2> QED
      BY <2>1, <2>4 DEF ShapeInv, OpenPcs, AppendPcs
  <1> QED
    BY <1>1, <1>2, <1>3, <1>4 DEF OpenStep

\* Appends and checkpoints keep the shape of the files.
LEMMA ShapeCall ==
  ASSUME TypeInv, PairInv, ShapeInv,
         \/ (\E t \in Times : AppendBatch(t)) \/ AppendStep \/ Checkpoint \/ CheckpointStep
         \/ \E c \in Cutoffs : Expire(c)
  PROVE  ShapeInv'
  <1>1. CASE AppendStep \/ \E t \in Times : AppendBatch(t)
    <2>1. /\ Ready \/ pc \in AppendPcs
          /\ dbDisk' = dbDisk
          /\ pc' \notin OpenPcs \cup {"reclaim", "syncReclaim"}
      BY <1>1 DEF AppendStep, AppendBatch, SyncBody, WriteCommit, SyncCommit, AppendReturn, Goto,
         SyncWal, db, AppendPcs, OpenPcs
    <2>2. h'.legacy = h.legacy
      BY <1>1, Known DEF AppendStep, AppendBatch, SyncBody, WriteCommit, SyncCommit, AppendReturn,
         Handle
    <2>3. Shape(dbDisk)'
      BY <2>1, <2>2 DEF ShapeInv, Shape
    <2> QED
      BY <2>1, <2>3 DEF ShapeInv
  <1>2. CASE \/ Checkpoint \/ UpgradePrefix \/ SyncUpgrade \/ WriteSegment \/ SyncSegment
             \/ WriteManifest \/ \E c \in Cutoffs : Expire(c)
    <2>1. pc' \notin OpenPcs \cup AppendPcs \cup {"open", "reclaim", "syncReclaim"}
      BY <1>2 DEF Checkpoint, UpgradePrefix, SyncUpgrade, WriteSegment, SyncSegment, WriteManifest,
         Expire, Goto, OpenPcs, AppendPcs
    <2> QED
      BY <2>1 DEF ShapeInv, Ready
  <1>3. CASE SyncManifest
    <2>1. pc = "syncManifest" /\ pc' = "reclaim" /\ SyncDb
      BY <1>3 DEF SyncManifest, Goto
    <2>2. Calling /\ Checkpointing /\ ~h.legacy /\ mC = InstallRecord
      BY <2>1 DEF PairInv, AppendInv, CheckpointInv, CheckpointPcs, InstallWritten
    <2>3. dbDisk' = dbCache
      BY <2>1, <2>2 DEF SyncDb, Calling
    <2>4. mD' = InstallRecord
      BY <2>2, <2>3 DEF mD, mC
    <2>5. h'.legacy = h.legacy
      BY <1>3, Known DEF SyncManifest, Installed, Handle
    <2>6. InstallRecord.revision = mD.revision + 1 /\ mD.revision \in Nat
      BY <2>2, InstallFacts
    <2>7. InstallRecord # EmptyManifest
      BY <2>6, EmptyWhole
    <2> QED
      BY <2>1, <2>2, <2>4, <2>5, <2>7 DEF ShapeInv, Ready, OpenPcs, AppendPcs
  <1>4. CASE Reclaim
    <2>1. pc = "reclaim" /\ pc' = "syncReclaim" /\ dbDisk' = dbDisk /\ h' = h
      BY <1>4 DEF Reclaim, Goto, db
    <2> QED
      BY <2>1 DEF ShapeInv, Ready, OpenPcs, AppendPcs, mD
  <1>5. CASE SyncReclaim
    <2>1. pc = "syncReclaim" /\ pc' = "open" /\ dbDisk' = dbDisk
      BY <1>5 DEF SyncReclaim, SyncWal, Goto, db
    <2>2. h'.legacy = h.legacy
      BY <1>5, Known DEF SyncReclaim, Handle
    <2>3. ~h.legacy /\ mD # EmptyManifest
      BY <2>1 DEF ShapeInv
    <2>4. ManifestsReadable(dbDisk) /\ dbDisk.size # 0
      BY <2>3, Known, ShapeOf
    <2>5. Shape(dbDisk)'
      BY <2>1, <2>2, <2>3, <2>4 DEF Shape
    <2> QED
      BY <2>1, <2>5 DEF ShapeInv, OpenPcs, AppendPcs
  <1> QED
    BY <1>1, <1>2, <1>3, <1>4, <1>5 DEF CheckpointStep

\* Retention restores the shape of the files when it returns.
LEMMA ShapeRetention ==
  ASSUME TypeInv, PairInv, ShapeInv, RetentionStep
  PROVE  ShapeInv'
  <1>1. CASE Publish \/ CopyTail \/ SyncCopy \/ CopyFront \/ TrimDb \/ SyncTrimDb
    <2>1. pc' \notin OpenPcs \cup AppendPcs \cup {"open", "reclaim", "syncReclaim"}
      BY <1>1 DEF Publish, CopyTail, SyncCopy, CopyFront, TrimDb, SyncTrimDb, Goto, OpenPcs,
         AppendPcs
    <2> QED
      BY <2>1 DEF ShapeInv, Ready
  <1>2. CASE SyncPublish
    <2>1. /\ pc = "syncPublish" /\ dbCache' = dbCache /\ h' = h
          /\ pc' \notin AppendPcs \cup {"open", "reclaim", "syncReclaim"}
      BY <1>2 DEF SyncPublish, AfterPublish, SyncDb, Goto, AppendPcs
    <2>2. mC = RetentionRecord /\ ~h.legacy
      BY <2>1 DEF PairInv, RetentionInv, RecordWritten, RetentionPcs, Retaining
    <2>3. mC # EmptyManifest
      BY <2>2, Known, RecordIs, RecordFields, EmptyWhole
    <2>4. ManifestsReadable(dbCache) /\ dbCache.size # 0
      BY <2>3, Known, ShapeOf
    <2>5. Shape(dbCache)'
      BY <2>1, <2>2, <2>4 DEF Shape
    <2> QED
      BY <2>1, <2>5 DEF ShapeInv, Ready
  <1>3. CASE ExpireReturn
    <2>1. pc = "expireReturn" /\ pc' = "open" /\ dbDisk' = dbDisk
      BY <1>3 DEF ExpireReturn, Goto, db
    <2>2. h'.legacy = h.legacy
      BY <1>3, Known DEF ExpireReturn, Handle
    <2>3. mD.kind = "retain" /\ ~h.legacy
      BY <2>1 DEF PairInv, RetentionInv, RetentionPcs, Retaining
    <2>4. mD # EmptyManifest
      BY <2>3, EmptyWhole
    <2>5. ManifestsReadable(dbDisk) /\ dbDisk.size # 0
      BY <2>4, Known, ShapeOf
    <2>6. Shape(dbDisk)'
      BY <2>1, <2>2, <2>3, <2>5 DEF Shape
    <2> QED
      BY <2>1, <2>6 DEF ShapeInv, OpenPcs, AppendPcs
  <1> QED
    BY <1>1, <1>2, <1>3 DEF RetentionStep

\* The shape of an open handle's files is inductive.
LEMMA ShapeStep == TypeInv /\ PairInv /\ ShapeInv /\ [Next]_vars => ShapeInv'
  <1> SUFFICES ASSUME TypeInv, PairInv, ShapeInv, [Next]_vars PROVE ShapeInv'
    OBVIOUS
  <1>1. CASE UNCHANGED vars
    BY <1>1 DEF vars, db, ShapeInv, Shape, Ready, mD
  <1>2. CASE OpenStart \/ Close \/ OpenStep
    BY <1>2, ShapeOpen
  <1>3. CASE \/ AppendStep \/ (\E t \in Times : AppendBatch(t)) \/ Checkpoint \/ CheckpointStep
             \/ \E c \in Cutoffs : Expire(c)
    BY <1>3, ShapeCall
  <1>4. CASE RetentionStep
    BY <1>4, ShapeRetention
  <1>5. CASE Fail \/ Crash
    <2>1. pc' \in {"open", "closed"} /\ (pc' = "open" => h'.failed)
      BY <1>5 DEF Fail, Crash, PairInv, FailedInv
    <2> QED
      BY <2>1 DEF ShapeInv, Ready, OpenPcs, AppendPcs
  <1> QED
    BY <1>1, <1>2, <1>3, <1>4, <1>5 DEF Next, CallStep

\* The files of an open handle always have their shape.
LEMMA ShapeAlways == Spec => []ShapeInv
  <1>1. Init => ShapeInv
    BY DEF Init, ShapeInv, Ready, OpenPcs, AppendPcs
  <1> QED
    BY <1>1, TypeInvAlways, PairInvAlways, ShapeStep, PTL DEF Spec

------------------------------------------------------------------------------
(* A healthy handle is the one a reopen would build. *)

\* A log whose frames are committed and follow the manifest is accepted.
LEMMA LogAccepted ==
  ASSUME NEW w \in WalImage, NEW m, m.last \in Nat, FreshLog(w, m),
         \A i \in 1..Len(w.frames) : w.frames[i].state \in {"open", "full"}
  PROVE  WalOK(w, m)
  <1>1. ~Stale(w, m)
    BY FreshCount DEF FreshView
  <1>2. DOMAIN w.frames = 1..Len(w.frames)
    BY LenProperties DEF WalImage
  <1>3. WalBase(w, m) = m.last
    BY <1>1 DEF WalBase
  <1> QED
    BY <1>1, <1>2, <1>3 DEF WalOK, FreshLog

\* So is what lies behind the data.
LEMMA OrphanAccepted ==
  ASSUME NEW d \in DbImage, NEW w \in WalImage, NEW m \in Manifest, m = ReadManifests(d), Valid(m),
         Fits(w, m), OrphanFits(d, w)
  PROVE  OrphanOK(d, w, m)
  <1>1. PICK s \in Nat, e \in Nat : s = d.size /\ e = m.end /\ e >= 2
    BY ValidFields DEF DbImage
  <1>2. PICK a \in Nat, q \in Nat : a = m.last /\ q = LastSequence(w, m)
    BY WalBaseType DEF Manifest
  <1>3. CASE m.kind = "retain" /\ m.count = 0 /\ s <= 3
    <2>1. s <= e \/ s = 3
      BY <1>1, <1>3
    <2> QED
      BY <1>1, <1>3, <2>1 DEF OrphanOK, DataStart
  <1>4. CASE q > a
    <2>1. q # a
      BY <1>2, <1>4
    <2>2. ~ StaleLog(w, m)
      BY <1>2, <2>1, StaleFacts
    <2>3. ~ Stale(w, m)
      BY <1>2, <2>2, FreshCount DEF Fits, FreshView
    <2> QED
      BY <1>2, <2>1, <2>3 DEF OrphanOK
  <1>5. CASE m.phase # 0 \/ s <= e
    BY <1>1, <1>5 DEF OrphanOK
  <1> QED
    BY <1>1, <1>2, <1>3, <1>4, <1>5 DEF OrphanFits, DataStart

\* Between calls, a handle that has not failed has written everything, the pair
\* would open, and every field is what open would set it to: a process that goes
\* on and one that starts again do the same.
THEOREM HandleAgrees == Spec => []HandleMatchesReopen
  <1>1. TypeInv /\ PairInv /\ LiveInv /\ SegInv /\ OrphanInv /\ ShapeInv => HandleMatchesReopen
    <2> SUFFICES ASSUME TypeInv, PairInv, LiveInv, SegInv, OrphanInv, ShapeInv, Ready
                 PROVE  /\ dbCache = dbDisk /\ walCache = walDisk
                        /\ Opens(dbDisk, walDisk)
                        /\ LET r == Recovered(dbDisk, walDisk)
                           IN  h = [r EXCEPT !.open = TRUE,
                                             !.walMax = IF h.end = 0 THEN h.walMax ELSE @]
      BY DEF HandleMatchesReopen
    <2>1. /\ Calling /\ Clean(walDisk) /\ SyncedDb /\ SyncedWal /\ FreshView(walDisk, mD, h.end)
          /\ dbCache = dbDisk /\ walCache = walDisk /\ h.end \in Nat
      BY AtReady
    <2>2. /\ dbDisk \in DbImage /\ walDisk \in WalImage /\ mD = ReadManifests(dbDisk)
          /\ mD \in Manifest /\ Valid(mD) /\ mD.last \in Nat /\ Fits(walDisk, mD)
          /\ Whole(dbDisk, mD) /\ h \in Handle
      BY Known
    <2>3. Opens(dbDisk, walDisk)
      <3>1. dbDisk.header = "valid" /\ walDisk.header = "valid"
        BY <2>1 DEF SyncedDb, SyncedWal
      <3>2. ManifestsReadable(dbDisk)
        BY DEF ShapeInv, Shape
      <3>3. CheckSegments(dbDisk, mD)
        BY DEF SegInv
      <3>4. WalOK(walDisk, mD)
        <4>1. FreshLog(walDisk, mD) /\ Len(walDisk.frames) = h.end /\ FullFrames(walDisk) = 1..h.end
          BY <2>1 DEF Clean
        <4>2. \A i \in 1..Len(walDisk.frames) : walDisk.frames[i].state \in {"open", "full"}
          BY <4>1 DEF FullFrames
        <4> QED
          BY <2>2, <4>1, <4>2, LogAccepted
      <3>5. OrphanOK(dbDisk, walDisk, mD)
        <4>1. OrphanFits(dbDisk, walDisk)
          BY DEF OrphanInv
        <4> QED
          BY <2>2, <4>1, OrphanAccepted
      <3> QED
        BY <2>2, <3>1, <3>2, <3>3, <3>4, <3>5 DEF Opens
    <2>4. PICK r : r = Recovered(dbDisk, walDisk)
      OBVIOUS
    <2>5. r \in Handle
      BY <2>2, <2>4, RecoveredType
    <2>6. /\ r.failed = FALSE /\ r.end = h.end /\ r.sequence = h.sequence /\ r.dataEnd = h.dataEnd
          /\ r.installed = h.installed /\ r.generation = h.generation
          /\ r.revision = h.revision /\ r.lastTime = h.lastTime
          /\ r.installedTime = h.installedTime /\ r.lastSegment = h.lastSegment
      BY <2>1, <2>2, <2>4 DEF Recovered, Calling, TieLog, TieEnd, TieDb, TieKind, FreshView
    <2>7. r.live = h.live
      <3>1. h.live = Live(dbDisk, mD)
        BY DEF LiveInv
      <3>2. Live(dbDisk, mD) = LiveBatches(dbDisk, mD, Segments(dbDisk, mD))
        BY <2>2, ValidFields, LiveData
      <3> QED
        BY <2>2, <2>4, <3>1, <3>2 DEF Recovered
    <2>8. r.retention <=> h.retention
      BY <2>1, <2>2, <2>4 DEF Recovered, Calling, TieKind
    <2>9. r.legacy <=> h.legacy
      BY <2>4 DEF Recovered, ShapeInv, Shape
    <2>10. h.end # 0 => r.walMax = h.walMax
      <3> SUFFICES ASSUME h.end # 0 PROVE r.walMax = h.walMax
        OBVIOUS
      <3>1. PICK n \in Nat : n = h.end /\ n # 0
        BY <2>1
      <3>2. FullFrames(walDisk) = 1..n /\ n <= Len(walDisk.frames)
        BY <2>1, <3>1 DEF Clean
      <3>3. IsMax(LatestTime(walDisk), walDisk, n)
        BY <2>2, <3>1, <3>2, LatestIsMax
      <3>4. IsMax(h.walMax, walDisk, n)
        BY <2>1, <3>1 DEF Calling, TieEnd
      <3>5. PICK x \in Nat, y \in Nat : x = LatestTime(walDisk) /\ y = h.walMax
        BY <2>2, RecoveredTimes, HandleFields
      <3>6. x <= y /\ y <= x
        BY <3>3, <3>4, <3>5 DEF IsMax
      <3> QED
        BY <2>4, <3>5, <3>6 DEF Recovered
    <2>11. h.open = TRUE /\ h.failed = FALSE
      BY <2>1, <2>2 DEF Calling, Ready, Handle
    <2>12. h.retention = r.retention /\ h.legacy = r.legacy
      BY <2>2, <2>5, <2>8, <2>9 DEF Handle
    <2>13. h = [r EXCEPT !.open = TRUE, !.walMax = IF h.end = 0 THEN h.walMax ELSE @]
      <3>1. PICK z : z = [r EXCEPT !.open = TRUE, !.walMax = IF h.end = 0 THEN h.walMax ELSE @]
        OBVIOUS
      <3>2. z \in Handle
        BY <2>2, <2>5, <3>1 DEF Handle
      <3>3. /\ z.open = TRUE /\ z.failed = r.failed /\ z.end = r.end /\ z.sequence = r.sequence
            /\ z.dataEnd = r.dataEnd /\ z.installed = r.installed /\ z.generation = r.generation
            /\ z.revision = r.revision /\ z.live = r.live /\ z.retention = r.retention
            /\ z.lastTime = r.lastTime /\ z.installedTime = r.installedTime
            /\ z.walMax = (IF h.end = 0 THEN h.walMax ELSE r.walMax)
            /\ z.lastSegment = r.lastSegment /\ z.legacy = r.legacy
        BY <2>5, <3>1 DEF Handle
      <3>4. /\ z.open = h.open /\ z.failed = h.failed /\ z.end = h.end /\ z.sequence = h.sequence
            /\ z.dataEnd = h.dataEnd /\ z.installed = h.installed /\ z.generation = h.generation
            /\ z.revision = h.revision /\ z.live = h.live /\ z.retention = h.retention
            /\ z.lastTime = h.lastTime /\ z.installedTime = h.installedTime
            /\ z.walMax = h.walMax /\ z.lastSegment = h.lastSegment /\ z.legacy = h.legacy
        BY <2>6, <2>7, <2>10, <2>11, <2>12, <3>3
      <3>5. z = h
        BY <2>2, <3>2, <3>4 DEF Handle
      <3> QED
        BY <3>1, <3>5
    <2> QED
      BY <2>1, <2>3, <2>4, <2>13
  <1> QED
    BY <1>1, TypeInvAlways, PairInvAlways, LiveAlways, SegAlways, OrphanAlways, ShapeAlways, PTL

------------------------------------------------------------------------------
(* What open refuses. *)

\* A log that fits its manifest is refused only inside a frame header.
LEMMA LogOpens ==
  ASSUME NEW w \in WalImage, NEW m, m.last \in Nat, Fits(w, m), OrderedLog(w)
  PROVE  WalOK(w, m) \/ ShortTail(w)
  <1>1. PICK n \in Nat : n = Len(w.frames) /\ DOMAIN w.frames = 1..n
    BY LenProperties DEF WalImage
  <1>2. \A i \in 1..n : w.frames[i].state \in {"short", "open", "full"}
    <2>1. w.frames \in Seq(WalFrame)
      BY DEF WalImage
    <2>2. \A i \in 1..n : w.frames[i] \in WalFrame
      BY <1>1, <2>1, ElementOfSeq
    <2> QED
      BY <2>2 DEF WalFrame
  <1>3. CASE FreshLog(w, m)
    <2> SUFFICES ASSUME ~ShortTail(w) PROVE WalOK(w, m)
      OBVIOUS
    <2>1. \A i \in 1..n : w.frames[i].state \in {"open", "full"}
      <3> SUFFICES ASSUME NEW i \in 1..n, w.frames[i].state = "short" PROVE FALSE
        BY <1>2
      <3>1. i = n
        BY <1>1, <1>3 DEF FreshLog
      <3>2. w.frames # <<>>
        BY <1>1, <3>1
      <3> QED
        BY <1>1, <3>1, <3>2 DEF ShortTail
    <2> QED
      BY <1>1, <1>3, <2>1, LogAccepted
  <1>4. CASE StaleLog(w, m)
    <2>1. PICK a \in Nat : a = m.last /\ n <= a /\ n # 0
      BY <1>1, <1>4, EmptySeq DEF StaleLog, WalImage
    <2>2. Stale(w, m)
      BY <1>4, StaleFacts
    <2>3. \A i \in 1..n : WalSeq(w, i) \in Nat
      BY <1>1, WalBatchType
    <2>4. \A i \in 1..n : WalSeq(w, i) + n = a + i
      BY <1>1, <1>4, <2>1 DEF StaleLog
    <2>5. WalSeq(w, 1) + n = a + 1 /\ WalSeq(w, 1) \in Nat
      BY <2>1, <2>3, <2>4
    <2>6. WalBase(w, m) = a - n
      <3>1. WalBase(w, m) = WalSeq(w, 1) - 1
        BY <2>2 DEF WalBase
      <3> QED
        BY <2>1, <2>5, <3>1
    <2>7. \A i \in 1..n : WalSeq(w, i) = WalBase(w, m) + i
      BY <2>1, <2>3, <2>4, <2>6
    <2>8. WalBase(w, m) + Len(w.frames) = m.last
      BY <1>1, <2>1, <2>6
    <2>9. Len(w.frames) <= WalCapacity
      BY DEF OrderedLog
    <2>10. \A i \in DOMAIN w.frames : w.frames[i].state = "full" /\ WalSeq(w, i) = WalBase(w, m) + i
      BY <1>1, <1>4, <2>7 DEF StaleLog
    <2> QED
      BY <2>8, <2>9, <2>10 DEF WalOK
  <1> QED
    BY <1>3, <1>4 DEF Fits

\* Every pair of files a power failure can leave here, if both headers are valid,
\* the log does not end inside a frame header and read_manifests finds a record,
\* is accepted by timelite_batches_open.
ReadableAccepts == \A p \in Pairs : ManifestsReadable(p[1]) => Accepts(p[1], p[2])

\* Whatever the start, the errors and the power failures, timelite_batches_open
\* refuses two valid pair headers for one of two reasons: the log ends inside a
\* frame header, or read_manifests finds no valid slot in a file longer than its
\* slots.  No check of segments, of the log or of orphan bytes ever refuses.
THEOREM ReadableOpens == Spec => []ReadableAccepts
  <1>1. ASSUME TypeInv, PairInv, OrderInv, SegInv, OrphanInv, NEW p \in Pairs,
               ManifestsReadable(p[1])
        PROVE  Accepts(p[1], p[2])
    <2>1. PICK d, w : /\ d = p[1] /\ w = p[2] /\ ManifestsReadable(d)
                      /\ (d = dbDisk /\ w = walDisk) \/ (d = dbCache /\ w = walCache)
      BY <1>1 DEF Pairs
    <2>2. PICK m : m = ReadManifests(d)
      OBVIOUS
    <2>3. /\ d \in DbImage /\ w \in WalImage /\ m \in Manifest /\ Valid(m) /\ m.last \in Nat
          /\ Fits(w, m) /\ CheckSegments(d, m) /\ OrphanFits(d, w) /\ OrderedLog(w)
      BY <1>1, <2>1, <2>2, Known DEF SegInv, OrphanInv, OrderInv, mD, mC
    <2>4. OrphanOK(d, w, m)
      BY <2>2, <2>3, OrphanAccepted
    <2>5. WalOK(w, m) \/ ShortTail(w)
      BY <2>3, LogOpens
    <2> QED
      BY <2>1, <2>2, <2>3, <2>4, <2>5 DEF Accepts, Opens
  <1>2. TypeInv /\ PairInv /\ OrderInv /\ SegInv /\ OrphanInv => ReadableAccepts
    BY <1>1 DEF ReadableAccepts
  <1> QED
    BY <1>2, TypeInvAlways, PairInvAlways, OrderAlways, SegAlways, OrphanAlways, PTL

------------------------------------------------------------------------------
(* Databases created with slots keep a valid one. *)

CreatePcs == {"probe", "createWal", "dbHeader", "walHeader"}

\* The file has its slots, and the first manifest if no other.
Slotted(d) == /\ d.header = "valid" /\ d.size >= DataStart
              /\ ReadManifests(d) = EmptyManifest => d.slot[0] = EmptyManifest

StampInv == Starts \subseteq {"empty"} =>
                Slotted(dbDisk) /\ Slotted(dbCache) /\ pc \notin CreatePcs

\* Such a file can be read.
LEMMA SlottedReadable ==
  ASSUME NEW d \in DbImage, Slotted(d)
  PROVE  ManifestsReadable(d)
  <1>1. CASE ReadManifests(d) = EmptyManifest
    <2>1. d.slot[0] = EmptyManifest /\ d.size \in Nat /\ d.size >= 2
      BY <1>1 DEF Slotted, DbImage, DataStart
    <2>2. CheckManifest(EmptyManifest, d.size)
      BY <2>1, CapacityAssumption DEF CheckManifest, EmptyManifest, EncodeManifest, DataStart
    <2>3. EmptyManifest.revision % 2 = 0
      BY EmptyWhole
    <2>4. 0 \in ValidSlots(d)
      BY <2>1, <2>2, <2>3 DEF ValidSlots
    <2> QED
      BY <2>4 DEF ManifestsReadable
  <1>2. CASE ReadManifests(d) # EmptyManifest
    BY <1>2 DEF ReadManifests, ManifestsReadable
  <1> QED
    BY <1>1, <1>2

\* What survives of a write to such a file is one.
LEMMA SlottedOutcome ==
  ASSUME TypeInv, PairInv, Slotted(dbDisk), Slotted(dbCache), NEW x \in DbOutcomes(dbDisk, dbCache)
  PROVE  Slotted(x)
  <1>1. CASE x = dbDisk \/ x = dbCache
    BY <1>1
  <1>2. CASE x # dbDisk /\ x # dbCache
    <2>1. /\ x \in PartialWrites(dbDisk, dbCache) /\ ~(dbCache.size < dbDisk.size)
      BY <1>2 DEF DbOutcomes
    <2>2. /\ dbDisk \in DbImage /\ dbCache \in DbImage /\ Bridge(dbDisk, dbCache, mD, mC)
          /\ mD = ReadManifests(dbDisk) /\ mC = ReadManifests(dbCache) /\ mD.revision \in Nat
      BY Known, ValidFields
    <2>3. dbDisk.size \in Nat /\ dbCache.size \in Nat
      BY <2>2 DEF DbImage
    <2>4. /\ dbDisk.header = "valid" /\ dbCache.header = "valid" /\ dbDisk.size >= 2
          /\ dbDisk.size <= dbCache.size
      BY <2>1, <2>3 DEF Slotted, DataStart
    <2>5. /\ x.header = "valid" /\ x.size \in Nat /\ dbDisk.size <= x.size
          /\ x.slot[0] \in Torn(dbDisk.slot[0], dbCache.slot[0], NoManifest)
      BY <2>1, <2>2, <2>4, SurvivorFacts
    <2>6. x.size >= 2
      BY <2>3, <2>4, <2>5
    <2>7. ReadManifests(x) \in {mD, mC}
      <3>1. walDisk \in WalOutcomes(walDisk, walCache)
        BY DEF WalOutcomes
      <3> QED
        BY <3>1, OutcomeRecorded
    <2>8. ASSUME ReadManifests(x) = EmptyManifest PROVE x.slot[0] = EmptyManifest
      <3>1. mD = EmptyManifest \/ mC = EmptyManifest
        BY <2>8, <2>7
      <3>2. mC = mD \/ (mC.revision = mD.revision + 1
                        /\ dbCache.slot[mD.revision % 2] = dbDisk.slot[mD.revision % 2])
        BY <2>2 DEF Bridge
      <3>3. mD = EmptyManifest
        BY <2>2, <3>1, <3>2, EmptyWhole
      <3>4. dbDisk.slot[0] = EmptyManifest /\ mD.revision % 2 = 0
        BY <2>2, <3>3, EmptyWhole DEF Slotted
      <3>5. dbCache.slot[0] = EmptyManifest
        BY <2>2, <3>2, <3>3, <3>4 DEF Slotted
      <3> QED
        BY <2>5, <3>4, <3>5 DEF Torn
    <2> QED
      BY <2>5, <2>6, <2>8 DEF Slotted, DataStart
  <1> QED
    BY <1>1, <1>2

\* A database created empty starts with its slots.
LEMMA StampInit == Init => StampInv
  <1> SUFFICES ASSUME Init, Starts \subseteq {"empty"}
               PROVE  Slotted(dbDisk) /\ Slotted(dbCache) /\ pc \notin CreatePcs
    BY DEF StampInv
  <1>1. dbCache = NewDb /\ dbDisk = dbCache /\ pc = "closed"
    BY DEF Init
  <1>2. /\ NewDb.header = "valid" /\ NewDb.size = DataStart
        /\ NewDb.slot = [NoSlots EXCEPT ![0] = EmptyManifest]
    BY DEF NewDb, LegacyDb, BareDb
  <1>3. NewDb.slot[0] = EmptyManifest
    BY <1>2 DEF NoSlots
  <1>4. DataStart >= DataStart
    BY DEF DataStart
  <1> QED
    BY <1>1, <1>2, <1>3, <1>4 DEF Slotted, CreatePcs

\* Steps that do not write to the database.
LEMMA StampSync ==
  ASSUME StampInv, dbCache' = dbCache, dbDisk' = dbDisk \/ dbDisk' = dbCache,
         pc' \notin CreatePcs \/ pc \in CreatePcs \/ dbCache.header # "valid"
  PROVE  StampInv'
  BY DEF StampInv, Slotted

\* Steps that leave the database's header, slots and size alone.
LEMMA StampQuiet ==
  ASSUME StampInv,
         \/ OpenStart \/ Close \/ RefuseOrphanWal \/ CreateWal \/ WriteWalHeader \/ Reject
         \/ Validate \/ ProvisionDb \/ ProvisionWal \/ TrimWal \/ NothingToTrim \/ SyncTrim
         \/ OpenReturn \/ (\E t \in Times : AppendBatch(t)) \/ AppendStep \/ Checkpoint
         \/ SyncUpgrade \/ SyncSegment \/ SyncManifest \/ Reclaim \/ SyncReclaim
         \/ SyncPublish \/ SyncCopy \/ SyncTrimDb \/ ExpireReturn \/ \E c \in Cutoffs : Expire(c)
  PROVE  StampInv'
  <1>1. CASE \/ OpenStart \/ Close \/ RefuseOrphanWal \/ CreateWal \/ WriteWalHeader \/ Reject
             \/ Validate \/ ProvisionDb \/ TrimWal \/ NothingToTrim \/ SyncTrim \/ OpenReturn
    <2>1. /\ dbCache' = dbCache /\ (dbDisk' = dbDisk \/ dbDisk' = dbCache)
          /\ pc' \notin CreatePcs \/ pc \in CreatePcs \/ dbCache.header # "valid"
      BY <1>1 DEF OpenStart, Close, RefuseOrphanWal, CreateWal, WriteWalHeader, Reject, Validate,
         ProvisionDb, TrimWal, NothingToTrim, SyncTrim, OpenReturn, Goto, SyncWal, db, wal,
         CreatePcs
    <2> QED
      BY <2>1, StampSync
  <1>2. CASE \/ ProvisionWal \/ Checkpoint \/ AppendStep \/ (\E t \in Times : AppendBatch(t))
             \/ \E c \in Cutoffs : Expire(c)
    <2>1. dbCache' = dbCache /\ dbDisk' = dbDisk /\ pc' \notin CreatePcs
      BY <1>2 DEF ProvisionWal, AfterProvision, Checkpoint, AppendStep, AppendBatch, SyncBody,
         WriteCommit, SyncCommit, AppendReturn, Expire, Goto, SyncWal, db, wal, CreatePcs
    <2> QED
      BY <2>1, StampSync
  <1>3. CASE \/ SyncUpgrade \/ SyncSegment \/ SyncManifest \/ Reclaim \/ SyncReclaim \/ SyncPublish
             \/ SyncCopy \/ SyncTrimDb \/ ExpireReturn
    <2>1. /\ dbCache' = dbCache /\ (dbDisk' = dbDisk \/ dbDisk' = dbCache) /\ pc' \notin CreatePcs
      BY <1>3 DEF SyncUpgrade, SyncSegment, SyncManifest, Reclaim, SyncReclaim, SyncPublish,
         AfterPublish, SyncCopy, SyncTrimDb, ExpireReturn, Goto, SyncDb, SyncWal, db, wal, CreatePcs
    <2> QED
      BY <2>1, StampSync
  <1> QED
    BY <1>1, <1>2, <1>3

\* No pair with its files is created again; the upgrade writes the slots.
LEMMA StampCreate ==
  ASSUME TypeInv, PairInv, StampInv, CreateDb \/ WriteDbHeader \/ UpgradePrefix
  PROVE  StampInv'
  <1>1. CASE CreateDb \/ WriteDbHeader
    <2>1. pc \in CreatePcs
      BY <1>1 DEF CreateDb, WriteDbHeader, Goto, CreatePcs
    <2> QED
      BY <2>1 DEF StampInv
  <1>2. CASE UpgradePrefix
    <2>1. /\ pc' = "syncUpgrade" /\ dbDisk' = dbDisk
          /\ dbCache' = [NewDb EXCEPT !.cell = dbCache.cell]
      BY <1>2 DEF UpgradePrefix, Goto
    <2>2. /\ dbCache'.header = "valid" /\ dbCache'.size = DataStart
          /\ dbCache'.slot = [NoSlots EXCEPT ![0] = EmptyManifest]
      BY <2>1 DEF NewDb, LegacyDb, BareDb
    <2>3. dbCache'.slot[0] = EmptyManifest /\ DataStart >= DataStart
      BY <2>2 DEF NoSlots, DataStart
    <2> QED
      BY <2>1, <2>2, <2>3 DEF StampInv, Slotted, CreatePcs
  <1> QED
    BY <1>1, <1>2

\* Writes behind the slots.
LEMMA StampData ==
  ASSUME TypeInv, PairInv, StampInv, TypeInv', PairInv',
         WriteSegment \/ CopyTail \/ CopyFront \/ TrimDb
  PROVE  StampInv'
  <1>1. /\ dbDisk' = dbDisk /\ pc \in {"segment", "copyTail", "finish", "trimDb"}
        /\ pc' \in {"syncSegment", "syncCopy", "syncTrimDb"}
    BY DEF WriteSegment, CopyTail, CopyFront, TrimDb, TrimStart, Goto
  <1>2. SyncedDb
    BY <1>1 DEF PairInv, CheckpointInv, RetentionInv
  <1>3. mC' = mD'
    BY <1>1 DEF PairInv, CheckpointInv, RetentionInv, SameManifest
  <1>4. ReadManifests(dbCache') = ReadManifests(dbCache)
    BY <1>1, <1>2, <1>3 DEF mC, mD, SyncedDb
  <1>5. dbCache \in DbImage /\ dbCache' \in DbImage /\ loc \in Locals
    BY Known DEF TypeInv, TypeOK
  <1>6. PICK s \in Nat, t \in Nat : s = dbCache.size /\ t = dbCache'.size
    BY <1>5 DEF DbImage
  <1>7. dbCache'.header = dbCache.header /\ dbCache'.slot = dbCache.slot
        /\ (s >= 2 => t >= 2)
    <2>1. CASE WriteSegment \/ CopyTail \/ CopyFront
      <3>1. \E end, image : dbCache' = WriteCells(dbCache, end, image)
        BY <2>1 DEF WriteSegment, CopyTail, CopyFront
      <3>2. PICK end, image : dbCache' = WriteCells(dbCache, end, image)
        BY <3>1
      <3>3. t = IF end > s THEN end ELSE s
        BY <1>5, <1>6, <3>2 DEF WriteCells, DbImage
      <3>4. dbCache'.header = dbCache.header /\ dbCache'.slot = dbCache.slot
        BY <1>5, <3>2 DEF WriteCells, DbImage
      <3>5. t = s \/ t > s
        BY <3>3
      <3> QED
        BY <1>6, <3>4, <3>5
    <2>2. CASE TrimDb
      <3>1. dbCache' = TruncateDb(dbCache, TrimSize)
        BY <2>2 DEF TrimDb
      <3>2. dbCache'.header = dbCache.header /\ dbCache'.slot = dbCache.slot /\ t = TrimSize
        BY <1>5, <1>6, <3>1 DEF TruncateDb, DbImage
      <3>3. PICK e \in Nat : e = loc.end /\ e >= 2
        <4>1. loc.end \in Nat /\ loc.root \in Nat /\ loc.root >= 2 /\ loc.end >= loc.root
          BY <1>5, LocalsFields DEF TypeInv, LocalsOK, DataStart
        <4> QED
          BY <4>1
      <3>4. t >= 2
        BY <3>2, <3>3 DEF TrimSize, DataStart
      <3> QED
        BY <3>2, <3>4
    <2> QED
      BY <2>1, <2>2
  <1>8. Slotted(dbCache) => Slotted(dbCache')
    BY <1>4, <1>6, <1>7 DEF Slotted, DataStart
  <1> QED
    BY <1>1, <1>8 DEF StampInv, Slotted, CreatePcs

\* Manifests other than the first.
LEMMA StampSlot ==
  ASSUME TypeInv, PairInv, StampInv, TypeInv', PairInv', WriteManifest \/ Publish
  PROVE  StampInv'
  <1>1. /\ dbDisk' = dbDisk /\ pc' \in {"syncManifest", "syncPublish"}
        /\ \E r \in Nat : \E m : dbCache' = WriteSlot(dbCache, r, m)
    <2>1. h.revision + 1 \in Nat /\ loc.revision + 1 \in Nat
      BY Known, HandleFields, LocalsFields
    <2> QED
      BY <2>1 DEF WriteManifest, Publish, Goto
  <1>2. dbCache'.header = dbCache.header /\ dbCache'.size = dbCache.size
    BY <1>1, Known, WriteSlotFacts
  <1>3. mC' # EmptyManifest
    <2>1. CASE WriteManifest
      <3>1. pc = "manifest" /\ pc' = "syncManifest" /\ h' = h
        BY <2>1 DEF WriteManifest, Goto
      <3>2. Calling /\ Checkpointing
        BY <3>1 DEF PairInv, AppendInv, CheckpointInv, CheckpointPcs
      <3>3. mC' = InstallRecord
        <4>1. InstallRecord' = InstallRecord
          BY <3>1 DEF InstallRecord, NewEnd
        <4> QED
          BY <3>1, <4>1 DEF PairInv, CheckpointInv, InstallWritten
      <3>4. InstallRecord.revision = mD.revision + 1 /\ mD.revision \in Nat
        BY <3>2, InstallFacts
      <3> QED
        BY <3>3, <3>4, EmptyWhole
    <2>2. CASE Publish
      <3>1. pc' = "syncPublish" /\ h' = h /\ loc' = loc
        BY <2>2 DEF Publish, Goto
      <3>2. mC' = RetentionRecord
        <4>1. RetentionRecord' = RetentionRecord
          BY <3>1 DEF RetentionRecord
        <4> QED
          BY <3>1, <4>1 DEF PairInv, RetentionInv, RecordWritten
      <3> QED
        BY <3>2, Known, RecordIs, RecordFields, EmptyWhole
    <2> QED
      BY <2>1, <2>2
  <1> QED
    BY <1>1, <1>2, <1>3 DEF StampInv, Slotted, CreatePcs, mC

\* An error or a power failure keeps the slots.
LEMMA StampFault ==
  ASSUME TypeInv, PairInv, StampInv, Fail \/ Crash
  PROVE  StampInv'
  <1> SUFFICES ASSUME Starts \subseteq {"empty"}
               PROVE  Slotted(dbDisk') /\ Slotted(dbCache') /\ pc' \notin CreatePcs
    BY DEF StampInv, Slotted
  <1>1. Slotted(dbDisk) /\ Slotted(dbCache)
    BY DEF StampInv
  <1>2. CASE Crash
    <2>1. dbCache' \in DbOutcomes(dbDisk, dbCache) /\ dbDisk' = dbCache' /\ pc' = "closed"
      BY <1>2 DEF Crash
    <2>2. Slotted(dbCache')
      BY <1>1, <2>1, SlottedOutcome
    <2> QED
      BY <2>1, <2>2 DEF CreatePcs
  <1>3. CASE Fail
    <2>1. dbCache' \in FailedDb /\ dbDisk' = dbDisk /\ pc' \in {"open", "closed"}
      BY <1>3 DEF Fail
    <2>2. BeforeWrite = dbDisk
      BY <1>1 DEF BeforeWrite, Slotted
    <2>3. dbCache' = dbCache \/ dbCache' \in DbOutcomes(dbDisk, dbCache)
      BY <2>1, <2>2 DEF FailedDb
    <2>4. Slotted(dbCache')
      BY <1>1, <2>3, SlottedOutcome
    <2> QED
      BY <1>1, <2>1, <2>4 DEF CreatePcs
  <1> QED
    BY <1>2, <1>3

\* That a database created here has its slots is inductive.
LEMMA StampStep == TypeInv /\ PairInv /\ StampInv /\ TypeInv' /\ PairInv' /\ [Next]_vars => StampInv'
  <1> SUFFICES ASSUME TypeInv, PairInv, StampInv, TypeInv', PairInv', [Next]_vars
               PROVE  StampInv'
    OBVIOUS
  <1>1. CASE UNCHANGED vars
    BY <1>1 DEF vars, db, StampInv, Slotted
  <1>2. CASE \/ OpenStart \/ Close \/ Checkpoint \/ AppendStep \/ (\E t \in Times : AppendBatch(t))
             \/ \E c \in Cutoffs : Expire(c)
    BY <1>2, StampQuiet
  <1>3. CASE OpenStep
    BY <1>3, StampQuiet, StampCreate DEF OpenStep
  <1>4. CASE CheckpointStep
    BY <1>4, StampQuiet, StampCreate, StampData, StampSlot DEF CheckpointStep
  <1>5. CASE RetentionStep
    BY <1>5, StampQuiet, StampData, StampSlot DEF RetentionStep
  <1>6. CASE Fail \/ Crash
    BY <1>6, StampFault
  <1> QED
    BY <1>1, <1>2, <1>3, <1>4, <1>5, <1>6 DEF Next, CallStep

\* A database created with slots always has them.
LEMMA StampAlways == Spec => []StampInv
  BY TypeInvAlways, PairInvAlways, StampInit, StampStep, PTL DEF Spec

\* timelite_batches_open accepts whatever errors and power failures leave of a
\* database that was created with its manifest slots, unless the log ends inside
\* a frame header.  (The older layout of 32 bytes has a way to a file without a
\* valid slot, through an interrupted upgrade; see the run legacy_upgrade.)
THEOREM ReopenAccepted ==
  ASSUME Starts \subseteq {"empty"}
  PROVE  Spec => []ReopenAccepts
  <1>1. TypeInv /\ StampInv /\ ReadableAccepts => ReopenAccepts
    <2> SUFFICES ASSUME TypeInv, StampInv, ReadableAccepts, NEW p \in Pairs
                 PROVE  Accepts(p[1], p[2])
      BY DEF ReopenAccepts
    <2>1. p[1] = dbDisk \/ p[1] = dbCache
      BY DEF Pairs
    <2>2. p[1] \in DbImage /\ Slotted(p[1])
      BY <2>1 DEF StampInv, TypeInv, TypeOK
    <2> QED
      BY <2>2, SlottedReadable DEF ReadableAccepts
  <1> QED
    BY <1>1, TypeInvAlways, StampAlways, ReadableOpens, PTL

------------------------------------------------------------------------------
(* What the slots of a database can hold. *)

\* A record is in the slot of its revision; before the first retention the
\* revision is the number of segments, and the first record is the empty one.
SlotSane(m, i) ==
    m.kind # "none" =>
        /\ m.revision % 2 = i
        /\ m.kind = "install" => m.revision = m.count /\ (m.revision = 0 => m = EmptyManifest)
SlotsSane(d) == \A i \in {0, 1} : SlotSane(d.slot[i], i)
SlotInv == SlotsSane(dbDisk) /\ SlotsSane(dbCache)

\* A torn slot, and the first record in slot 0.
LEMMA SaneFirst ==
  SlotSane(EmptyManifest, 0) /\ SlotSane(NoManifest, 0) /\ SlotSane(NoManifest, 1)
  BY DEF SlotSane, NoManifest, EmptyManifest, EncodeManifest

\* A file whose slots are those of another, or torn.
LEMMA SaneSame ==
  ASSUME NEW d, NEW x, SlotsSane(d),
         \A i \in {0, 1} : x.slot[i] = d.slot[i] \/ x.slot[i] = NoManifest
  PROVE  SlotsSane(x)
  BY SaneFirst DEF SlotsSane

\* The files a creation and an upgrade write.
LEMMA SaneNew ==
    /\ SlotsSane(NewDb) /\ SlotsSane([NewDb EXCEPT !.cell = dbCache.cell])
    /\ \A x : SlotsSane(BareDb(x))
  <1>1. \A x : SlotsSane(BareDb(x))
    BY SaneFirst DEF BareDb, NoSlots, SlotsSane
  <1>2. SlotsSane(NewDb) /\ SlotsSane([NewDb EXCEPT !.cell = dbCache.cell])
    BY SaneFirst DEF NewDb, LegacyDb, BareDb, NoSlots, SlotsSane
  <1> QED
    BY <1>1, <1>2

\* What survives of unsynced writes.
LEMMA SaneOutcomes ==
  ASSUME NEW d \in DbImage, NEW c \in DbImage, SlotsSane(d), SlotsSane(c),
         NEW x \in DbOutcomes(d, c)
  PROVE  SlotsSane(x)
  <1>1. SlotsFrom(x, d, c)
    BY DbOutcomesType
  <1> QED
    BY <1>1, SaneFirst DEF SlotsFrom, SlotsSane

\* A record written to the slot of its revision.
LEMMA SaneWrite ==
  ASSUME NEW d \in DbImage, NEW r \in Nat, NEW m \in Manifest, SlotsSane(d), SlotSane(m, r % 2)
  PROVE  SlotsSane(WriteSlot(d, r, m))
  <1>1. r % 2 \in {0, 1}
    OBVIOUS
  <1>2. d.slot \in [{0, 1} -> Manifest] /\ WriteSlot(d, r, m).slot = [d.slot EXCEPT ![r % 2] = m]
    BY DEF WriteSlot, DbImage
  <1>3. \A i \in {0, 1} : WriteSlot(d, r, m).slot[i] = IF i = r % 2 THEN m ELSE d.slot[i]
    BY <1>1, <1>2
  <1> QED
    BY <1>3 DEF SlotsSane

\* The manifest of a checkpoint has the next revision, counted in segments as
\* long as no retention happened.
LEMMA SaneManifest ==
  ASSUME TypeInv, PairInv, SlotInv, WriteManifest
  PROVE  SlotInv'
  <1>1. /\ pc = "manifest" /\ dbDisk' = dbDisk
        /\ dbCache' = WriteSlot(dbCache, h.revision + 1, InstallRecord)
    BY DEF WriteManifest, Goto
  <1>2. Calling /\ mD \in Manifest /\ Valid(mD) /\ h \in Handle /\ dbCache \in DbImage
    BY <1>1, Known DEF PairInv, AppendInv, CheckpointPcs
  <1>3. /\ h.revision = mD.revision /\ h.generation = mD.count /\ (h.retention <=> mD.kind = "retain")
        /\ mD.kind \in {"install", "retain"} /\ (mD.kind = "install" => mD.revision = mD.count)
    BY <1>2, ValidFields DEF Calling, TieKind, TieDb, Valid
  <1>4. PICK r \in Nat : r = h.revision + 1 /\ r # 0
    BY <1>2, HandleFields
  <1>5. InstallRecord.revision = r /\ (InstallRecord.kind = "install" => InstallRecord.count = r)
    BY <1>3, <1>4 DEF InstallRecord, EncodeManifest, EncodeRetention
  <1>6. SlotSane(InstallRecord, r % 2) /\ InstallRecord \in Manifest
    BY <1>4, <1>5, InstallRecordType DEF SlotSane
  <1> QED
    BY <1>1, <1>2, <1>4, <1>6, SaneWrite DEF SlotInv

\* So have the manifests of a retention.
LEMMA SanePublish ==
  ASSUME TypeInv, SlotInv, Publish
  PROVE  SlotInv'
  <1>1. /\ dbDisk' = dbDisk /\ dbCache' = WriteSlot(dbCache, loc.revision + 1, RetentionRecord)
        /\ dbCache \in DbImage
    BY DEF Publish, TypeInv, TypeOK
  <1>2. RetentionRecord \in Manifest /\ loc.revision + 1 \in Nat
    BY HandleFields, LocalsFields DEF RetentionRecord, EncodeRetention, Manifest, TypeInv, TypeOK
  <1>3. SlotSane(RetentionRecord, (loc.revision + 1) % 2)
    BY <1>2 DEF SlotSane, RetentionRecord, EncodeRetention
  <1> QED
    BY <1>1, <1>2, <1>3, SaneWrite DEF SlotInv

\* The other steps write no record.
LEMMA SaneOther ==
  ASSUME TypeInv, SlotInv,
         \/ OpenStart \/ OpenStep \/ Close \/ (\E t \in Times : AppendBatch(t)) \/ AppendStep
         \/ Checkpoint \/ UpgradePrefix \/ SyncUpgrade \/ WriteSegment \/ SyncSegment
         \/ SyncManifest \/ Reclaim \/ SyncReclaim \/ (\E c \in Cutoffs : Expire(c))
         \/ SyncPublish \/ CopyTail \/ SyncCopy \/ CopyFront \/ TrimDb \/ SyncTrimDb \/ ExpireReturn
  PROVE  SlotInv'
  <1>0. dbCache \in DbImage
    BY DEF TypeInv, TypeOK
  <1>1. CASE OpenStart \/ Close \/ OpenStep
    <2>1. CASE CreateDb \/ WriteDbHeader
      BY <2>1, SaneNew DEF CreateDb, WriteDbHeader, SlotInv
    <2>2. CASE ProvisionDb
      BY <2>2 DEF ProvisionDb, SlotInv, db
    <2>3. CASE \/ OpenStart \/ RefuseOrphanWal \/ CreateWal \/ WriteWalHeader \/ Reject \/ TrimWal
               \/ NothingToTrim \/ OpenReturn \/ Close \/ Validate \/ ProvisionWal \/ SyncTrim
      BY <2>3 DEF OpenStart, RefuseOrphanWal, CreateWal, WriteWalHeader, Reject, TrimWal,
                  NothingToTrim, OpenReturn, Close, Validate, ProvisionWal, SyncTrim, SyncWal, SlotInv, db
    <2> QED
      BY <1>1, <2>1, <2>2, <2>3 DEF OpenStep
  <1>2. CASE (\E t \in Times : AppendBatch(t)) \/ AppendStep
    BY <1>2 DEF AppendBatch, AppendStep, SyncBody, WriteCommit, SyncCommit, AppendReturn, SyncWal,
                SlotInv, db
  <1>3. CASE Checkpoint \/ Reclaim \/ SyncReclaim \/ ExpireReturn \/ \E c \in Cutoffs : Expire(c)
    BY <1>3 DEF Checkpoint, Reclaim, SyncReclaim, SyncWal, ExpireReturn, Expire, SlotInv, db
  <1>4. CASE SyncUpgrade \/ SyncSegment \/ SyncManifest \/ SyncPublish \/ SyncCopy \/ SyncTrimDb
    BY <1>4 DEF SyncUpgrade, SyncSegment, SyncManifest, SyncPublish, SyncCopy, SyncTrimDb, SyncDb,
                SlotInv
  <1>5. CASE UpgradePrefix
    BY <1>5, SaneNew DEF UpgradePrefix, SlotInv
  <1>6. CASE WriteSegment \/ CopyTail \/ CopyFront \/ TrimDb
    <2>1. CASE TrimDb
      BY <1>0, <2>1, SaneSame DEF TrimDb, TruncateDb, DbImage, SlotInv
    <2>2. CASE WriteSegment
      BY <1>0, <2>2, WriteCellsSlots, SaneSame DEF WriteSegment, SlotInv
    <2>3. CASE CopyTail
      BY <1>0, <2>3, WriteCellsSlots, SaneSame DEF CopyTail, SlotInv
    <2>4. CASE CopyFront
      BY <1>0, <2>4, WriteCellsSlots, SaneSame DEF CopyFront, SlotInv
    <2> QED
      BY <1>6, <2>1, <2>2, <2>3, <2>4
  <1> QED
    BY <1>1, <1>2, <1>3, <1>4, <1>5, <1>6

\* Errors and power failures tear records but move none.
LEMMA SaneFault ==
  ASSUME TypeInv, SlotInv, Fail \/ Crash
  PROVE  SlotInv'
  <1>0. BeforeWrite \in DbImage /\ SlotsSane(BeforeWrite)
    BY NewFiles, SaneNew DEF BeforeWrite, SlotInv, TypeInv, TypeOK
  <1>1. SlotsSane(dbCache')
    <2>1. CASE Fail
      BY <1>0, <2>1, SaneOutcomes DEF Fail, FailedDb, SlotInv, TypeInv, TypeOK
    <2>2. CASE Crash
      BY <2>2, SaneOutcomes DEF Crash, SlotInv, TypeInv, TypeOK
    <2> QED
      BY <2>1, <2>2
  <1>2. SlotsSane(dbDisk')
    BY <1>1 DEF Fail, Crash, SlotInv
  <1> QED
    BY <1>1, <1>2 DEF SlotInv

\* What the slots hold is inductive.
LEMMA SaneStep == TypeInv /\ PairInv /\ SlotInv /\ [Next]_vars => SlotInv'
  <1> SUFFICES ASSUME TypeInv, PairInv, SlotInv, [Next]_vars PROVE SlotInv'
    OBVIOUS
  <1>1. CASE UNCHANGED vars
    BY <1>1 DEF vars, db, SlotInv
  <1> QED
    BY <1>1, SaneManifest, SanePublish, SaneOther, SaneFault
    DEF Next, CallStep, CheckpointStep, RetentionStep

\* Records are always in the slots of their revisions.
LEMMA SaneAlways == Spec => []SlotInv
  <1>1. Init => SlotInv
    BY StartsAssumption, SaneNew DEF Init, LegacyDb, SlotInv
  <1> QED
    BY <1>1, TypeInvAlways, PairInvAlways, SaneStep, PTL DEF Spec

------------------------------------------------------------------------------
(* The tool and the library choose the same manifest. *)

\* The bound on segments as the tool and as the library write it.
LEMMA DivBound ==
  ASSUME NEW x \in Nat, NEW y \in Nat
  PROVE  y > x \div 3 <=> y * 3 > x
  <1>1. PICK q \in Nat : q = x \div 3 /\ 3 * q <= x /\ x < 3 * q + 3
    <2>1. x \div 3 \in Int /\ x % 3 \in 0..2
      OBVIOUS
    <2>2. x = 3 * (x \div 3) + (x % 3)
      OBVIOUS
    <2> QED
      BY <2>1, <2>2
  <1>2. y > q <=> y * 3 > x
    BY <1>1
  <1> QED
    BY <1>1, <1>2

\* A manifest's fields.
LEMMA ManifestFields ==
  ASSUME NEW m \in Manifest
  PROVE  /\ m.revision \in Nat /\ m.count \in Nat /\ m.end \in Nat /\ m.last \in Nat /\ m.time \in Nat
         /\ m.tail \in Nat /\ m.root \in Nat /\ m.phase \in 0..3
         /\ m.kind \in {"none", "install", "retain"}
         /\ m.kind # "retain" => m.root = DataStart /\ m.phase = 0
  BY DEF Manifest, DataStart

\* inspect_slot_parse and retention_manifest.
LEMMA RetentionAgrees ==
  ASSUME NEW m \in Manifest, NEW size \in Nat
  PROVE  m.kind = "retain" /\ RetentionInRange(m, size) <=> RetentionManifest(m, size)
  <1>1. PICK r \in Nat, c \in Nat, e \in Nat, l \in Nat, t \in Nat, o \in Nat, p \in 0..3 :
             /\ r = m.revision /\ c = m.count /\ e = m.end /\ l = m.last /\ t = m.tail
             /\ o = m.root /\ p = m.phase
    BY ManifestFields
  <1>2. PICK cap \in Nat : cap = DbCapacity
    BY CapacityAssumption
  <1>3. CASE o <= e
    <2>1. PICK x \in Nat : x = e - o
      BY <1>3
    <2>2. c > x \div 3 <=> c * 3 > x
      BY DivBound
    <2>3. SegmentMin = 3 /\ DataStart = 2
      BY DEF SegmentMin, HeaderSize, DataStart
    <2>4. c > (e - o) \div 3 <=> c * 3 > e - o
      BY <2>1, <2>2
    <2>5. t \in o..(e - 1) <=> t >= o /\ t < e
      BY <1>1
    <2>6. ~(c > (e - o) \div 3) <=> c * 3 <= e - o
      BY <1>3, <2>4
    <2>7. ~(IF p = 2 THEN e - o > o - 2 ELSE o # 2) <=> (IF p = 2 THEN e - o <= o - 2 ELSE o = 2)
      BY <1>3
    <2> QED
      BY <1>1, <1>2, <1>3, <2>3, <2>5, <2>6, <2>7 DEF RetentionInRange, RetentionManifest
  <1>4. CASE o > e
    BY <1>1, <1>2, <1>4 DEF RetentionInRange, RetentionManifest
  <1> QED
    BY <1>3, <1>4

\* inspect_slot_parse and check_manifest, on a record whose revision counts its
\* segments.
LEMMA InstallAgrees ==
  ASSUME NEW m \in Manifest, NEW size \in Nat, m.kind = "install" => m.revision = m.count
  PROVE  m.kind = "install" /\ InstallInRange(m, size) <=> CheckManifest(m, size)
  <1>1. PICK c \in Nat, e \in Nat, l \in Nat : c = m.count /\ e = m.end /\ l = m.last
    BY ManifestFields
  <1>2. PICK cap \in Nat : cap = DbCapacity /\ cap > 2
    BY CapacityAssumption DEF DataStart
  <1>3. SegmentMin = 3 /\ DataStart = 2
    BY DEF SegmentMin, HeaderSize, DataStart
  <1>4. PICK x \in Nat : x = cap - 2
    BY <1>2
  <1>5. c > (cap - 2) \div 3 <=> c * 3 > x
    BY <1>4, DivBound
  <1>6. e <= cap /\ e >= 2 + c * 3 => ~(c * 3 > x)
    BY <1>2, <1>4
  <1>7. CASE m.kind = "install"
    <2>1. m.revision = c
      BY <1>1, <1>7
    <2>2. InstallInRange(m, size) <=>
            /\ e >= 2 /\ e <= cap /\ e <= size
            /\ IF c = 0 THEN e = 2 /\ l = 0 ELSE ~(c * 3 > x) /\ l >= c /\ e >= 2 + c * 3
      BY <1>1, <1>2, <1>3, <1>5, <2>1 DEF InstallInRange
    <2>3. CheckManifest(m, size) <=>
            /\ e >= 2 /\ e <= cap /\ e <= size
            /\ IF c = 0 THEN e = 2 /\ l = 0 ELSE l >= c /\ e >= 2 + c * 3
      BY <1>1, <1>2, <1>3, <1>7 DEF CheckManifest
    <2> QED
      BY <1>6, <1>7, <2>2, <2>3
  <1> QED
    BY <1>7 DEF CheckManifest

\* The slots the tool calls valid are the ones read_manifests accepts.
LEMMA SlotAgrees ==
  ASSUME NEW d \in DbImage, SlotsSane(d), NEW i \in {0, 1}
  PROVE  /\ d.slot[i] \in Manifest
         /\ i \in ValidSlots(d) <=> d.size # 0 /\ SlotValid(d, i)
  <1>1. d.slot[i] \in Manifest /\ d.size \in Nat
    BY DEF DbImage
  <1>2. SlotInRange(d.slot[i], d.size) <=>
            RetentionManifest(d.slot[i], d.size) \/ CheckManifest(d.slot[i], d.size)
    <2>1. d.slot[i].kind = "install" => d.slot[i].revision = d.slot[i].count
      BY DEF SlotsSane, SlotSane
    <2> QED
      BY <1>1, <2>1, RetentionAgrees, InstallAgrees DEF SlotInRange
  <1> QED
    BY <1>1, <1>2 DEF ValidSlots, SlotValid

\* The active slot is the newest one.
LEMMA ActiveIs ==
  ASSUME NEW d \in DbImage, SlotsSane(d)
  PROVE  /\ ValidSlots(d) = {} => ActiveSlots(d) = {}
         /\ ValidSlots(d) # {} => ActiveSlots(d) = {Newest(d)} /\ Newest(d) \in ValidSlots(d)
  <1>1. \A i \in {0, 1} : i \in ValidSlots(d) <=> d.size # 0 /\ SlotValid(d, i)
    BY SlotAgrees
  <1>2. \A i \in {0, 1} : d.slot[i].revision \in Nat
    BY SlotAgrees, ManifestFields
  <1>3. \A i \in ValidSlots(d) : i \in {0, 1} /\ d.slot[i].revision % 2 = i
    BY DEF ValidSlots
  <1>4. \A i : i \in ActiveSlots(d) <=>
              i \in ValidSlots(d) /\ \A j \in ValidSlots(d) : d.slot[j].revision <= d.slot[i].revision
    <2> TAKE i
    <2>1. CASE i \in {0, 1} /\ d.size # 0
      <3>1. \A j \in {0, 1} : j \in ValidSlots(d) <=> SlotValid(d, j)
        BY <1>1, <2>1
      <3> QED
        BY <1>3, <2>1, <3>1 DEF ActiveSlots
    <2>2. CASE ~(i \in {0, 1} /\ d.size # 0)
      BY <2>2 DEF ActiveSlots, ValidSlots
    <2> QED
      BY <2>1, <2>2
  <1>5. ASSUME ValidSlots(d) # {} PROVE ActiveSlots(d) = {Newest(d)} /\ Newest(d) \in ValidSlots(d)
    <2>1. \E i \in ValidSlots(d) : \A j \in ValidSlots(d) : d.slot[j].revision <= d.slot[i].revision
      <3>1. PICK x \in Nat, y \in Nat : x = d.slot[0].revision /\ y = d.slot[1].revision
        BY <1>2
      <3>2. x <= y \/ y <= x
        BY <3>1
      <3> QED
        BY <1>3, <1>5, <3>1, <3>2
    <2>2. Newest(d) \in ValidSlots(d) /\ \A j \in ValidSlots(d) : d.slot[j].revision <= d.slot[Newest(d)].revision
      BY <2>1 DEF Newest
    <2>3. ASSUME NEW i \in ActiveSlots(d) PROVE i = Newest(d)
      <3>1. i \in ValidSlots(d) /\ d.slot[Newest(d)].revision <= d.slot[i].revision
        BY <1>4, <2>2
      <3>2. PICK x \in Nat, y \in Nat : x = d.slot[i].revision /\ y = d.slot[Newest(d)].revision
        BY <1>2, <1>3, <2>2, <3>1
      <3>3. x = y
        BY <2>2, <3>1, <3>2
      <3>4. x % 2 = i /\ y % 2 = Newest(d)
        BY <1>3, <2>2, <3>1, <3>2
      <3> QED
        BY <3>3, <3>4
    <2>4. Newest(d) \in ActiveSlots(d)
      BY <1>4, <2>2
    <2> QED
      BY <2>2, <2>3, <2>4
  <1>6. ValidSlots(d) = {} => ActiveSlots(d) = {}
    BY <1>4
  <1> QED
    BY <1>5, <1>6

\* What inspect_verify takes from the active slot is the manifest m.
Reads(a, m) ==
    /\ a.generation = m.count /\ a.end = m.end /\ a.installed = m.last /\ a.time = m.time
    /\ a.root = m.root /\ a.tail = m.tail /\ a.phase = m.phase
    /\ a.retention <=> m.kind = "retain"
    /\ a.hasTime <=> m.kind = "retain" \/ m.revision # 0
    /\ ~a.hasTime => m = EmptyManifest

\* What verify starts from is the manifest that open reads.
LEMMA ActiveFields ==
  ASSUME NEW d \in DbImage, SlotsSane(d), NEW m, m = ReadManifests(d)
  PROVE  Reads(ActiveManifest(d), m) /\ m \in Manifest
  <1>1. CASE ValidSlots(d) = {}
    <2>1. ActiveSlots(d) = {} /\ m = EmptyManifest
      BY <1>1, ActiveIs DEF ReadManifests
    <2>2. ActiveManifest(d) = BlankManifest
      BY <2>1 DEF ActiveManifest
    <2>3. m \in Manifest
      BY <2>1, EmptyWhole
    <2> QED
      BY <2>1, <2>2, <2>3 DEF BlankManifest, EmptyManifest, EncodeManifest, Reads
  <1>2. CASE ValidSlots(d) # {}
    <2>1. ActiveSlots(d) = {Newest(d)} /\ Newest(d) \in ValidSlots(d) /\ m = d.slot[Newest(d)]
      BY <1>2, ActiveIs DEF ReadManifests
    <2>2. (CHOOSE i \in ActiveSlots(d) : TRUE) = Newest(d) /\ ActiveSlots(d) # {}
      BY <2>1
    <2>3. m \in Manifest /\ (m.kind # "retain" => m.phase = 0)
      BY <2>1, SlotAgrees, ManifestFields DEF ValidSlots
    <2>4. ActiveManifest(d) =
            [generation |-> m.count, end |-> m.end, installed |-> m.last, time |-> m.time,
             hasTime |-> m.kind = "retain" \/ m.revision # 0,
             retention |-> m.kind = "retain", root |-> m.root, tail |-> m.tail,
             phase |-> IF m.kind = "retain" THEN m.phase ELSE 0]
      BY <2>1, <2>2 DEF ActiveManifest
    <2>5. m.kind \in {"install", "retain"} /\ SlotSane(m, Newest(d))
      BY <2>1 DEF ValidSlots, RetentionManifest, CheckManifest, SlotsSane
    <2>6. m.kind # "retain" /\ m.revision = 0 => m = EmptyManifest
      BY <2>5 DEF SlotSane
    <2>7. PICK a : a = ActiveManifest(d)
      OBVIOUS
    <2>8. /\ a.generation = m.count /\ a.end = m.end /\ a.installed = m.last /\ a.time = m.time
          /\ a.root = m.root /\ a.tail = m.tail
          /\ a.phase = IF m.kind = "retain" THEN m.phase ELSE 0
      BY <2>4, <2>7
    <2>9. a.retention = (m.kind = "retain") /\ a.hasTime = (m.kind = "retain" \/ m.revision # 0)
      BY <2>4, <2>7
    <2>10. a.phase = m.phase
      BY <2>3, <2>8
    <2> QED
      BY <2>3, <2>6, <2>7, <2>8, <2>9, <2>10 DEF Reads
  <1> QED
    BY <1>1, <1>2

------------------------------------------------------------------------------
(* The tool's walk over the segments. *)

\* inspect_segment_parse accepts what read_segment accepts.
LEMMA ParsesIs ==
  ASSUME NEW d \in DbImage, NEW o \in Nat, NEW end \in Nat, o >= DataStart, end <= DbCapacity,
         SegmentOK(d, o, end)
  PROVE  ParsesAt(d, o, end)
  <1>1. PICK f \in Nat, l \in Nat : f = d.cell[o].first /\ l = d.cell[o].last /\ f >= 1 /\ f <= l
    BY SegmentFields
  <1>2. /\ d.cell[o].kind = "header" /\ d.cell[o + 1] = HeaderRest
        /\ l - f < WalCapacity /\ o + 2 + (l - f) < end
    BY <1>1 DEF SegmentOK, HeaderSize
  <1>3. PICK c \in Nat : c = WalCapacity
    BY CapacityAssumption
  <1>4. o <= end /\ end - o >= 2 /\ l - f + 1 <= c /\ l - f + 1 <= end - o - 2 /\ f # 0 /\ ~(l < f)
    BY <1>1, <1>2, <1>3
  <1> QED
    BY <1>1, <1>2, <1>3, <1>4 DEF ParsesAt, HeaderSize

\* inspect_segment_frames reads all the frames of a segment that has them, and
\* finds none later than the header says.
LEMMA FramesReadAll ==
  ASSUME NEW d \in DbImage, NEW o \in Nat, NEW end \in Nat, o >= DataStart, end <= DbCapacity,
         SegmentOK(d, o, end), NEW m, SegmentGood(d, o, m)
  PROVE  /\ FramesRead(d, o) = d.cell[o].last - d.cell[o].first + 1
         /\ \A k \in 1..FramesRead(d, o) : ~(d.cell[o + HeaderSize + k - 1].batch.time > d.cell[o].max)
  <1>1. PICK f \in Nat, l \in Nat : f = d.cell[o].first /\ l = d.cell[o].last /\ f >= 1 /\ f <= l
    BY SegmentFields
  <1>2. PICK want \in Nat : want = l - f + 1 /\ want >= 1
    BY <1>1
  <1>3. SegmentSize(d, o) = 2 + want
    BY <1>1, <1>2, SegmentFields
  <1>4. ASSUME NEW k \in 0..(want - 1)
        PROVE  /\ o + HeaderSize + k \in Body(d, o)
               /\ d.cell[o + HeaderSize + k].kind = "frame"
               /\ d.cell[o + HeaderSize + k].batch.seq = f + k
    <2>1. o + 2 + k \in Body(d, o)
      BY <1>3, BodyIs
    <2>2. FrameOK(d, o, o + 2 + k) /\ (o + 2 + k) - o - 2 = k
      BY <2>1 DEF SegmentGood, FramesOK
    <2> QED
      BY <1>1, <2>1, <2>2 DEF FrameOK, HeaderSize
  <1>5. FramesRead(d, o) = want
    <2> DEFINE ok(k) == /\ d.cell[o + HeaderSize + k].kind = "frame"
                        /\ d.cell[o + HeaderSize + k].batch.seq = f + k
               P(n) == (\A k \in 0..(n - 1) : ok(k)) /\ (n < want => ~ok(n))
    <2>1. FramesRead(d, o) = CHOOSE n \in 0..want : P(n)
      BY <1>1, <1>2 DEF FramesRead
    <2>2. \A k \in 0..(want - 1) : ok(k)
      BY <1>4
    <2> HIDE DEF ok
    <2>3. want \in 0..want /\ P(want)
      BY <2>2
    <2>4. ASSUME NEW n \in 0..want, P(n) PROVE n = want
      <3>1. CASE n < want
        <4>1. n \in 0..(want - 1)
          BY <3>1
        <4> QED
          BY <2>2, <2>4, <3>1, <4>1
      <3> QED
        BY <3>1
    <2> HIDE DEF P
    <2> QED
      BY <2>1, <2>3, <2>4
  <1>6. ASSUME NEW k \in 1..want
        PROVE  ~(d.cell[o + HeaderSize + k - 1].batch.time > d.cell[o].max)
    <2>1. PICK j \in 0..(want - 1) : j = k - 1
      OBVIOUS
    <2>2. o + HeaderSize + k - 1 = o + HeaderSize + j
      BY <2>1 DEF HeaderSize
    <2>3. PICK x : x = o + HeaderSize + j
      OBVIOUS
    <2>4. x \in Body(d, o) /\ FrameOK(d, o, x) /\ d.cell[x].kind = "frame"
      BY <1>4, <2>3 DEF SegmentGood, FramesOK
    <2>5. d.cell[x].batch \in SegmentBatches(d, o)
      BY <2>4 DEF SegmentBatches
    <2>6. d.cell[x].batch.time <= d.cell[o].max
      BY <2>5 DEF SegmentGood
    <2>7. d.cell[x].batch \in Batch /\ d.cell[o].max \in Nat
      BY <2>5, SegmentSequences, SegmentFields
    <2>8. PICK t \in Nat, u \in Nat : t = d.cell[x].batch.time /\ u = d.cell[o].max /\ t <= u
      BY <2>6, <2>7 DEF Batch
    <2> QED
      BY <2>2, <2>3, <2>8
  <1> QED
    BY <1>1, <1>2, <1>5, <1>6

\* The accumulator of inspect_segments after n segments of a whole file: the
\* batches counted are the units passed that are not headers.
RoundOf(d, m, f, n) ==
    [at |-> f[n], seq |-> Before(d, f, n), tail |-> IF n = 0 THEN 0 ELSE f[n - 1],
     stop |-> FALSE, live |-> f[n] - m.root - 2 * n, error |-> FALSE, problems |-> {}]

\* One round.
LEMMA RoundStep ==
  ASSUME NEW d \in DbImage, NEW m, Bounds(m), m.kind \in {"install", "retain"}, NEW f,
         Laid(d, m, f), Chain(d, m, f), NEW k \in 0..(m.count - 1),
         NEW a, a.end = m.end, a.retention <=> m.kind = "retain"
  PROVE  SegmentRound(d, a, RoundOf(d, m, f, k)) = RoundOf(d, m, f, k + 1)
  <1>1. /\ m.root \in Nat /\ m.end \in Nat /\ m.end <= DbCapacity /\ m.count \in Nat /\ k \in Nat
        /\ k + 1 \in Nat /\ k + 1 # 0 /\ (k + 1) - 1 = k
    BY DEF Bounds
  <1>2. PICK o \in Nat : o = f[k] /\ o >= DataStart /\ SegmentOK(d, o, m.end) /\ SegmentGood(d, o, m)
    BY LaidSegment
  <1>3. PICK s : s = d.cell[o]
    OBVIOUS
  <1>4. PICK u \in Nat, v \in Nat : u = s.first /\ v = s.last /\ u >= 1 /\ u <= v
    BY <1>1, <1>2, <1>3, SegmentFields
  <1>5. f[k + 1] = o + 2 + (v - u + 1) /\ f[k + 1] \in Nat
    <2>1. f[k + 1] = o + SegmentSize(d, o) /\ SegmentSize(d, o) = 3 + (v - u)
      BY <1>1, <1>2, <1>3, <1>4, LaidSegment, SegmentFields
    <2> QED
      BY <1>4, <2>1
  <1>6. ParsesAt(d, o, a.end)
    BY <1>1, <1>2, ParsesIs
  <1>7. /\ FramesRead(d, o) = v - u + 1
        /\ \A j \in 1..FramesRead(d, o) : ~(d.cell[o + HeaderSize + j - 1].batch.time > s.max)
    BY <1>1, <1>2, <1>3, <1>4, FramesReadAll
  <1>8. {j \in 1..FramesRead(d, o) : d.cell[o + HeaderSize + j - 1].batch.time > s.max} = {}
    BY <1>7
  <1>9. PICK q \in Nat : q = Before(d, f, k) /\ q < u
    <2>1. CASE k = 0
      BY <1>4, <2>1 DEF Before
    <2>2. CASE k # 0
      <3>1. PICK j \in 0..(m.count - 1) : j = k - 1 /\ j < k
        BY <1>1, <2>2
      <3>2. d.cell[f[j]].last \in Nat /\ d.cell[f[j]].last < u
        BY <1>2, <1>3, <1>4, <3>1, LaidSegment DEF Laid
      <3> QED
        BY <2>2, <3>1, <3>2 DEF Before
    <2> QED
      BY <2>1, <2>2
  <1>10. IF a.retention THEN s.first > q ELSE s.first = q + 1
    <2>1. m.kind = "install" => u = q + 1
      BY <1>2, <1>3, <1>4, <1>9 DEF Chain
    <2> QED
      BY <1>4, <1>9, <2>1
  <1>11. PICK acc : acc = RoundOf(d, m, f, k)
    OBVIOUS
  <1>12. /\ acc.at = o /\ acc.seq = q /\ acc.stop = FALSE /\ acc.error = FALSE /\ acc.problems = {}
         /\ acc.live = o - m.root - 2 * k
    BY <1>2, <1>9, <1>11 DEF RoundOf
  <1>13. SegmentRound(d, a, acc) =
           [at |-> o + HeaderSize + (v - u + 1), seq |-> v, tail |-> o, stop |-> FALSE,
            live |-> acc.live + (v - u + 1), error |-> FALSE, problems |-> {}]
    BY <1>3, <1>4, <1>6, <1>7, <1>8, <1>10, <1>12 DEF SegmentRound
  <1>14. RoundOf(d, m, f, k + 1) =
           [at |-> f[k + 1], seq |-> v, tail |-> o, stop |-> FALSE,
            live |-> f[k + 1] - m.root - 2 * (k + 1), error |-> FALSE, problems |-> {}]
    BY <1>1, <1>2, <1>3, <1>4 DEF RoundOf, Before
  <1>15. /\ o + HeaderSize + (v - u + 1) = f[k + 1]
         /\ acc.live + (v - u + 1) = f[k + 1] - m.root - 2 * (k + 1)
    BY <1>1, <1>4, <1>5, <1>12 DEF HeaderSize
  <1> QED
    BY <1>11, <1>13, <1>14, <1>15

\* All rounds: on a whole file the tool finds no problem and ends where the
\* manifest does.
LEMMA ChainIs ==
  ASSUME NEW d \in DbImage, NEW m, Bounds(m), m.kind \in {"install", "retain"}, NEW f,
         Laid(d, m, f), Chain(d, m, f),
         NEW a, a.end = m.end, a.root = m.root, a.generation = m.count,
         a.retention <=> m.kind = "retain"
  PROVE  SegmentChain(d, a) = RoundOf(d, m, f, m.count)
  <1> DEFINE n == m.count
             base == [at |-> a.root, seq |-> 0, tail |-> 0, stop |-> FALSE, live |-> 0,
                      error |-> FALSE, problems |-> {}]
             Rec(g) == g = [k \in 0..n |-> IF k = 0 THEN base ELSE SegmentRound(d, a, g[k - 1])]
             r == [k \in 0..n |-> RoundOf(d, m, f, k)]
  <1>1. SegmentChain(d, a) = (CHOOSE g : Rec(g))[n]
    BY DEF SegmentChain
  <1>2. n \in Nat /\ m.root \in Nat
    BY DEF Bounds
  <1>3. base = RoundOf(d, m, f, 0)
    <2>1. f[0] = m.root /\ m.root - m.root - 2 * 0 = 0
      BY <1>2 DEF Laid
    <2> QED
      BY <2>1 DEF RoundOf, Before
  <1>4. \A k \in 0..(n - 1) : SegmentRound(d, a, RoundOf(d, m, f, k)) = RoundOf(d, m, f, k + 1)
    BY RoundStep
  <1> HIDE DEF base
  <1>5. Rec(r)
    <2>1. ASSUME NEW k \in 0..n, k # 0 PROVE r[k] = SegmentRound(d, a, r[k - 1])
      <3>1. PICK j \in 0..(n - 1) : j = k - 1 /\ j + 1 = k /\ j \in 0..n
        BY <1>2, <2>1
      <3> QED
        BY <1>4, <3>1
    <2>2. 0 \in 0..n /\ r[0] = base
      BY <1>2, <1>3
    <2>3. \A k \in 0..n : r[k] = IF k = 0 THEN base ELSE SegmentRound(d, a, r[k - 1])
      BY <2>1, <2>2
    <2>4. r = [k \in 0..n |-> r[k]]
      OBVIOUS
    <2> HIDE DEF r
    <2> QED
      BY <2>3, <2>4
  <1>6. ASSUME NEW g, Rec(g) PROVE g = r
    <2> DEFINE T == {k \in 0..n : g[k] = r[k]}
    <2>1. 0 \in T
      BY <1>2, <1>3, <1>6
    <2>2. ASSUME NEW k \in 0..(n - 1), k \in T PROVE k + 1 \in T
      <3>1. k + 1 \in 0..n /\ k + 1 # 0 /\ (k + 1) - 1 = k /\ k \in 0..n
        BY <1>2
      <3>2. g[k + 1] = SegmentRound(d, a, g[k])
        BY <1>6, <3>1
      <3>3. r[k + 1] = SegmentRound(d, a, r[k])
        BY <1>4, <3>1
      <3> QED
        BY <2>2, <3>1, <3>2, <3>3
    <2>3. \A k \in 0..n : k \in T
      <3> HIDE DEF T
      <3> QED
        BY <1>2, <2>1, <2>2, UpTo
    <2>4. \A k \in 0..n : g[k] = r[k]
      BY <2>3
    <2> QED
      BY <1>6, <2>4
  <1> HIDE DEF Rec
  <1>7. (CHOOSE g : Rec(g)) = r
    BY <1>5, <1>6
  <1>8. n \in 0..n /\ r[n] = RoundOf(d, m, f, n)
    BY <1>2
  <1> HIDE DEF r
  <1> QED
    BY <1>1, <1>7, <1>8

\* What the tool reads from a whole file: the walk finds no problem, and counts
\* as many batches as there are units besides the headers.
LEMMA ChainClean ==
  ASSUME NEW d \in DbImage, NEW m \in Manifest, Valid(m), Whole(d, m), CheckSegments(d, m),
         NEW a, Reads(a, m)
  PROVE  /\ SegmentChain(d, a).error = FALSE /\ SegmentChain(d, a).problems = {}
         /\ SegmentChain(d, a).live = m.end - m.root - 2 * m.count
         /\ ChainProblems(d, a, SegmentChain(d, a)) = {}
  <1>1. Bounds(m) /\ m.count \in Nat /\ m.last \in Nat /\ m.kind \in {"install", "retain"}
    BY ValidFields
  <1>2. PICK f : Laid(d, m, f) /\ Chain(d, m, f)
    BY <1>1, CheckIs DEF Whole
  <1>3. PICK c : c = SegmentChain(d, a) /\ c = RoundOf(d, m, f, m.count)
    BY <1>1, <1>2, ChainIs DEF Reads
  <1>4. /\ c.at = f[m.count] /\ c.seq = Before(d, f, m.count)
        /\ c.tail = (IF m.count = 0 THEN 0 ELSE f[m.count - 1])
        /\ c.live = f[m.count] - m.root - 2 * m.count /\ c.error = FALSE /\ c.problems = {}
    BY <1>3 DEF RoundOf
  <1>5. f[m.count] = m.end
    BY <1>2 DEF Laid
  <1>6. CASE m.count = 0
    <2>1. a.generation = 0 /\ c.at = a.end
      BY <1>4, <1>5, <1>6 DEF Reads
    <2>2. ChainProblems(d, a, c) = {}
      BY <2>1 DEF ChainProblems
    <2> QED
      BY <1>3, <1>4, <1>5, <2>2
  <1>7. CASE m.count # 0
    <2>1. PICK k \in 0..(m.count - 1) : k = m.count - 1
      BY <1>1, <1>7
    <2>2. PICK q \in Nat, l \in Nat : q = d.cell[f[k]].last /\ l = m.last /\ q <= l
      BY <1>1, <1>2, <2>1, LaidSegment
    <2>3. c.seq = q /\ c.tail = f[k]
      BY <1>4, <1>7, <2>1, <2>2 DEF Before
    <2>4. m.tail = f[k] /\ (m.kind = "install" => q = l /\ m.time = d.cell[f[k]].max)
      BY <1>2, <1>7, <2>1, <2>2 DEF Chain, Before
    <2>5. ~(c.seq > a.installed) /\ (~a.retention => c.seq = a.installed)
      BY <1>1, <2>2, <2>3, <2>4 DEF Reads
    <2>6. a.tail = c.tail /\ (~a.retention => a.time = d.cell[c.tail].max) /\ c.at = a.end
      BY <1>1, <1>4, <1>5, <2>3, <2>4 DEF Reads
    <2>7. ChainProblems(d, a, c) = {}
      BY <2>5, <2>6 DEF ChainProblems
    <2> QED
      BY <1>3, <1>4, <1>5, <2>7
  <1> QED
    BY <1>6, <1>7

------------------------------------------------------------------------------
(* The tool's scan of the log. *)

\* The scan ends with the first frame that is not committed.
LEMMA ScannedIs ==
  ASSUME NEW w \in WalImage, NEW n \in Nat, n <= Len(w.frames), NEW a, NEW b,
         b = IF WalStale(w, a) THEN FirstSequence(w) - 1 ELSE a.installed,
         \A i \in 1..n : w.frames[i].state = "full" /\ w.frames[i].batch.seq = b + i,
         n < Len(w.frames) => w.frames[n + 1].state # "full"
  PROVE  Scanned(w, a) = n
  <1> DEFINE ok(i) == w.frames[i].state = "full" /\ w.frames[i].batch.seq = b + i
             P(x) == (\A i \in 1..x : ok(i)) /\ (x < Len(w.frames) => ~ok(x + 1))
  <1>1. Scanned(w, a) = CHOOSE x \in 0..Len(w.frames) : P(x)
    BY DEF Scanned
  <1>2. Len(w.frames) \in Nat
    BY LenProperties DEF WalImage
  <1>3. (\A i \in 1..n : ok(i)) /\ (n < Len(w.frames) => ~ok(n + 1))
    OBVIOUS
  <1> HIDE DEF ok
  <1>4. n \in 0..Len(w.frames) /\ P(n)
    BY <1>2, <1>3
  <1>5. ASSUME NEW x \in 0..Len(w.frames), P(x) PROVE x = n
    <2>1. CASE x < n
      <3>1. x + 1 \in 1..n /\ x < Len(w.frames)
        BY <1>2, <2>1
      <3> QED
        BY <1>3, <1>5, <3>1
    <2>2. CASE n < x
      <3>1. n + 1 \in 1..x /\ n < Len(w.frames)
        BY <1>2, <2>2
      <3> QED
        BY <1>3, <1>5, <3>1
    <2> QED
      BY <1>2, <2>1, <2>2
  <1> HIDE DEF P
  <1> QED
    BY <1>1, <1>4, <1>5

\* inspect_wal finds the frames and the last sequence that read_wal finds.
LEMMA LogRead ==
  ASSUME NEW w \in WalImage, NEW m, m.last \in Nat, Fits(w, m), NEW a, a.installed = m.last
  PROVE  /\ WalStale(w, a) <=> Stale(w, m)
         /\ Scanned(w, a) = Cardinality(FullFrames(w)) /\ Scanned(w, a) \in Nat
         /\ ScannedTo(w, a) = LastSequence(w, m)
         /\ ~Stale(w, m) => FreshLog(w, m) /\ FreshView(w, m, Scanned(w, a))
         /\ Stale(w, m) => StaleLog(w, m) /\ Scanned(w, a) = Len(w.frames)
  <1>1. PICK l \in Nat : l = m.last
    OBVIOUS
  <1>2. PICK z \in Nat : z = Len(w.frames) /\ DOMAIN w.frames = 1..z
    BY LenProperties DEF WalImage
  <1>3. CASE FreshLog(w, m)
    <2>1. PICK n \in Nat : n = Cardinality(FullFrames(w)) /\ FreshView(w, m, n)
      BY <1>3, FreshCount
    <2>2. ~Stale(w, m) /\ FullFrames(w) = 1..n /\ n <= z /\ LastSequence(w, m) = l + n
      <3>1. n \in 0..z
        BY <1>2, <2>1 DEF FreshView
      <3>2. ~Stale(w, m) /\ FullFrames(w) = 1..n /\ LastSequence(w, m) = l + n
        BY <1>1, <2>1 DEF FreshView
      <3> QED
        BY <3>1, <3>2
    <2>3. ~WalStale(w, a)
      <3>1. CASE w.frames # <<>>
        <4>1. z # 0
          BY <1>2, <3>1, EmptySeq DEF WalImage
        <4>2. 1 \in 1..z
          BY <1>2, <4>1
        <4>3. FirstSequence(w) = l + 1
          BY <1>1, <1>2, <1>3, <4>2 DEF FreshLog, FirstSequence, WalSeq
        <4> QED
          BY <1>1, <4>3 DEF WalStale
      <3> QED
        BY <3>1 DEF WalStale
    <2>4. \A i \in 1..n : w.frames[i].state = "full" /\ w.frames[i].batch.seq = l + i
      BY <1>1, <1>2, <1>3, <2>2 DEF FreshLog, FullFrames, WalSeq
    <2>5. n < z => w.frames[n + 1].state # "full"
      <3> SUFFICES ASSUME n < z, w.frames[n + 1].state = "full" PROVE FALSE
        OBVIOUS
      <3>1. n + 1 \in FullFrames(w)
        BY <1>2 DEF FullFrames
      <3> QED
        BY <2>2, <3>1
    <2>6. Scanned(w, a) = n
      BY <1>1, <1>2, <2>2, <2>3, <2>4, <2>5, ScannedIs
    <2>7. ScannedTo(w, a) = l + n
      BY <1>1, <2>3, <2>6 DEF ScannedTo
    <2> QED
      BY <1>3, <2>1, <2>2, <2>3, <2>6, <2>7
  <1>4. CASE StaleLog(w, m)
    <2>1. Stale(w, m) /\ LastSequence(w, m) = l /\ Cardinality(FullFrames(w)) = z
      BY <1>1, <1>2, <1>4, StaleFacts
    <2>2. w.frames # <<>> /\ z <= l /\ z # 0
      BY <1>1, <1>2, <1>4, EmptySeq DEF StaleLog, WalImage
    <2>3. \A i \in 1..z : WalSeq(w, i) \in Nat /\ WalSeq(w, i) + z = l + i /\ w.frames[i].state = "full"
      BY <1>1, <1>2, <1>4, WalBatchType DEF StaleLog
    <2>4. PICK s \in Nat : s = FirstSequence(w) /\ s + z = l + 1
      BY <2>2, <2>3 DEF FirstSequence, WalSeq
    <2>5. WalStale(w, a)
      BY <1>1, <2>2, <2>4 DEF WalStale
    <2>6. \A i \in 1..z : w.frames[i].state = "full" /\ w.frames[i].batch.seq = (s - 1) + i
      <3> SUFFICES ASSUME NEW i \in 1..z
                   PROVE  w.frames[i].state = "full" /\ WalSeq(w, i) = (s - 1) + i
        BY DEF WalSeq
      <3>1. PICK q \in Nat : q = WalSeq(w, i) /\ q + z = l + i
        BY <2>3
      <3> QED
        BY <2>3, <2>4, <3>1
    <2>7. Scanned(w, a) = z
      <3>1. PICK b : /\ b = IF WalStale(w, a) THEN FirstSequence(w) - 1 ELSE a.installed
                     /\ b = s - 1
        BY <2>4, <2>5
      <3>3. \A i \in 1..z : w.frames[i].state = "full" /\ w.frames[i].batch.seq = b + i
        BY <2>6, <3>1
      <3>2. z <= Len(w.frames) /\ ~(z < Len(w.frames))
        BY <1>2
      <3> QED
        BY <3>1, <3>2, <3>3, ScannedIs
    <2>8. ScannedTo(w, a) = l
      BY <2>2, <2>4, <2>5, <2>7 DEF ScannedTo
    <2> QED
      BY <1>2, <1>4, <2>1, <2>5, <2>7, <2>8
  <1> QED
    BY <1>3, <1>4 DEF Fits

\* The tool lists a problem of the log exactly if it ends inside a frame header.
LEMMA LogProblems ==
  ASSUME NEW d \in DbImage, NEW w \in WalImage, NEW m \in Manifest, Fits(w, m), OrderedLog(w),
         OrphanOK(d, w, m), NEW a, Reads(a, m)
  PROVE  WalProblems(d, w, a) = {} <=> ~ShortTail(w)
  <1>1. m.last \in Nat /\ a.installed = m.last
    BY ManifestFields DEF Reads
  <1>2. PICK z \in Nat : z = Len(w.frames) /\ DOMAIN w.frames = 1..z /\ z <= WalCapacity
    BY LenProperties DEF WalImage, OrderedLog
  <1>3. PICK n \in Nat : n = Scanned(w, a)
    BY <1>1, LogRead
  <1>4. w.frames = <<>> <=> z = 0
    BY <1>2, EmptySeq DEF WalImage
  <1>5. \A i \in 1..z : w.frames[i].state \in {"short", "open", "full"}
    <2>1. \A i \in 1..z : w.frames[i] \in WalFrame
      BY <1>2, ElementOfSeq DEF WalImage
    <2> QED
      BY <2>1 DEF WalFrame
  <1>6. \A i \in 1..z : w.frames[i].state # "full" => i = z
    BY <1>2 DEF Fits, FreshLog, StaleLog
  <1>7. ~(Len(w.frames) > WalCapacity)
    BY <1>2, CapacityAssumption
  <1>8. ~(WalStale(w, a) /\ ScannedTo(w, a) # a.installed)
    BY <1>1, LogRead, StaleFacts
  <1>9. ~OrphanBytes(d, w, a)
    <2>1. PICK s \in Nat, e \in Nat : s = d.size /\ e = m.end /\ e = a.end
      BY ManifestFields DEF DbImage, Reads
    <2>2. ~(s > e) <=> s <= e
      BY <2>1
    <2> QED
      BY <1>1, <2>1, <2>2, LogRead DEF OrphanOK, OrphanBytes, Reads
  <1>10. CASE ShortTail(w)
    <2>1. z # 0 /\ w.frames[z].state = "short"
      BY <1>2, <1>4, <1>10 DEF ShortTail
    <2>2. CASE w.frames[1].state = "short"
      <3>1. WalProblems(d, w, a) = {"first frame"}
        BY <1>4, <1>7, <2>1, <2>2 DEF WalProblems
      <3> QED
        BY <1>10, <3>1
    <2>3. CASE w.frames[1].state # "short"
      <3>1. n < z
        <4>1. ~Stale(w, m)
          BY <1>1, <1>2, <2>1, LogRead DEF StaleLog
        <4>2. FreshView(w, m, n)
          BY <1>1, <1>3, <4>1, LogRead
        <4>3. z \notin FullFrames(w) /\ n <= z
          BY <1>2, <2>1, <4>2 DEF FullFrames, FreshView
        <4> QED
          BY <2>1, <4>2, <4>3 DEF FreshView
      <3>2. ~IncompleteSuffix(w, a)
        BY <1>2, <2>1 DEF IncompleteSuffix
      <3>3. WalProblems(d, w, a) = {"wal frame"}
        BY <1>2, <1>3, <1>4, <1>7, <2>1, <2>3, <3>1, <3>2 DEF WalProblems
      <3> QED
        BY <1>10, <3>3
    <2> QED
      BY <2>2, <2>3
  <1>11. CASE ~ShortTail(w)
    <2>1. z # 0 => w.frames[z].state # "short"
      BY <1>2, <1>4, <1>11 DEF ShortTail
    <2>2. ~(w.frames # <<>> /\ w.frames[1].state = "short")
      <3> SUFFICES ASSUME z # 0, w.frames[1].state = "short" PROVE FALSE
        BY <1>4
      <3>1. 1 \in 1..z
        BY <1>2
      <3>2. 1 = z
        BY <1>6, <3>1
      <3> QED
        BY <2>1, <3>2
    <2>3. Scanned(w, a) < Len(w.frames) => IncompleteSuffix(w, a)
      <3> SUFFICES ASSUME n < z PROVE IncompleteSuffix(w, a)
        BY <1>2, <1>3
      <3>1. ~Stale(w, m) /\ ~WalStale(w, a)
        BY <1>1, <1>2, <1>3, LogRead
      <3>2. FreshLog(w, m) /\ FreshView(w, m, n) /\ ScannedTo(w, a) = LastSequence(w, m)
        BY <1>1, <1>3, <3>1, LogRead
      <3>3. n + 1 = z /\ LastSequence(w, m) = m.last + n
        BY <1>2, <3>2 DEF FreshView
      <3>4. z \in 1..z /\ w.frames[z].state # "full"
        <4>1. z \in 1..z /\ z \notin 1..n
          BY <3>3
        <4> QED
          BY <1>2, <3>2, <4>1 DEF FreshView, FullFrames
      <3>5. w.frames[z].state = "open"
        BY <1>5, <2>1, <3>3, <3>4
      <3>6. w.frames[z].batch.seq = m.last + z
        BY <1>2, <3>2, <3>4 DEF FreshLog, WalSeq
      <3>7. m.last + z = ScannedTo(w, a) + 1
        BY <1>1, <3>2, <3>3
      <3> QED
        BY <1>2, <1>3, <3>1, <3>3, <3>5, <3>6, <3>7 DEF IncompleteSuffix
    <2>4. WalProblems(d, w, a) = {}
      BY <1>7, <1>8, <1>9, <2>2, <2>3 DEF WalProblems
    <2> QED
      BY <1>11, <2>4
  <1> QED
    BY <1>10, <1>11

------------------------------------------------------------------------------
(* The prediction that open succeeds. *)

\* The tool's other reason for failure is that of read_manifests.
LEMMA NoManifestIs ==
  ASSUME NEW d \in DbImage, SlotsSane(d)
  PROVE  NoManifestError(d) <=> ~ManifestsReadable(d)
  <1>1. ActiveSlots(d) = {} <=> ValidSlots(d) = {}
    BY ActiveIs
  <1>2. PICK s \in Nat : s = d.size
    BY DEF DbImage
  <1> QED
    BY <1>1, <1>2 DEF NoManifestError, ManifestsReadable, DataStart

\* What the invariants say of a pair of files.
Sound(d, w, m) ==
    /\ d \in DbImage /\ w \in WalImage /\ m = ReadManifests(d) /\ m \in Manifest /\ Valid(m)
    /\ SlotsSane(d) /\ Presents(d, m) /\ Whole(d, m) /\ CheckSegments(d, m)
    /\ Fits(w, m) /\ OrderedLog(w) /\ OrphanOK(d, w, m)

\* verify of such a pair.
LEMMA VerifyIs ==
  ASSUME NEW d, NEW w, NEW m, Sound(d, w, m)
  PROVE  /\ Verify(d, w).ok <=> /\ d.header = "valid" /\ w.header = "valid"
                                /\ ManifestsReadable(d) /\ ~ShortTail(w)
         /\ Verify(d, w).ok = TRUE => Verify(d, w).problems = SlotProblems(d)
         /\ Verify(d, w).ok \in BOOLEAN
  <1>1. PICK a : a = ActiveManifest(d) /\ Reads(a, m)
    BY ActiveFields DEF Sound
  <1>2. PICK c : c = SegmentChain(d, a) /\ c.error = FALSE /\ c.problems = {} /\ ChainProblems(d, a, c) = {}
    BY <1>1, ChainClean DEF Sound
  <1>3. PICK log : log = WalProblems(d, w, a) /\ (log = {} <=> ~ShortTail(w))
    BY <1>1, LogProblems DEF Sound
  <1>4. NoManifestError(d) <=> ~ManifestsReadable(d)
    BY NoManifestIs DEF Sound
  <1>5. CASE d.header # "valid" \/ w.header # "valid"
    <2>1. Verify(d, w) = [ok |-> FALSE, problems |-> {"header"}]
      BY <1>5 DEF Verify
    <2> QED
      BY <1>5, <2>1
  <1>6. CASE d.header = "valid" /\ w.header = "valid" /\ ~ManifestsReadable(d)
    <2>1. PICK q : Verify(d, w) = [ok |-> FALSE, problems |-> q]
      BY <1>4, <1>6 DEF Verify
    <2>2. Verify(d, w).ok = FALSE
      BY <2>1
    <2> QED
      BY <1>6, <2>2
  <1>7. CASE d.header = "valid" /\ w.header = "valid" /\ ManifestsReadable(d)
    <2>1. Verify(d, w) = [ok |-> log = {}, problems |-> SlotProblems(d) \cup c.problems \cup log]
      BY <1>1, <1>2, <1>3, <1>4, <1>7 DEF Verify
    <2>2. PICK v : v = Verify(d, w)
      OBVIOUS
    <2>3. v.ok = (log = {}) /\ v.problems = SlotProblems(d) \cup c.problems \cup log
      BY <2>1, <2>2
    <2>4. log = {} => v.problems = SlotProblems(d)
      BY <1>2, <2>3
    <2> QED
      BY <1>3, <1>7, <2>2, <2>3, <2>4
  <1> QED
    BY <1>5, <1>6, <1>7

\* open of such a pair.
LEMMA OpensIs ==
  ASSUME NEW d, NEW w, NEW m, Sound(d, w, m)
  PROVE  Opens(d, w) <=> /\ d.header = "valid" /\ w.header = "valid"
                         /\ ManifestsReadable(d) /\ ~ShortTail(w)
  <1>1. m.last \in Nat
    BY ManifestFields DEF Sound
  <1>2. ~ShortTail(w) => WalOK(w, m)
    BY <1>1, LogOpens DEF Sound
  <1>3. ASSUME ShortTail(w) PROVE ~WalOK(w, m)
    <2>1. PICK z \in Nat : z = Len(w.frames) /\ DOMAIN w.frames = 1..z
      BY LenProperties DEF WalImage, Sound
    <2>2. z # 0
      BY <1>3, <2>1, EmptySeq DEF WalImage, Sound, ShortTail
    <2>3. z \in DOMAIN w.frames /\ w.frames[z].state = "short"
      BY <1>3, <2>1, <2>2 DEF ShortTail
    <2> QED
      BY <2>3 DEF WalOK
  <1> QED
    BY <1>2, <1>3 DEF Opens, Sound

\* The pairs a reopen may find are such pairs.
LEMMA PairSound ==
  ASSUME TypeInv, PairInv, OrderInv, SegInv, OrphanInv, SlotInv, NEW p \in Pairs
  PROVE  Sound(p[1], p[2], ReadManifests(p[1]))
  <1>1. PICK d, w : /\ d = p[1] /\ w = p[2]
                    /\ (d = dbDisk /\ w = walDisk) \/ (d = dbCache /\ w = walCache)
    BY DEF Pairs
  <1>2. PICK m : m = ReadManifests(d)
    OBVIOUS
  <1>3. /\ d \in DbImage /\ w \in WalImage /\ m \in Manifest /\ Valid(m) /\ Presents(d, m)
        /\ Whole(d, m) /\ Fits(w, m) /\ CheckSegments(d, m) /\ OrphanFits(d, w) /\ OrderedLog(w)
        /\ SlotsSane(d)
    BY <1>1, <1>2, Known DEF SegInv, OrphanInv, OrderInv, SlotInv, mD, mC
  <1>4. OrphanOK(d, w, m)
    BY <1>2, <1>3, OrphanAccepted
  <1> QED
    BY <1>1, <1>2, <1>3, <1>4 DEF Sound

\* verify predicts success for exactly the pairs that timelite_batches_open
\* accepts, after any history of calls, errors and power failures.
THEOREM VerifyAgrees == Spec => []VerifyPredictsOpen
  <1>1. TypeInv /\ PairInv /\ OrderInv /\ SegInv /\ OrphanInv /\ SlotInv => VerifyPredictsOpen
    BY PairSound, VerifyIs, OpensIs DEF VerifyPredictsOpen
  <1> QED
    BY <1>1, TypeInvAlways, PairInvAlways, OrderAlways, SegAlways, OrphanAlways, SaneAlways, PTL

------------------------------------------------------------------------------
(* What verify lists although open succeeds. *)

\* A record in a slot is in force, outdated, or the first one of a prefix that
\* was cut short: the slots that are listed have none.
LEMMA OnlyTornSlots ==
  ASSUME NEW d, NEW w, NEW m, Sound(d, w, m), d.size \notin 1..(DataStart - 1)
  PROVE  SlotProblems(d) \subseteq {<<"slot", i>> : i \in TornSlots(d)}
  <1>1. /\ d \in DbImage /\ SlotsSane(d) /\ Presents(d, m) /\ m \in Manifest /\ Valid(m)
        /\ m = ReadManifests(d)
    BY DEF Sound
  <1>2. PICK s \in Nat : s = d.size
    BY <1>1 DEF DbImage
  <1> SUFFICES ASSUME NEW j \in {0, 1}, s # 0, s >= 2, d.slot[j].kind # "none", ~SlotValid(d, j)
               PROVE  Superseded(d, j)
    <2>1. s # 0 => s >= 2
      BY <1>2 DEF DataStart
    <2>2. ASSUME NEW i \in {0, 1}, d.size # 0, ~Superseded(d, i),
                 Scrap(d, i) \/ (d.slot[i].kind # "none" /\ ~SlotValid(d, i))
          PROVE  i \in TornSlots(d)
      BY <1>2, <2>1, <2>2 DEF TornSlots
    <2> QED
      BY <2>2 DEF SlotProblems
  <1>3. d.slot[j] \in Manifest /\ j \notin ValidSlots(d) /\ SlotSane(d.slot[j], j)
    BY <1>1, SlotAgrees DEF SlotsSane
  <1>4. d.slot[j].revision % 2 = j
    BY <1>3 DEF SlotSane
  <1>5. d.slot[j] # m
    <2> SUFFICES ASSUME d.slot[j] = m PROVE FALSE
      OBVIOUS
    <2>1. m.end <= s
      <3>1. CASE m = EmptyManifest
        BY <1>2, <3>1, EmptyWhole DEF DataStart
      <3> QED
        BY <1>1, <1>2, <3>1 DEF Presents
    <2>2. PICK e \in Nat : e = m.end /\ e <= s
      BY <1>1, <2>1, ValidFields
    <2>3. CheckManifest(m, m.end) => CheckManifest(m, s)
      BY <2>2 DEF CheckManifest
    <2>4. RetentionManifest(m, m.end) => RetentionManifest(m, s)
      BY <2>2 DEF RetentionManifest
    <2>5. RetentionManifest(m, s) \/ CheckManifest(m, s)
      BY <1>1, <2>3, <2>4 DEF Valid
    <2>6. j \in ValidSlots(d)
      BY <1>2, <1>4, <2>5 DEF ValidSlots
    <2> QED
      BY <1>3, <2>6
  <1>6. d.slot[j].revision < m.revision
    BY <1>1, <1>5 DEF Presents
  <1>7. ValidSlots(d) # {}
    <2> SUFFICES ASSUME ValidSlots(d) = {} PROVE FALSE
      OBVIOUS
    <2>1. m.revision = 0
      BY <1>1, EmptyWhole DEF ReadManifests
    <2>2. d.slot[j].revision \in Nat
      BY <1>3, ManifestFields
    <2> QED
      BY <1>6, <2>1, <2>2
  <1>8. ActiveSlots(d) = {Newest(d)} /\ m = d.slot[Newest(d)]
    BY <1>1, <1>7, ActiveIs DEF ReadManifests
  <1>9. WellFormed(d, j)
    BY <1>4 DEF WellFormed
  <1> QED
    BY <1>6, <1>8, <1>9 DEF Superseded

\* Whatever a crash or an error leaves behind two valid headers, verify predicts
\* that open succeeds and lists only the torn slots, also where there is one,
\* unless a prefix was cut short while it was first written, no slot is left that
\* holds a manifest, or the log ends inside a frame header: superseded records,
\* interrupted expiries, installs and reclaims are not reported as damage.
THEOREM CoherentCrashes == Spec => []CrashesAreCoherent
  <1>1. ASSUME TypeInv, PairInv, OrderInv, SegInv, OrphanInv, SlotInv, NEW p \in Pairs,
               p[1].header = "valid", p[2].header = "valid", ~ShortTail(p[2]),
               p[1].size \notin 1..(DataStart - 1),
               ~(NoManifestError(p[1]) /\ TornSlots(p[1]) # {})
        PROVE  /\ Verify(p[1], p[2]).ok
               /\ Verify(p[1], p[2]).problems \subseteq {<<"slot", i>> : i \in TornSlots(p[1])}
    <2>1. PICK d, w, m : d = p[1] /\ w = p[2] /\ m = ReadManifests(d) /\ Sound(d, w, m)
      BY <1>1, PairSound
    <2>2. ManifestsReadable(d)
      <3> SUFFICES ASSUME ~ManifestsReadable(d) PROVE FALSE
        OBVIOUS
      <3>1. d \in DbImage /\ ValidSlots(d) = {} /\ m = EmptyManifest /\ Presents(d, m)
        BY <2>1 DEF ManifestsReadable, ReadManifests, Sound
      <3>2. PICK s \in Nat : s = d.size /\ s > 2
        BY <3>1 DEF ManifestsReadable, DbImage, DataStart
      <3>3. d.slot[0] = EmptyManifest
        <4>1. NoManifestError(d)
          BY <2>1, NoManifestIs DEF Sound
        <4>2. 0 \notin TornSlots(d)
          BY <1>1, <2>1, <4>1
        <4> QED
          BY <3>1, <4>2, EmptySlots DEF Scrap, TornSlots
      <3>4. CheckManifest(EmptyManifest, s) /\ EmptyManifest.revision % 2 = 0
        BY <3>2, CapacityAssumption DEF CheckManifest, EmptyManifest, EncodeManifest, DataStart
      <3>5. 0 \in ValidSlots(d)
        BY <3>2, <3>3, <3>4 DEF ValidSlots
      <3> QED
        BY <3>1, <3>5
    <2>3. SlotProblems(d) \subseteq {<<"slot", i>> : i \in TornSlots(d)}
      BY <1>1, <2>1, OnlyTornSlots
    <2>4. Verify(d, w).ok = TRUE /\ Verify(d, w).problems = SlotProblems(d)
      BY <1>1, <2>1, <2>2, VerifyIs
    <2> QED
      BY <2>1, <2>3, <2>4
  <1>2. TypeInv /\ PairInv /\ OrderInv /\ SegInv /\ OrphanInv /\ SlotInv => CrashesAreCoherent
    BY <1>1 DEF CrashesAreCoherent
  <1> QED
    BY <1>2, TypeInvAlways, PairInvAlways, OrderAlways, SegAlways, OrphanAlways, SaneAlways, PTL

------------------------------------------------------------------------------
(* The predicted status. *)

\* The sequences of the first j segments of a layout.
Sequences(d, m, f, j) ==
    {s \in 1..m.last : \E k \in 0..(j - 1) : s >= d.cell[f[k]].first /\ s <= d.cell[f[k]].last}

\* The batches of a whole file fill the units between its headers.
LEMMA LiveUnits ==
  ASSUME NEW d \in DbImage, NEW m, Bounds(m), Whole(d, m)
  PROVE  Live(d, m) = m.end - m.root - 2 * m.count
  <1>1. PICK f : Laid(d, m, f) /\ Segments(d, m) = {f[k] : k \in 0..(m.count - 1)}
    BY LaidWhole DEF Whole
  <1>2. m.count \in Nat /\ m.root \in Nat /\ m.end \in Nat /\ m.last \in Nat
    BY DEF Bounds
  <1> DEFINE S(j) == Sequences(d, m, f, j)
             T == {j \in 0..m.count : Cardinality(S(j)) = f[j] - m.root - 2 * j}
  <1>3. 0 \in T
    <2>1. S(0) = {}
      BY DEF Sequences
    <2>2. f[0] = m.root /\ m.root - m.root - 2 * 0 = 0
      BY <1>1, <1>2 DEF Laid
    <2> QED
      BY <1>2, <2>1, <2>2, FS_EmptySet
  <1>4. ASSUME NEW j \in 0..(m.count - 1), j \in T PROVE j + 1 \in T
    <2>1. j + 1 \in 0..m.count /\ j \in 0..m.count /\ j \in Nat
      BY <1>2
    <2>2. PICK u \in Nat, v \in Nat : /\ u = d.cell[f[j]].first /\ v = d.cell[f[j]].last
                                      /\ u >= 1 /\ u <= v /\ v <= m.last
      BY <1>1, <1>2, LaidSegment
    <2>3. PICK o \in Nat : o = f[j] /\ f[j + 1] = o + 3 + (v - u)
      <3>1. f[j] \in Nat /\ f[j] >= DataStart /\ SegmentOK(d, f[j], m.end)
            /\ f[j + 1] = f[j] + SegmentSize(d, f[j])
        BY <1>1, LaidSegment
      <3>2. SegmentSize(d, f[j]) = 3 + (v - u)
        BY <1>2, <2>2, <3>1, SegmentFields DEF Bounds
      <3> QED
        BY <2>2, <3>1, <3>2
    <2>4. S(j + 1) = S(j) \cup (u..v)
      <3>1. ASSUME NEW s \in 1..m.last
            PROVE  s \in S(j + 1) <=> s \in S(j) \/ s \in u..v
        <4>1. \A k : k \in 0..((j + 1) - 1) <=> k \in 0..(j - 1) \/ k = j
          BY <2>1
        <4>2. s \in S(j + 1) <=> \E k \in 0..((j + 1) - 1) : s >= d.cell[f[k]].first /\ s <= d.cell[f[k]].last
          BY DEF Sequences
        <4>3. s \in S(j) <=> \E k \in 0..(j - 1) : s >= d.cell[f[k]].first /\ s <= d.cell[f[k]].last
          BY DEF Sequences
        <4>4. s \in u..v <=> s >= u /\ s <= v
          BY <2>2
        <4> HIDE DEF S
        <4> QED
          BY <2>2, <4>1, <4>2, <4>3, <4>4
      <3>2. S(j) \subseteq 1..m.last /\ S(j + 1) \subseteq 1..m.last /\ u..v \subseteq 1..m.last
        BY <1>2, <2>2 DEF Sequences
      <3> HIDE DEF S
      <3> QED
        BY <3>1, <3>2
    <2>5. S(j) \cap (u..v) = {}
      <3> SUFFICES ASSUME NEW s \in S(j), s \in u..v PROVE FALSE
        OBVIOUS
      <3>1. PICK k \in 0..(j - 1) : s <= d.cell[f[k]].last
        BY DEF Sequences
      <3>2. k \in 0..(m.count - 1) /\ k < j
        BY <1>2, <2>1
      <3>3. d.cell[f[k]].last < u
        BY <1>1, <2>2, <3>2 DEF Laid
      <3>4. d.cell[f[k]].last \in Nat
        BY <1>1, <3>2, LaidSegment
      <3> QED
        BY <2>2, <3>1, <3>3, <3>4
    <2>6. IsFiniteSet(S(j)) /\ IsFiniteSet(u..v) /\ Cardinality(u..v) = v - u + 1
      <3>1. IsFiniteSet(1..m.last) /\ S(j) \subseteq 1..m.last
        <4>1. 1 \in Int /\ m.last \in Int
          BY <1>2
        <4>2. IsFiniteSet(1..m.last)
          BY <4>1, FS_Interval
        <4> QED
          BY <4>2 DEF Sequences
      <3>2. IsFiniteSet(u..v) /\ Cardinality(u..v) = v - u + 1
        <4>1. u \in Int /\ v \in Int /\ ~(u > v)
          BY <2>2
        <4>2. IsFiniteSet(u..v) /\ Cardinality(u..v) = IF u > v THEN 0 ELSE v - u + 1
          BY <4>1, FS_Interval, Zenon
        <4> QED
          BY <4>1, <4>2
      <3> QED
        BY <3>1, <3>2, FS_Subset
    <2>7. PICK c \in Nat : c = Cardinality(S(j)) /\ Cardinality(S(j + 1)) = c + (v - u + 1)
      <3> HIDE DEF S
      <3>1. Cardinality(S(j)) \in Nat
        BY <2>6, FS_CardinalityType
      <3>2. Cardinality(S(j) \cup (u..v)) =
              Cardinality(S(j)) + Cardinality(u..v) - Cardinality(S(j) \cap (u..v))
        BY <2>6, FS_Union
      <3>3. Cardinality(S(j) \cap (u..v)) = 0
        BY <2>5, FS_EmptySet
      <3>4. PICK c \in Nat : c = Cardinality(S(j)) /\ Cardinality(S(j + 1)) = c + (v - u + 1) - 0
        BY <2>4, <2>6, <3>1, <3>2, <3>3
      <3>5. Cardinality(S(j + 1)) = c + (v - u + 1)
        BY <2>2, <3>4
      <3> QED
        BY <3>4, <3>5
    <2>8. c = o - m.root - 2 * j
      BY <1>4, <2>3, <2>7
    <2>9. Cardinality(S(j + 1)) = f[j + 1] - m.root - 2 * (j + 1)
      BY <1>2, <2>1, <2>2, <2>3, <2>7, <2>8
    <2> QED
      BY <2>1, <2>9
  <1>5. m.count \in T
    <2> HIDE DEF T
    <2> QED
      BY <1>2, <1>3, <1>4, UpTo
  <1>6. LiveBatches(d, m, Segments(d, m)) = Cardinality(S(m.count))
    BY <1>1 DEF LiveBatches, Sequences
  <1>7. f[m.count] = m.end
    BY <1>1 DEF Laid
  <1> QED
    BY <1>5, <1>6, <1>7, LiveData

\* What verify predicts of a sound pair, as a function of its manifest and log.
PredictedOf(w, m) ==
    LET units == m.end - m.root - 2 * m.count
        pending == LastSequence(w, m) - m.last
    IN  [committed |-> units + pending, installed |-> units, pending |-> pending,
         segments |-> m.count,
         walFrames |-> IF Stale(w, m) THEN 0 ELSE Cardinality(FullFrames(w)),
         installedUnits |-> IF m.phase = 2 THEN m.end - m.root ELSE m.end - DataStart,
         lastTime |-> LastTime(w, m)]

\* The tool's sums and searches have these closed forms.
LEMMA PredictedIs ==
  ASSUME NEW d, NEW w, NEW m, Sound(d, w, m)
  PROVE  Predicted(d, w) = PredictedOf(w, m)
  <1>1. PICK a : a = ActiveManifest(d) /\ Reads(a, m)
    BY ActiveFields DEF Sound
  <1>2. SegmentChain(d, a).live = m.end - m.root - 2 * m.count
    BY <1>1, ChainClean DEF Sound
  <1>3. /\ m.last \in Nat /\ a.installed = m.last /\ w \in WalImage /\ Fits(w, m)
        /\ m.end \in Nat /\ m.root \in Nat /\ m.end >= m.root
    BY <1>1, ValidFields DEF Sound, Reads, Bounds
  <1>4. PICK n \in Nat : /\ n = Scanned(w, a) /\ n = Cardinality(FullFrames(w))
                         /\ (WalStale(w, a) <=> Stale(w, m)) /\ ScannedTo(w, a) = LastSequence(w, m)
    BY <1>3, LogRead
  <1>5. (IF WalStale(w, a) THEN 0 ELSE ScannedTo(w, a) - a.installed) = LastSequence(w, m) - m.last
    <2>1. Stale(w, m) => LastSequence(w, m) = m.last
      BY <1>3, LogRead, StaleFacts
    <2> QED
      BY <1>3, <1>4, <2>1
  <1>6. PredictedEnd(a) - DataStart = IF m.phase = 2 THEN m.end - m.root ELSE m.end - DataStart
    BY <1>1, <1>3 DEF PredictedEnd, Reads, DataStart
  <1>7. FloorTime(w, a) = LastTime(w, m)
    <2>1. (IF a.hasTime THEN a.time ELSE 0) = m.time
      BY <1>1, EmptyWhole DEF Reads
    <2>2. CASE Stale(w, m)
      <3>1. LastTime(w, m) = m.time
        BY <2>2 DEF LastTime
      <3> QED
        BY <1>4, <2>1, <2>2, <3>1 DEF FloorTime
    <2>3. CASE ~Stale(w, m)
      <3>1. FreshView(w, m, n)
        BY <1>3, <1>4, <2>3, LogRead
      <3>2. LastSequence(w, m) = m.last + n /\ LastTime(w, m) = IF n = 0 THEN m.time ELSE w.frames[n].batch.time
        BY <3>1 DEF FreshView
      <3>3. ScannedTo(w, a) > a.installed <=> n # 0
        BY <1>3, <1>4, <3>2
      <3> QED
        BY <1>4, <2>1, <2>3, <3>2, <3>3 DEF FloorTime
    <2> QED
      BY <2>2, <2>3
  <1>8. a.generation = m.count
    BY <1>1 DEF Reads
  <1>9. (IF WalStale(w, a) THEN 0 ELSE Scanned(w, a)) = IF Stale(w, m) THEN 0 ELSE Cardinality(FullFrames(w))
    BY <1>4
  <1> QED
    BY <1>1, <1>2, <1>5, <1>6, <1>7, <1>8, <1>9 DEF Predicted, PredictedOf

\* Between calls, the status that verify predicts from the files alone is the
\* one timelite_batches_get_status returns from the handle's counters.
THEOREM StatusPredicted == Spec => []VerifyMatchesStatus
  <1>1. ASSUME TypeInv, PairInv, LiveInv, OrderInv, SegInv, OrphanInv, SlotInv, Ready
        PROVE  Predicted(dbDisk, walDisk) = Status(h)
    <2>1. Sound(dbDisk, walDisk, mD)
      <3>1. PICK p \in Pairs : p = <<dbDisk, walDisk>>
        BY DEF Pairs
      <3> QED
        BY <1>1, <3>1, PairSound DEF mD
    <2>2. Predicted(dbDisk, walDisk) = PredictedOf(walDisk, mD)
      BY <2>1, PredictedIs
    <2>3. /\ Calling /\ FreshView(walDisk, mD, h.end) /\ h.end \in Nat
          /\ h.sequence = mD.last + h.end /\ h.installed = mD.last /\ mD.last \in Nat
      BY <1>1, AtReady, Known
    <2>4. /\ h.dataEnd = mD.end /\ h.generation = mD.count /\ mD.phase = 0
          /\ h.lastTime = LastTime(walDisk, mD)
      BY <2>3 DEF Calling, TieDb, TieKind, TieLog
    <2>5. h.live = mD.end - mD.root - 2 * mD.count
      <3>1. h.live = Live(dbDisk, mD)
        BY <1>1 DEF LiveInv
      <3> QED
        BY <2>1, <3>1, ValidFields, LiveUnits DEF Sound
    <2>6. /\ LastSequence(walDisk, mD) - mD.last = h.sequence - h.installed
          /\ (IF Stale(walDisk, mD) THEN 0 ELSE Cardinality(FullFrames(walDisk))) = h.end
      BY <2>3 DEF FreshView
    <2> QED
      BY <2>2, <2>4, <2>5, <2>6 DEF PredictedOf, Status
  <1>2. TypeInv /\ PairInv /\ LiveInv /\ OrderInv /\ SegInv /\ OrphanInv /\ SlotInv => VerifyMatchesStatus
    BY <1>1 DEF VerifyMatchesStatus
  <1> QED
    BY <1>2, TypeInvAlways, PairInvAlways, LiveAlways, OrderAlways, SegAlways, OrphanAlways,
       SaneAlways, PTL

------------------------------------------------------------------------------
(* The prediction survives the recovery it predicts. *)

\* What of a pair decides the prediction: the extent and the number of the
\* segments, the frames to come, and the floor of the timestamps.
Outlook(d, w) ==
    LET m == ReadManifests(d)
    IN  [units |-> m.end - m.root, count |-> m.count, pending |-> High(d, w) - m.last,
         time |-> Floor(d, w)]

Forecast(o) ==
    LET live == o.units - 2 * o.count
    IN  [committed |-> live + o.pending, installed |-> live, pending |-> o.pending,
         segments |-> o.count, walFrames |-> o.pending, installedUnits |-> o.units,
         lastTime |-> o.time]

\* A tail copy is predicted where the recovery will move it, a stale log as the
\* empty one that the recovery will leave.
LEMMA ForecastIs ==
  ASSUME NEW d, NEW w, NEW m, Sound(d, w, m)
  PROVE  Predicted(d, w) = Forecast(Outlook(d, w))
  <1>1. Predicted(d, w) = PredictedOf(w, m)
    BY PredictedIs
  <1>2. /\ w \in WalImage /\ Fits(w, m) /\ m.last \in Nat /\ m = ReadManifests(d)
        /\ m.phase # 2 => m.root = DataStart
    BY ValidFields DEF Sound
  <1>3. High(d, w) = LastSequence(w, m) /\ Floor(d, w) = LastTime(w, m)
    BY <1>2 DEF High, Floor
  <1>4. (IF Stale(w, m) THEN 0 ELSE Cardinality(FullFrames(w))) = LastSequence(w, m) - m.last
    <2> DEFINE a == [installed |-> m.last]
    <2>0. a.installed = m.last
      OBVIOUS
    <2>1. /\ ~Stale(w, m) => FreshLog(w, m) /\ FreshView(w, m, Scanned(w, a))
          /\ Stale(w, m) => StaleLog(w, m)
          /\ Scanned(w, a) = Cardinality(FullFrames(w)) /\ Scanned(w, a) \in Nat
      BY <1>2, <2>0, LogRead
    <2>2. CASE Stale(w, m)
      <3>1. LastSequence(w, m) = m.last
        BY <1>2, <2>1, <2>2, StaleFacts
      <3> QED
        BY <1>2, <2>2, <3>1
    <2>3. CASE ~Stale(w, m)
      BY <1>2, <2>1, <2>3 DEF FreshView
    <2> QED
      BY <2>2, <2>3
  <1>5. (IF m.phase = 2 THEN m.end - m.root ELSE m.end - DataStart) = m.end - m.root
    BY <1>2
  <1> QED
    BY <1>1, <1>2, <1>3, <1>4, <1>5 DEF PredictedOf, Forecast, Outlook

Forecasts == \A p \in Pairs : Predicted(p[1], p[2]) = Forecast(Outlook(p[1], p[2]))

\* Every prediction is the forecast of an outlook.
LEMMA ForecastsAlways == Spec => []Forecasts
  <1>1. TypeInv /\ PairInv /\ OrderInv /\ SegInv /\ OrphanInv /\ SlotInv => Forecasts
    BY PairSound, ForecastIs DEF Forecasts
  <1> QED
    BY <1>1, TypeInvAlways, PairInvAlways, OrderAlways, SegAlways, OrphanAlways, SaneAlways, PTL

\* Only an open handle waits for calls.
HandleOpen == pc = "open" => h.open

\* A call that returns had an open handle, and open makes one.
LEMMA HandleOpenStep == TypeInv /\ PairInv /\ HandleOpen /\ [Next]_vars => HandleOpen'
  <1> SUFFICES ASSUME TypeInv, PairInv, HandleOpen, [Next]_vars, pc' = "open"
               PROVE  h'.open
    BY DEF HandleOpen
  <1>0. h \in Handle
    BY DEF TypeInv, TypeOK
  <1>1. CASE UNCHANGED vars
    BY <1>1 DEF HandleOpen, vars
  <1>2. CASE OpenReturn
    BY <1>0, <1>2 DEF OpenReturn, Handle
  <1>3. CASE AppendReturn
    <2>1. h.open
      BY <1>3 DEF AppendReturn, Goto, PairInv, AppendInv, AppendPcs, Appending
    <2> QED
      BY <1>0, <1>3, <2>1 DEF AppendReturn, Handle
  <1>4. CASE SyncReclaim
    <2>1. h.open
      BY <1>4 DEF SyncReclaim, Goto, PairInv, CheckpointInv, Reclaiming
    <2> QED
      BY <1>0, <1>4, <2>1 DEF SyncReclaim, Handle
  <1>5. CASE ExpireReturn
    <2>1. h.open
      BY <1>5 DEF ExpireReturn, Goto, PairInv, RetentionInv
    <2> QED
      BY <1>0, <1>5, <2>1 DEF ExpireReturn, Handle
  <1>6. CASE Fail
    BY <1>6 DEF Fail
  <1>7. CASE \/ OpenStart \/ Close \/ Crash \/ (\E t \in Times : AppendBatch(t)) \/ Checkpoint
             \/ \E c \in Cutoffs : Expire(c)
    BY <1>7 DEF OpenStart, Close, Crash, AppendBatch, Checkpoint, Expire, Goto
  <1>8. CASE OpenStep
    BY <1>2, <1>8 DEF OpenStep, RefuseOrphanWal, CreateDb, CreateWal, WriteDbHeader,
       WriteWalHeader, Reject, Validate, ProvisionDb, ProvisionWal, AfterProvision, TrimWal,
       NothingToTrim, SyncTrim, Goto
  <1>9. CASE AppendStep \/ CheckpointStep
    BY <1>3, <1>4, <1>9 DEF AppendStep, SyncBody, WriteCommit, SyncCommit, CheckpointStep,
       UpgradePrefix, SyncUpgrade, WriteSegment, SyncSegment, WriteManifest, SyncManifest,
       Reclaim, Goto
  <1>10. CASE RetentionStep
    <2>1. AfterPublish # "open"
      BY DEF AfterPublish
    <2> QED
      BY <1>5, <1>10, <2>1 DEF RetentionStep, Publish, SyncPublish, CopyTail, SyncCopy, CopyFront,
         TrimDb, SyncTrimDb, Goto
  <1> QED
    BY <1>1, <1>6, <1>7, <1>8, <1>9, <1>10 DEF Next, CallStep

LEMMA HandleOpenAlways == Spec => []HandleOpen
  <1>1. Init => HandleOpen
    BY DEF Init, HandleOpen
  <1> QED
    BY <1>1, HandleOpenStep, TypeInvAlways, PairInvAlways, PTL DEF Spec

\* Where a recovery is.
LEMMA RecoveryAt ==
  ASSUME TypeInv, PairInv, HandleOpen, Recovering
  PROVE  pc \in {"trimWal", "syncTrim", "openReturn"} \cup RetentionPcs
  <1>1. pc \in Pcs /\ ~h.open
    BY DEF TypeInv, TypeOK, Recovering
  <1>2. pc \notin AppendPcs
    BY <1>1 DEF PairInv, AppendInv, Appending
  <1>3. pc \notin CheckpointPcs
    BY <1>1 DEF PairInv, AppendInv, Calling
  <1>4. pc \notin {"reclaim", "syncReclaim"}
    BY <1>1 DEF PairInv, CheckpointInv, Reclaiming
  <1>5. pc # "open"
    BY <1>1 DEF HandleOpen
  <1> QED
    BY <1>1, <1>2, <1>3, <1>4, <1>5 DEF Recovering, Pcs, AppendPcs, CheckpointPcs, RetentionPcs

\* While a recovery changes the files, the cached pair promises what the durable
\* pair promises: a crash may show either.
OutlookInv == Recovering => Outlook(dbCache, walCache) = Outlook(dbDisk, walDisk)

LEMMA OutlookKept ==
  ASSUME TypeInv, PairInv, LiveInv, HandleOpen, Recovering
  PROVE  Outlook(dbCache, walCache) = Outlook(dbDisk, walDisk)
  <1>1. /\ dbDisk \in DbImage /\ dbCache \in DbImage /\ mD \in Manifest /\ mC \in Manifest
        /\ mD = ReadManifests(dbDisk) /\ mC = ReadManifests(dbCache)
        /\ walDisk \in WalImage /\ walCache \in WalImage /\ mD.last \in Nat
        /\ Fits(walDisk, mD) /\ Valid(mD) /\ Valid(mC) /\ Whole(dbCache, mC) /\ Whole(dbDisk, mD)
        /\ Bridge(dbDisk, dbCache, mD, mC) /\ h \in Handle /\ loc \in Locals
    BY Known
  <1>2. CASE pc \in {"trimWal", "syncTrim", "openReturn"}
    <2>1. Completing
      BY <1>2 DEF PairInv, OpenInv
    <2>2. dbCache = dbDisk /\ TieEnd(mD, walDisk)
      BY <2>1 DEF Completing, SyncedDb
    <2>3. walCache = walDisk \/ walCache = [walDisk EXCEPT !.frames = SubSeq(@, 1, h.end)]
      BY <1>2 DEF PairInv, OpenInv, SyncedWal, Trimmed
    <2>4. walCache = walDisk \/ LogSame(walDisk, walCache, mD)
      BY <1>1, <2>2, <2>3, TrimmedLog DEF TieEnd
    <2> QED
      BY <1>1, <2>2, <2>4 DEF Outlook, High, Floor, LogSame
  <1>3. CASE pc \in RetentionPcs
    <2>1. walCache = walDisk /\ TieLog(mD, walDisk)
      BY <1>3 DEF PairInv, RetentionInv, Retaining, SyncedWal
    <2>2. CASE pc # "syncPublish"
      <3>1. mC = mD
        BY <1>3, <2>2, <1>1 DEF PairInv, RetentionInv, RetentionPcs, SyncedDb
      <3> QED
        BY <1>1, <2>1, <3>1 DEF Outlook, High, Floor
    <2>3. CASE pc = "syncPublish"
      <3>1. /\ mC = RecordOf(loc, h) /\ Publishing /\ loc.phase \in {0, 3} /\ loc.count = mD.count
        BY <1>3, <2>3, RecordIs DEF PairInv, RetentionInv, RecordWritten, Retaining, LiveInv, Recovering
      <3>2. mC.last = mD.last /\ mC.time = mD.time /\ mC.count = mD.count
        BY <1>1, <2>1, <3>1, RecordFields DEF TieLog
      <3>3. Data(dbCache, mC) = Data(dbCache, mD)
        BY <3>1, RecordIs DEF Publishing
      <3>4. Bounds(mD) /\ Bounds(mC)
        BY <1>1, ValidFields
      <3>5. Whole(dbCache, mD)
        <4>1. Alike(mD, mD)
          BY DEF Alike
        <4> QED
          BY <1>1, <3>4, <4>1, WholeAgree DEF Bridge
      <3>6. mC.end - mC.root - 2 * mC.count = mD.end - mD.root - 2 * mD.count
        <4>1. Live(dbCache, mC) = Live(dbCache, mD)
          BY <3>3 DEF Live
        <4> QED
          BY <1>1, <3>4, <3>5, <4>1, LiveUnits
      <3>7. mC.end - mC.root = mD.end - mD.root
        <4>1. /\ mC.end \in Nat /\ mC.root \in Nat /\ mC.count \in Nat
              /\ mD.end \in Nat /\ mD.root \in Nat /\ mD.count \in Nat
          BY <1>1, ManifestFields
        <4> QED
          BY <3>2, <3>6, <4>1
      <3>8. LastSequence(walDisk, mC) = LastSequence(walDisk, mD) /\ LastTime(walDisk, mC) = LastTime(walDisk, mD)
        BY <3>2, LogAlike
      <3> QED
        BY <1>1, <2>1, <3>2, <3>7, <3>8 DEF Outlook, High, Floor
    <2> QED
      BY <2>2, <2>3
  <1> QED
    BY <1>2, <1>3, RecoveryAt

LEMMA OutlookAlways == Spec => []OutlookInv
  <1>1. TypeInv /\ PairInv /\ LiveInv /\ HandleOpen => OutlookInv
    BY OutlookKept DEF OutlookInv
  <1> QED
    BY <1>1, TypeInvAlways, PairInvAlways, LiveAlways, HandleOpenAlways, PTL

\* What a crash or an error leaves of a recovery promises the same.
LEMMA OutlookFault ==
  ASSUME TypeInv, PairInv, OutlookInv, Recovering, Fail \/ Crash
  PROVE  Outlook(dbCache', walCache') = Outlook(dbCache, walCache)
  <1>1. /\ dbDisk \in DbImage /\ dbCache \in DbImage /\ walDisk \in WalImage /\ walCache \in WalImage
        /\ Files(dbDisk, dbCache, walDisk, walCache, doom) /\ mC = ReadManifests(dbCache)
    BY Known
  <1>2. ASSUME NEW x \in DbOutcomes(dbDisk, dbCache), NEW y \in WalOutcomes(walDisk, walCache)
        PROVE  Outlook(x, y) = Outlook(dbCache, walCache)
    <2>1. \/ ReadManifests(x) = ReadManifests(dbDisk) /\ Same(dbDisk, walDisk, x, y)
          \/ ReadManifests(x) = ReadManifests(dbCache) /\ Same(dbCache, walCache, x, y)
      BY <1>1, FilesOutcome
    <2>2. Outlook(x, y) = Outlook(dbDisk, walDisk) \/ Outlook(x, y) = Outlook(dbCache, walCache)
      BY <2>1 DEF Outlook, Same
    <2> QED
      BY <2>2 DEF OutlookInv
  <1>3. CASE Crash
    BY <1>2, <1>3 DEF Crash
  <1>4. CASE Fail
    <2>1. PICK x \in FailedDb, y \in FailedWal : dbCache' = x /\ walCache' = y
      BY <1>4 DEF Fail
    <2>2. Outlook(x, y) = Outlook(dbCache, walCache)
      <3>1. CASE Creating /\ y = walCache /\ x \in DbImage /\ Presents(x, EmptyManifest)
        <4>1. ReadManifests(x) = EmptyManifest
          BY <3>1, PresentsReads, EmptyWhole
        <4> QED
          BY <1>1, <3>1, <4>1 DEF Creating, Outlook, High, Floor
      <3> QED
        BY <1>2, <3>1, FailCases
    <2> QED
      BY <2>1, <2>2
  <1> QED
    BY <1>3, <1>4

\* The other steps of a recovery leave the files, or leave the durable ones and
\* go on; when the last one returns, the files are as they were.
LEMMA RecoveryGoesOn ==
  ASSUME TypeInv, PairInv, HandleOpen, Recovering, [Next]_vars, ~Fail, ~Crash
  PROVE  \/ dbCache' = dbCache /\ walCache' = walCache
         \/ dbDisk' = dbDisk /\ walDisk' = walDisk /\ Recovering'
  <1>1. ~h.open /\ pc \in {"trimWal", "syncTrim", "openReturn"} \cup RetentionPcs
    BY RecoveryAt DEF Recovering
  <1>2. CASE TrimWal \/ Publish \/ CopyTail \/ CopyFront \/ TrimDb
    <2>1. /\ dbDisk' = dbDisk /\ walDisk' = walDisk /\ h' = h
          /\ pc' \in {"syncTrim", "syncPublish", "syncCopy", "syncTrimDb"}
      BY <1>2 DEF TrimWal, Publish, CopyTail, CopyFront, TrimDb, Goto, db, wal
    <2> QED
      BY <1>1, <2>1 DEF Recovering
  <1>3. CASE NothingToTrim \/ SyncTrim \/ OpenReturn \/ SyncPublish \/ SyncCopy \/ SyncTrimDb
             \/ ExpireReturn
    BY <1>3 DEF NothingToTrim, SyncTrim, OpenReturn, SyncPublish, SyncCopy, SyncTrimDb,
       ExpireReturn, SyncDb, SyncWal, db, wal
  <1>4. CASE UNCHANGED vars
    BY <1>4 DEF vars, db, wal
  <1>5. pc \notin {"closed", "open", "probe", "createWal", "dbHeader", "walHeader", "validate",
                   "provisionDb", "provisionWal", "syncBody", "commit", "syncCommit",
                   "appendReturn", "upgrade", "syncUpgrade", "segment", "syncSegment",
                   "manifest", "syncManifest", "reclaim", "syncReclaim"}
    BY <1>1 DEF RetentionPcs
  <1>6. /\ ~OpenStart /\ ~Close /\ ~(\E t \in Times : AppendBatch(t)) /\ ~Checkpoint
        /\ ~(\E c \in Cutoffs : Expire(c))
    BY <1>5 DEF OpenStart, Close, AppendBatch, Checkpoint, Expire, Goto, Ready
  <1>7. /\ ~AppendStep /\ ~CheckpointStep
        /\ OpenStep => TrimWal \/ NothingToTrim \/ SyncTrim \/ OpenReturn
    BY <1>5 DEF AppendStep, SyncBody, WriteCommit, SyncCommit, AppendReturn, CheckpointStep,
       UpgradePrefix, SyncUpgrade, WriteSegment, SyncSegment, WriteManifest, SyncManifest,
       Reclaim, SyncReclaim, OpenStep, RefuseOrphanWal, CreateDb, CreateWal, WriteDbHeader,
       WriteWalHeader, Reject, Validate, ProvisionDb, ProvisionWal, Goto
  <1> QED
    BY <1>2, <1>3, <1>4, <1>6, <1>7 DEF Next, CallStep, RetentionStep

\* The status that verify predicts before a recovery is the one it predicts
\* after each step of finish_retention and of the trimming of the log, and after
\* each crash or error that interrupts them, however often.
THEOREM PredictionSurvives == Spec => RecoveryKeepsPrediction
  <1>1. ASSUME TypeInv, PairInv, HandleOpen, OutlookInv, Forecasts,
               OutlookInv', Forecasts', [Next]_vars, Recovering
        PROVE  Predicted(dbCache', walCache') = Predicted(dbCache, walCache)
    <2>1. /\ Predicted(dbCache, walCache) = Forecast(Outlook(dbCache, walCache))
          /\ Predicted(dbCache', walCache') = Forecast(Outlook(dbCache', walCache'))
      BY <1>1 DEF Forecasts, Pairs
    <2>2. CASE Fail \/ Crash
      BY <1>1, <2>1, <2>2, OutlookFault
    <2>3. CASE dbCache' = dbCache /\ walCache' = walCache
      BY <2>3
    <2>4. CASE dbDisk' = dbDisk /\ walDisk' = walDisk /\ Recovering'
      <3>1. Outlook(dbCache', walCache') = Outlook(dbDisk, walDisk)
        BY <1>1, <2>4 DEF OutlookInv
      <3>2. Outlook(dbCache, walCache) = Outlook(dbDisk, walDisk)
        BY <1>1 DEF OutlookInv
      <3> QED
        BY <2>1, <3>1, <3>2
    <2> QED
      BY <1>1, <2>2, <2>3, <2>4, RecoveryGoesOn
  <1>2. /\ TypeInv /\ PairInv /\ HandleOpen /\ OutlookInv /\ Forecasts
        /\ OutlookInv' /\ Forecasts' /\ [Next]_vars
        => [Recovering => Predicted(dbCache', walCache') = Predicted(dbCache, walCache)]_vars
    BY <1>1
  <1> QED
    BY <1>2, TypeInvAlways, PairInvAlways, HandleOpenAlways, OutlookAlways, ForecastsAlways, PTL
       DEF Spec, RecoveryKeepsPrediction
==============================================================================
