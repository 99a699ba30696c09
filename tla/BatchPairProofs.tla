--------------------------- MODULE BatchPairProofs ---------------------------
(***************************************************************************)
(* A batch pair, for every capacity, every set of timestamps and cutoffs,  *)
(* every largest revision and every bound on appends and faults: type      *)
(* correctness, the reserve of manifest revisions, and that the files      *)
(* implement the abstract log.                                             *)
(*                                                                         *)
(* The inductive invariant, PairInv, says how the two files on disk and    *)
(* the two in the cache are related while a write is in flight, so that    *)
(* whatever part of it survives presents either the manifest and the data  *)
(* of the disk or those of the cache, and never a mixture; and, step by    *)
(* step of each call, what the handle knows about the files.               *)
(***************************************************************************)
EXTENDS BatchPair, FiniteSetTheorems, SequenceTheorems, WellFoundedInduction, TLAPS

------------------------------------------------------------------------------
(* The strengthening of TypeOK. *)

\* The handle never has more installed than committed, and its data never end
\* before the slots do: live counts and offsets stay natural numbers.
HandleOK == h.installed <= h.sequence /\ h.dataEnd >= DataStart

\* The manifest about to be published describes data behind the slots; the tail
\* copy of phase 2 lies at or past its root, so it can be moved back.
LocalsOK == /\ loc.root >= DataStart /\ loc.end >= loc.root
            /\ loc.phase = 2 /\ loc.count # 0 => loc.tail >= loc.root

\* While an append runs, its frame ends the log and carries the next sequence.
AppendPcs == {"syncBody", "commit", "syncCommit", "appendReturn"}
AppendOK == pc \in AppendPcs =>
                /\ walCache.frames # <<>>
                /\ walCache.frames[Len(walCache.frames)].batch.seq = h.sequence + 1

TypeInv == TypeOK /\ HandleOK /\ LocalsOK /\ AppendOK

------------------------------------------------------------------------------
(* Facts about the files. *)

\* Offsets are finitely many natural numbers at or past the slots.
LEMMA OffsetsFinite ==
    /\ IsFiniteSet(Offsets)
    /\ \A o \in Offsets : o \in Nat /\ o >= DataStart
  <1>1. DataStart \in Int /\ DbCapacity - 1 \in Int
    BY CapacityAssumption DEF DataStart
  <1> QED
    BY <1>1, FS_Interval DEF Offsets, DataStart

\* The records the code encodes are manifests, and what read_manifests falls
\* back to is one.
LEMMA ManifestTypes ==
    /\ EmptyManifest \in Manifest /\ NoManifest \in Manifest
    /\ NoSlots \in [{0, 1} -> Manifest] /\ NoCells \in [Offsets -> Content]
  BY DEF EmptyManifest, NoManifest, EncodeManifest, Manifest, DataStart, NoSlots, NoCells, Content

\* The images an open starts from or creates are well formed.
LEMMA NewFiles ==
    /\ NewDb \in DbImage
    /\ \A x \in {"absent", "short", "valid"} : BareDb(x) \in DbImage /\ NewWal(x) \in WalImage
  <1>1. \A x \in {"absent", "short", "valid"} : BareDb(x) \in DbImage
    BY ManifestTypes DEF BareDb, DbImage
  <1>2. NewDb \in DbImage
    BY ManifestTypes DEF NewDb, LegacyDb, BareDb, DbImage, DataStart
  <1>3. \A x \in {"absent", "short", "valid"} : NewWal(x) \in WalImage
    BY EmptySeq DEF NewWal, WalImage
  <1> QED
    BY <1>1, <1>2, <1>3

\* read_manifests returns the contents of a valid slot or the empty manifest.
LEMMA ReadManifestsSource ==
  ASSUME NEW d \in DbImage
  PROVE  \/ ReadManifests(d) = EmptyManifest
         \/ \E i \in ValidSlots(d) : ReadManifests(d) = d.slot[i]
  <1>1. CASE ValidSlots(d) = {}
    BY <1>1 DEF ReadManifests
  <1>2. CASE ValidSlots(d) # {}
    <2>1. d.slot[0].revision \in Nat /\ d.slot[1].revision \in Nat
      BY DEF DbImage, Manifest
    <2>2. ValidSlots(d) \subseteq {0, 1}
      BY DEF ValidSlots
    <2>3. \E i \in ValidSlots(d) : \A j \in ValidSlots(d) : d.slot[j].revision <= d.slot[i].revision
      BY <1>2, <2>1, <2>2
    <2>4. Newest(d) \in ValidSlots(d)
      BY <2>3 DEF Newest
    <2> QED
      BY <1>2, <2>4 DEF ReadManifests
  <1> QED
    BY <1>1, <1>2

\* The manifest a recovery starts from has its type and describes data behind
\* the slots.
LEMMA ReadManifestsType ==
  ASSUME NEW d \in DbImage
  PROVE  LET m == ReadManifests(d)
         IN  /\ m \in Manifest
             /\ m.root >= DataStart /\ m.end >= m.root
             /\ m.phase = 2 /\ m.count # 0 => m.tail >= m.root
  <1>1. CASE ReadManifests(d) = EmptyManifest
    BY <1>1, ManifestTypes DEF EmptyManifest, EncodeManifest, DataStart
  <1>2. CASE \E i \in ValidSlots(d) : ReadManifests(d) = d.slot[i]
    <2>1. PICK i \in ValidSlots(d) : ReadManifests(d) = d.slot[i]
      BY <1>2
    <2>2. i \in {0, 1} /\ (RetentionManifest(d.slot[i], d.size) \/ CheckManifest(d.slot[i], d.size))
      BY DEF ValidSlots
    <2>3. d.slot[i] \in Manifest
      BY <2>2 DEF DbImage
    <2>4. CASE RetentionManifest(d.slot[i], d.size)
      BY <2>1, <2>3, <2>4 DEF RetentionManifest, Manifest, DataStart
    <2>5. CASE CheckManifest(d.slot[i], d.size)
      BY <2>1, <2>3, <2>5 DEF CheckManifest, Manifest, DataStart
    <2> QED
      BY <2>2, <2>4, <2>5
  <1> QED
    BY <1>1, <1>2, ReadManifestsSource

------------------------------------------------------------------------------
(* Storage operations and their outcomes keep images well formed. *)

\* A write whose units are contents.
LEMMA WriteCellsType ==
  ASSUME NEW d \in DbImage, NEW end \in Nat, NEW image,
         \A o \in Offsets : o \in DOMAIN image => image[o] \in Content
  PROVE  WriteCells(d, end, image) \in DbImage
  <1> DEFINE size == IF end > d.size THEN end ELSE d.size
             cell == [o \in Offsets |-> IF o \in DOMAIN image THEN image[o] ELSE d.cell[o]]
  <1>1. size \in Nat
    BY DEF DbImage
  <1>2. cell \in [Offsets -> Content]
    BY DEF DbImage
  <1> QED
    BY <1>1, <1>2 DEF WriteCells, DbImage

\* A manifest written to the slot of its revision.
LEMMA WriteSlotType ==
  ASSUME NEW d \in DbImage, NEW r \in Nat, NEW m \in Manifest
  PROVE  /\ WriteSlot(d, r, m) \in DbImage
         /\ \A i \in {0, 1} : WriteSlot(d, r, m).slot[i] \in {d.slot[i], m}
  <1>1. r % 2 \in {0, 1}
    OBVIOUS
  <1> QED
    BY <1>1 DEF WriteSlot, DbImage

\* A truncation leaves the slots alone.
LEMMA TruncateDbType ==
  ASSUME NEW d \in DbImage, NEW size \in Nat
  PROVE  TruncateDb(d, size) \in DbImage /\ TruncateDb(d, size).slot = d.slot
  <1>1. [o \in Offsets |-> IF o < size THEN d.cell[o] ELSE Junk] \in [Offsets -> Content]
    BY DEF DbImage, Content
  <1> QED
    BY <1>1 DEF TruncateDb, DbImage

\* What exists of an image is an image, with each slot kept or gone.
LEMMA SettleType ==
  ASSUME NEW d \in DbImage
  PROVE  /\ Settle(d) \in DbImage
         /\ \A i \in {0, 1} : Settle(d).slot[i] \in {d.slot[i], NoManifest}
  <1>1. CASE d.header # "valid"
    <2>1. d.header \in {"absent", "short", "valid"}
      BY DEF DbImage
    <2> QED
      BY <1>1, <2>1, NewFiles DEF Settle, BareDb, NoSlots
  <1>2. CASE d.header = "valid"
    <2> DEFINE slot == [i \in {0, 1} |-> IF d.size = 0 \/ (i = 1 /\ d.size < DataStart)
                                         THEN NoManifest ELSE d.slot[i]]
               t == TruncateDb(d, d.size)
    <2>1. t \in DbImage
      BY TruncateDbType DEF DbImage
    <2>2. slot \in [{0, 1} -> Manifest]
      BY ManifestTypes DEF DbImage
    <2>3. Settle(d) = [t EXCEPT !.slot = slot]
      BY <1>2 DEF Settle
    <2> HIDE DEF t
    <2> QED
      BY <2>1, <2>2, <2>3 DEF DbImage
  <1> QED
    BY <1>1, <1>2

\* Where a slot of an outcome can come from.
SlotsFrom(x, d, c) == \A i \in {0, 1} : x.slot[i] \in {d.slot[i], c.slot[i], NoManifest}

\* Whatever survives of a write is an image whose slots are old, new or torn.
LEMMA PartialWritesType ==
  ASSUME NEW d \in DbImage, NEW c \in DbImage, NEW x \in PartialWrites(d, c)
  PROVE  x \in DbImage /\ SlotsFrom(x, d, c)
  <1>1. PICK v \in Survivals(d, c) : x = Settle(Survivor(d, c, v))
    BY DEF PartialWrites
  <1> DEFINE y == Survivor(d, c, v)
  <1>2. v.header \in {"absent", "short", "valid"} /\ v.size \in Nat
    BY DEF Survivals, Torn, DbImage
  <1>3. /\ v.slot0 \in Manifest /\ v.slot0 \in {d.slot[0], c.slot[0], NoManifest}
        /\ v.slot1 \in Manifest /\ v.slot1 \in {d.slot[1], c.slot[1], NoManifest}
    BY ManifestTypes DEF Survivals, Torn, DbImage
  <1>4. y.cell \in [Offsets -> Content]
    BY DEF Survivor, DbImage, Content
  <1>5. y \in DbImage /\ y.slot[0] = v.slot0 /\ y.slot[1] = v.slot1
    BY <1>2, <1>3, <1>4 DEF Survivor, DbImage
  <1>6. Settle(y) \in DbImage /\ \A i \in {0, 1} : Settle(y).slot[i] \in {y.slot[i], NoManifest}
    BY <1>5, SettleType
  <1> QED
    BY <1>1, <1>3, <1>5, <1>6 DEF SlotsFrom

\* The same for every operation on the database file.
LEMMA DbOutcomesType ==
  ASSUME NEW d \in DbImage, NEW c \in DbImage, NEW x \in DbOutcomes(d, c)
  PROVE  x \in DbImage /\ SlotsFrom(x, d, c)
  <1>1. CASE c.size < d.size \/ c = d
    BY <1>1 DEF DbOutcomes, SlotsFrom
  <1>2. CASE ~(c.size < d.size \/ c = d)
    BY <1>2, PartialWritesType DEF DbOutcomes
  <1> QED
    BY <1>1, <1>2

\* A change of the last frame's state keeps the log well formed.
LEMMA LastFrameType ==
  ASSUME NEW w \in WalImage, NEW st \in {"short", "open", "full"}
  PROVE  /\ [w EXCEPT !.frames[Len(w.frames)].state = st] \in WalImage
         /\ LET x == [w EXCEPT !.frames[Len(w.frames)].state = st]
            IN  /\ Len(x.frames) = Len(w.frames)
                /\ w.frames # <<>> => x.frames # <<>> /\ x.frames[Len(x.frames)].batch
                                                      = w.frames[Len(w.frames)].batch
  <1> DEFINE n == Len(w.frames)
             f == w.frames
             g == [f EXCEPT ![n] = [f[n] EXCEPT !.state = st]]
  <1>1. f \in Seq(WalFrame) /\ n \in Nat /\ DOMAIN f = 1..n
    BY DEF WalImage
  <1>2. ASSUME n # 0 PROVE [f[n] EXCEPT !.state = st] \in WalFrame /\ [f[n] EXCEPT !.state = st].batch = f[n].batch
    <2>1. f[n] \in WalFrame
      BY <1>1, <1>2
    <2> QED
      BY <2>1 DEF WalFrame
  <1>3. g \in Seq(WalFrame) /\ Len(g) = n /\ (n # 0 => g[n].batch = f[n].batch)
    <2>1. CASE n = 0
      <3>1. g = f
        BY <1>1, <2>1
      <3> QED
        BY <1>1, <2>1, <3>1
    <2>2. CASE n # 0
      <3>1. n \in 1..n
        BY <1>1, <2>2
      <3>2. g \in Seq(WalFrame) /\ Len(g) = n
        BY <1>1, <1>2, <2>2, <3>1, ExceptSeq
      <3>3. g[n] = [f[n] EXCEPT !.state = st]
        BY <1>1, <3>1
      <3> QED
        BY <1>2, <2>2, <3>2, <3>3
    <2> QED
      BY <2>1, <2>2
  <1>4. [w EXCEPT !.frames[Len(w.frames)].state = st] = [w EXCEPT !.frames = g]
    BY DEF WalImage
  <1> HIDE DEF g
  <1>5. [w EXCEPT !.frames = g] \in WalImage /\ [w EXCEPT !.frames = g].frames = g
    BY <1>3 DEF WalImage
  <1>6. f # <<>> => n # 0 /\ g # <<>>
    BY <1>1, <1>3
  <1> QED
    BY <1>3, <1>4, <1>5, <1>6

\* Whatever survives of a write to the log is a log.
LEMMA WalOutcomesType ==
  ASSUME NEW d \in WalImage, NEW c \in WalImage
  PROVE  WalOutcomes(d, c) \subseteq WalImage
  BY NewFiles, LastFrameType DEF WalOutcomes

------------------------------------------------------------------------------
(* What a recovery computes. *)

\* The committed frames of a log are finitely many of its positions.
LEMMA FullFramesFinite ==
  ASSUME NEW w \in WalImage
  PROVE  /\ IsFiniteSet(FullFrames(w)) /\ Cardinality(FullFrames(w)) \in 0..Len(w.frames)
         /\ FullFrames(w) # {} => Cardinality(FullFrames(w)) \in 1..Len(w.frames)
         /\ FullFrames(w) = DOMAIN w.frames => Cardinality(FullFrames(w)) = Len(w.frames)
  <1>1. w.frames \in Seq(WalFrame) /\ Len(w.frames) \in Nat /\ DOMAIN w.frames = 1..Len(w.frames)
    BY DEF WalImage
  <1>2. IsFiniteSet(1..Len(w.frames)) /\ Cardinality(1..Len(w.frames)) = Len(w.frames)
    BY <1>1, FS_Interval
  <1>3. FullFrames(w) \subseteq 1..Len(w.frames)
    BY <1>1 DEF FullFrames
  <1>4. IsFiniteSet(FullFrames(w)) /\ Cardinality(FullFrames(w)) <= Len(w.frames)
    BY <1>2, <1>3, FS_Subset
  <1>5. Cardinality(FullFrames(w)) \in Nat
    BY <1>4, FS_CardinalityType
  <1>6. FullFrames(w) # {} => Cardinality(FullFrames(w)) # 0
    BY <1>4, FS_EmptySet
  <1> QED
    BY <1>1, <1>2, <1>4, <1>5, <1>6

\* Frames carry batches.
LEMMA WalBatchType ==
  ASSUME NEW w \in WalImage, NEW i \in 1..Len(w.frames)
  PROVE  w.frames[i].batch \in Batch /\ WalSeq(w, i) \in Nat /\ w.frames[i].batch.time \in Nat
  <1>1. w.frames[i] \in WalFrame
    BY DEF WalImage
  <1> QED
    BY <1>1 DEF WalFrame, Batch, WalSeq

\* The live count is a natural number.
LEMMA LiveBatchesType ==
  ASSUME NEW d, NEW m, m.last \in Nat, NEW starts
  PROVE  LiveBatches(d, m, starts) \in Nat
  <1> DEFINE S == {s \in 1..m.last : \E o \in starts : s >= d.cell[o].first /\ s <= d.cell[o].last}
  <1>1. IsFiniteSet(1..m.last)
    BY FS_Interval
  <1>2. IsFiniteSet(S)
    BY <1>1, FS_Subset
  <1> QED
    BY <1>2, FS_CardinalityType DEF LiveBatches

\* The sequence before the first frame of the log.
LEMMA WalBaseType ==
  ASSUME NEW w \in WalImage, NEW m \in Manifest
  PROVE  WalBase(w, m) \in Nat /\ LastSequence(w, m) \in Nat
  <1>1. m.last \in Nat
    BY DEF Manifest
  <1>2. ASSUME Stale(w, m) PROVE WalSeq(w, 1) - 1 \in Nat
    BY <1>1, <1>2 DEF Stale
  <1> QED
    BY <1>1, <1>2, FullFramesFinite DEF WalBase, LastSequence

\* Timestamps found in the log.
LEMMA RecoveredTimes ==
  ASSUME NEW w \in WalImage, NEW m \in Manifest
  PROVE  LastTime(w, m) \in Nat /\ LatestTime(w) \in Nat
  <1>1. m.time \in Nat
    BY DEF Manifest
  <1>2. LastTime(w, m) \in Nat
    BY <1>1, FullFramesFinite, WalBatchType DEF LastTime
  <1>3. LatestTime(w) \in Nat
    <2> DEFINE times == {w.frames[i].batch.time : i \in FullFrames(w)}
    <2>1. FullFrames(w) \subseteq 1..Len(w.frames)
      BY DEF FullFrames, WalImage
    <2>2. times \subseteq Nat
      BY <2>1, WalBatchType
    <2> QED
      BY <2>2 DEF LatestTime
  <1> QED
    BY <1>2, <1>3

\* The handle open builds has its type.
LEMMA RecoveredType ==
  ASSUME NEW d \in DbImage, NEW w \in WalImage
  PROVE  Recovered(d, w) \in Handle
  <1> DEFINE m == ReadManifests(d)
  <1>1. m \in Manifest
    BY ReadManifestsType
  <1>2. /\ m.end \in Nat /\ m.last \in Nat /\ m.count \in Nat /\ m.revision \in Nat
        /\ m.time \in Nat /\ m.tail \in Nat /\ (m.kind = "retain") \in BOOLEAN
    BY <1>1 DEF Manifest
  <1>3. LiveBatches(d, m, Segments(d, m)) \in Nat
    BY <1>2, LiveBatchesType
  <1>4. /\ LastSequence(w, m) \in Nat /\ LastTime(w, m) \in Nat /\ LatestTime(w) \in Nat
        /\ (IF Stale(w, m) THEN 0 ELSE Cardinality(FullFrames(w))) \in Nat
    BY <1>1, WalBaseType, RecoveredTimes, FullFramesFinite
  <1> HIDE DEF m
  <1>5. Recovered(d, w) =
        [open |-> FALSE, failed |-> FALSE,
         end |-> IF Stale(w, m) THEN 0 ELSE Cardinality(FullFrames(w)),
         sequence |-> LastSequence(w, m), dataEnd |-> m.end, installed |-> m.last,
         generation |-> m.count, revision |-> m.revision,
         live |-> LiveBatches(d, m, Segments(d, m)), retention |-> m.kind = "retain",
         lastTime |-> LastTime(w, m), installedTime |-> m.time, walMax |-> LatestTime(w),
         lastSegment |-> m.tail, legacy |-> d.size = 0]
    BY DEF Recovered, m
  <1> QED
    BY <1>2, <1>3, <1>4, <1>5 DEF Handle

\* A pair that opens has committed at least what it has installed: a stale log
\* is complete, so it ends exactly at the installed sequence.
LEMMA RecoveredOrder ==
  ASSUME NEW d \in DbImage, NEW w \in WalImage, Opens(d, w)
  PROVE  Recovered(d, w).installed <= Recovered(d, w).sequence
  <1> DEFINE m == ReadManifests(d)
  <1>1. m \in Manifest /\ m.last \in Nat
    BY ReadManifestsType DEF Manifest
  <1>2. WalOK(w, m)
    BY DEF Opens
  <1>3. m.last <= LastSequence(w, m)
    <2>1. CASE Stale(w, m)
      <3>1. FullFrames(w) = DOMAIN w.frames
        BY <1>2, <2>1 DEF WalOK, FullFrames
      <3> QED
        BY <1>1, <1>2, <2>1, <3>1, FullFramesFinite, WalBaseType DEF WalOK, LastSequence
    <2>2. CASE ~Stale(w, m)
      BY <1>1, <2>2, FullFramesFinite DEF LastSequence, WalBase
    <2> QED
      BY <2>1, <2>2
  <1> QED
    BY <1>3 DEF Recovered

------------------------------------------------------------------------------
(* What retention reads and copies. *)

\* The batches of a segment are batches.
LEMMA SegmentBatchesType ==
  ASSUME NEW d \in DbImage, NEW o
  PROVE  SegmentBatches(d, o) \subseteq Batch
  <1>1. \A x \in Body(d, o) : d.cell[x] \in Content
    BY DEF Body, Units, DbImage
  <1>2. \A c \in Content : c.kind = "frame" => c.batch \in Batch
    BY DEF Content, Junk, HeaderRest
  <1> QED
    BY <1>1, <1>2 DEF SegmentBatches, FrameOK

\* A read finds contents.
LEMMA UnitType ==
  ASSUME NEW d \in DbImage, NEW x
  PROVE  Unit(d, x) \in Content
  BY DEF Unit, DbImage, Content

\* The kept segments and their units are finitely many, so the copy behind
\* data_end has a size and its units positions.
LEMMA KeptFinite ==
  ASSUME NEW c
  PROVE  /\ Cardinality(Kept(c)) \in Nat /\ Cardinality(KeptUnits(c)) \in Nat
         /\ \A x : Cardinality({u \in KeptUnits(c) : u < x}) \in Nat
  <1>1. Kept(c) \subseteq Offsets
    BY DEF Kept, InstalledSegments, Segments
  <1>2. KeptUnits(c) \subseteq Offsets
    BY DEF KeptUnits, Units
  <1>3. \A S \in SUBSET Offsets : Cardinality(S) \in Nat
    BY OffsetsFinite, FS_Subset, FS_CardinalityType
  <1> QED
    BY <1>1, <1>2, <1>3

\* The image of the tail copy is made of contents.
LEMMA TailImageType ==
  ASSUME dbCache \in DbImage, NEW units
  PROVE  \A o \in DOMAIN TailImage(units) : TailImage(units)[o] \in Content
  BY UnitType DEF TailImage

------------------------------------------------------------------------------
(* The steps. *)

\* The counters and offsets of a handle are natural numbers.
LEMMA HandleFields ==
  ASSUME NEW x \in Handle
  PROVE  /\ x.end \in Nat /\ x.sequence \in Nat /\ x.dataEnd \in Nat /\ x.installed \in Nat
         /\ x.generation \in Nat /\ x.revision \in Nat /\ x.live \in Nat
         /\ x.lastTime \in Nat /\ x.installedTime \in Nat /\ x.walMax \in Nat
         /\ x.lastSegment \in Nat
  BY DEF Handle

\* A unit of a segment past its header holds one of its frames.
LEMMA BodyIndex ==
  ASSUME NEW a \in Nat, NEW n \in Nat, NEW o \in a..(a + 2 + n - 1), o # a, o # a + 1
  PROVE  o - a - 1 \in 1..n
  OBVIOUS

\* The segment a checkpoint writes is made of contents.
LEMMA SegmentImageType ==
  ASSUME h \in Handle, walCache \in WalImage, WalFramesOK
  PROVE  NewEnd \in Nat /\ \A o \in DOMAIN SegmentImage : SegmentImage[o] \in Content
  <1>1. h.dataEnd \in Nat /\ h.end \in Nat /\ h.installed \in Nat /\ h.sequence \in Nat /\ h.walMax \in Nat
    BY HandleFields
  <1>2. NewEnd = h.dataEnd + 2 + h.end
    BY DEF NewEnd, HeaderSize
  <1>3. \A i \in 1..h.end : walCache.frames[i].batch \in Batch
    <2>1. h.end <= Len(walCache.frames) /\ Len(walCache.frames) \in Nat
      BY <1>1 DEF WalFramesOK, WalImage
    <2> QED
      BY <1>1, <2>1, WalBatchType
  <1>4. ASSUME NEW o \in h.dataEnd..(NewEnd - 1) PROVE SegmentImage[o] \in Content
    <2>1. CASE o = h.dataEnd
      <3>1. SegmentImage[o] = Header(h.installed + 1, h.sequence, h.walMax)
        BY <2>1 DEF SegmentImage
      <3> QED
        BY <1>1, <3>1 DEF Header, Content
    <2>2. CASE o = h.dataEnd + 1
      <3>1. SegmentImage[o] = HeaderRest
        BY <1>1, <2>2 DEF SegmentImage
      <3> QED
        BY <3>1 DEF Content
    <2>3. CASE o # h.dataEnd /\ o # h.dataEnd + 1
      <3>1. o - h.dataEnd - 1 \in 1..h.end
        BY <1>1, <1>2, <2>3, BodyIndex
      <3>2. SegmentImage[o] = Frame(walCache.frames[o - h.dataEnd - 1].batch)
        BY <2>3 DEF SegmentImage
      <3> QED
        BY <1>3, <3>1, <3>2 DEF Frame, Content
    <2> QED
      BY <2>1, <2>2, <2>3
  <1>5. DOMAIN SegmentImage = h.dataEnd..(NewEnd - 1)
    BY DEF SegmentImage
  <1> QED
    BY <1>1, <1>2, <1>4, <1>5

\* The handle of no database.
LEMMA NoHandleType == NoHandle \in Handle /\ NoHandle.installed = 0 /\ NoHandle.sequence = 0
                      /\ NoHandle.dataEnd = DataStart
  BY DEF NoHandle, Handle, DataStart

\* No retention in progress.
LEMMA NoLocType == NoLoc \in Locals /\ NoLoc.root = DataStart /\ NoLoc.end = DataStart
                   /\ NoLoc.phase = 0
  BY DEF NoLoc, Locals, DataStart

\* Every start satisfies the invariant.
LEMMA TypeInvInit == Init => TypeInv
  <1> SUFFICES ASSUME Init PROVE TypeInv
    OBVIOUS
  <1>1. dbCache \in DbImage /\ walCache \in WalImage
    <2>1. PICK start \in Starts :
            /\ dbCache = CASE start = "empty"  -> NewDb
                           [] start = "legacy" -> LegacyDb
                           [] start = "absent" -> BareDb("absent")
            /\ walCache = NewWal(IF start = "absent" THEN "absent" ELSE "valid")
      BY DEF Init
    <2>2. start \in {"empty", "legacy", "absent"}
      BY StartsAssumption
    <2> QED
      BY <2>1, <2>2, NewFiles DEF LegacyDb
  <1>2. /\ dbDisk = dbCache /\ walDisk = walCache /\ h = NoHandle /\ pc = "closed" /\ loc = NoLoc
        /\ tries = 0 /\ faults = 0 /\ acked = {} /\ doom = {} /\ doomed = {}
    BY DEF Init
  <1>3. TypeOK
    BY <1>1, <1>2, NoHandleType, NoLocType DEF TypeOK, Pcs
  <1>4. HandleOK /\ LocalsOK /\ AppendOK
    BY <1>2, NoHandleType, NoLocType DEF HandleOK, LocalsOK, AppendOK, AppendPcs, DataStart
  <1> QED
    BY <1>3, <1>4 DEF TypeInv

\* open: creation, validation, provisioning and the end of the call.
LEMMA TypeInvOpen ==
  ASSUME TypeInv, OpenStart \/ OpenStep \/ Close
  PROVE  TypeInv'
  <1> USE DEF TypeInv, TypeOK, HandleOK, LocalsOK, AppendOK, AppendPcs, Pcs, Goto, counts, history, db, wal
  <1>1. CASE OpenStart
    BY <1>1 DEF OpenStart
  <1>2. CASE RefuseOrphanWal
    BY <1>2 DEF RefuseOrphanWal
  <1>3. CASE CreateDb
    BY <1>3, NewFiles DEF CreateDb
  <1>4. CASE CreateWal
    BY <1>4, NewFiles DEF CreateWal
  <1>5. CASE WriteDbHeader
    BY <1>5, NewFiles DEF WriteDbHeader
  <1>6. CASE WriteWalHeader
    BY <1>6, NewFiles DEF WriteWalHeader
  <1>7. CASE Reject
    BY <1>7 DEF Reject
  <1>8. CASE Validate
    <2> DEFINE m == ReadManifests(dbCache)
    <2>1. h' \in Handle /\ h'.installed <= h'.sequence /\ h'.dataEnd = m.end
      BY <1>8, RecoveredType, RecoveredOrder DEF Validate, Recovered
    <2>2. m \in Manifest /\ m.root >= DataStart /\ m.end >= m.root
          /\ (m.phase = 2 /\ m.count # 0 => m.tail >= m.root)
      BY ReadManifestsType
    <2>3. m.root \in Nat /\ m.end \in Nat /\ m.tail \in Nat /\ m.count \in Nat
          /\ m.revision \in Nat /\ m.phase \in 0..3
      BY <2>2 DEF Manifest, DataStart
    <2>4. loc' = [NoLoc EXCEPT !.revision = m.revision, !.count = m.count, !.end = m.end,
                               !.tail = m.tail, !.root = m.root, !.phase = m.phase]
      BY <1>8 DEF Validate
    <2> HIDE DEF m
    <2>5. loc' \in Locals /\ loc'.root = m.root /\ loc'.end = m.end /\ loc'.tail = m.tail
          /\ loc'.phase = m.phase /\ loc'.count = m.count
      BY <2>3, <2>4, NoLocType DEF Locals
    <2> QED
      BY <1>8, <2>1, <2>2, <2>3, <2>5 DEF Validate, DataStart
  <1>9. CASE ProvisionDb
    BY <1>9 DEF ProvisionDb
  <1>10. CASE ProvisionWal
    BY <1>10 DEF ProvisionWal, AfterProvision
  <1>11. CASE TrimWal
    <2>1. walCache.frames \in Seq(WalFrame) /\ h.end \in Nat /\ h.end < Len(walCache.frames)
      BY <1>11 DEF TrimWal, WalImage, Handle
    <2>2. SubSeq(walCache.frames, 1, h.end) \in Seq(WalFrame)
      BY <2>1
    <2>3. walCache' \in WalImage
      BY <1>11, <2>2 DEF TrimWal, WalImage
    <2> QED
      BY <1>11, <2>3 DEF TrimWal
  <1>12. CASE NothingToTrim
    BY <1>12 DEF NothingToTrim
  <1>13. CASE SyncTrim
    BY <1>13 DEF SyncTrim, SyncWal
  <1>14. CASE OpenReturn
    <2>1. /\ h' \in Handle /\ h'.installed = h.installed /\ h'.sequence = h.sequence
          /\ h'.dataEnd = loc.end
      BY <1>14 DEF OpenReturn, Handle, Locals
    <2>2. loc.end >= DataStart
      BY DEF Locals, DataStart
    <2> QED
      BY <1>14, <2>1, <2>2, NoLocType DEF OpenReturn, DataStart
  <1>15. CASE Close
    BY <1>15, NoHandleType DEF Close, DataStart
  <1> QED
    BY <1>1, <1>2, <1>3, <1>4, <1>5, <1>6, <1>7, <1>8, <1>9, <1>10, <1>11, <1>12, <1>13,
       <1>14, <1>15 DEF OpenStep


\* append: the frame, its commit record and the acknowledgement.
LEMMA TypeInvAppend ==
  ASSUME TypeInv, (\E t \in Times : AppendBatch(t)) \/ AppendStep
  PROVE  TypeInv'
  <1> USE DEF TypeInv, TypeOK, HandleOK, LocalsOK, AppendOK, AppendPcs, Pcs, Goto, counts, history, db, wal
  <1>1. ASSUME NEW t \in Times, AppendBatch(t) PROVE TypeInv'
    <2> DEFINE f == [batch |-> NextBatch(t), state |-> "open"]
    <2>1. f \in WalFrame /\ f.batch.seq = h.sequence + 1
      BY TimesAssumption DEF WalFrame, NextBatch, Batch, Handle
    <2>2. walCache.frames \in Seq(WalFrame)
      BY DEF WalImage
    <2>3. /\ Append(walCache.frames, f) \in Seq(WalFrame) /\ Append(walCache.frames, f) # <<>>
          /\ Append(walCache.frames, f)[Len(Append(walCache.frames, f))] = f
      BY <2>1, <2>2, AppendProperties
    <2>4. walCache' \in WalImage /\ walCache'.frames = Append(walCache.frames, f)
      BY <1>1, <2>3 DEF AppendBatch, WalImage
    <2>5. h' \in Handle /\ h'.sequence = h.sequence /\ h'.installed = h.installed /\ h'.dataEnd = h.dataEnd
      BY <1>1 DEF AppendBatch, Handle
    <2> HIDE DEF f
    <2> QED
      BY <1>1, <2>1, <2>3, <2>4, <2>5 DEF AppendBatch
  <1>2. CASE SyncBody
    BY <1>2 DEF SyncBody, SyncWal
  <1>3. CASE WriteCommit
    <2>1. walCache' \in WalImage /\ walCache'.frames # <<>>
          /\ walCache'.frames[Len(walCache'.frames)].batch = walCache.frames[Len(walCache.frames)].batch
      BY <1>3, LastFrameType DEF WriteCommit
    <2> QED
      BY <1>3, <2>1 DEF WriteCommit
  <1>4. CASE SyncCommit
    BY <1>4 DEF SyncCommit, SyncWal
  <1>5. CASE AppendReturn
    <2>1. walCache.frames # <<>> /\ Written.seq = h.sequence + 1
      BY <1>5 DEF AppendReturn, Written
    <2>2. Len(walCache.frames) \in 1..Len(walCache.frames)
      BY <2>1 DEF WalImage
    <2>3. Written \in Batch /\ Written.time \in Nat
      BY <2>2, WalBatchType DEF Written
    <2>4. /\ h' \in Handle /\ h'.sequence = h.sequence + 1 /\ h'.installed = h.installed
          /\ h'.dataEnd = h.dataEnd
      <3> DEFINE top == IF h.end = 0 \/ Written.time > h.walMax THEN Written.time ELSE h.walMax
      <3>1. top \in Nat /\ h.end + 1 \in Nat /\ h.sequence + 1 \in Nat
        BY SMTT(30), <2>3 DEF Handle
      <3>2. h' = [h EXCEPT !.failed = FALSE, !.end = h.end + 1, !.sequence = h.sequence + 1,
                           !.lastTime = Written.time, !.walMax = top]
        BY <1>5, <2>1 DEF AppendReturn, Handle
      <3> HIDE DEF top
      <3> QED
        BY <2>3, <3>1, <3>2 DEF Handle
    <2>5. h'.installed <= h'.sequence
      <3>1. h.installed <= h.sequence /\ h.installed \in Nat /\ h.sequence \in Nat
        BY HandleFields
      <3> QED
        BY <2>4, <3>1
    <2> QED
      BY <1>5, <2>3, <2>4, <2>5 DEF AppendReturn
  <1> QED
    BY <1>1, <1>2, <1>3, <1>4, <1>5 DEF AppendStep

\* The end of the database after the segment being written lies past its prefix.
LEMMA NewEndType ==
  ASSUME TypeInv
  PROVE  NewEnd \in Nat /\ NewEnd >= DataStart
  <1>1. h \in Handle /\ h.dataEnd >= DataStart
    BY DEF TypeInv, TypeOK, HandleOK
  <1>2. h.dataEnd \in Nat /\ h.end \in Nat
    BY <1>1, HandleFields
  <1>3. NewEnd = h.dataEnd + 2 + h.end
    BY DEF NewEnd, HeaderSize
  <1> QED
    BY <1>1, <1>2, <1>3 DEF DataStart

\* The manifest checkpoint publishes is a manifest.
LEMMA InstallRecordType ==
  ASSUME TypeInv
  PROVE  InstallRecord \in Manifest
  <1>1. h \in Handle
    BY DEF TypeInv, TypeOK
  <1> QED
    BY <1>1, NewEndType DEF InstallRecord, EncodeRetention, EncodeManifest, Manifest, Handle, HeaderSize, DataStart

\* checkpoint: the upgrade, the segment, the manifest and the reclaim.
LEMMA TypeInvCheckpoint ==
  ASSUME TypeInv, Checkpoint \/ CheckpointStep
  PROVE  TypeInv'
  <1> USE DEF TypeInv, TypeOK, HandleOK, LocalsOK, AppendOK, AppendPcs, Pcs, Goto, counts, history, db, wal
  <1>1. CASE Checkpoint
    <2>1. h' \in Handle /\ h'.sequence = h.sequence /\ h'.installed = h.installed /\ h'.dataEnd = h.dataEnd
      BY <1>1 DEF Checkpoint, Handle
    <2> QED
      BY <1>1, <2>1 DEF Checkpoint
  <1>2. CASE UpgradePrefix
    <2>1. dbCache' \in DbImage
      BY <1>2, NewFiles DEF UpgradePrefix, DbImage
    <2> QED
      BY <1>2, <2>1 DEF UpgradePrefix
  <1>3. CASE SyncUpgrade
    <2>1. h' \in Handle /\ h'.sequence = h.sequence /\ h'.installed = h.installed /\ h'.dataEnd = h.dataEnd
      BY <1>3 DEF SyncUpgrade, Handle
    <2> QED
      BY <1>3, <2>1 DEF SyncUpgrade, SyncDb
  <1>4. CASE WriteSegment
    <2>1. NewEnd \in Nat /\ \A o \in DOMAIN SegmentImage : SegmentImage[o] \in Content
      BY <1>4, SegmentImageType DEF WriteSegment
    <2>2. dbCache' \in DbImage
      BY <1>4, <2>1, WriteCellsType DEF WriteSegment
    <2> QED
      BY <1>4, <2>2 DEF WriteSegment
  <1>5. CASE SyncSegment
    BY <1>5 DEF SyncSegment, SyncDb
  <1>6. CASE WriteManifest
    <2>1. InstallRecord \in Manifest
      BY InstallRecordType
    <2>2. dbCache' \in DbImage
      BY <1>6, <2>1, WriteSlotType DEF WriteManifest, Handle
    <2> QED
      BY <1>6, <2>2 DEF WriteManifest
  <1>7. CASE SyncManifest
    <2>1. NewEnd \in Nat /\ NewEnd >= DataStart
      BY NewEndType
    <2>2. h.sequence - h.installed \in Nat
      BY DEF Handle
    <2>3. /\ h' \in Handle /\ h'.sequence = h.sequence /\ h'.installed = h.sequence
          /\ h'.dataEnd = NewEnd
      <3>1. h.generation + 1 \in Nat /\ h.revision + 1 \in Nat /\ h.live + (h.sequence - h.installed) \in Nat
        BY <2>2, HandleFields
      <3>2. h' = [h EXCEPT !.installedTime = h.lastTime, !.generation = h.generation + 1,
                           !.revision = h.revision + 1,
                           !.live = h.live + (h.sequence - h.installed),
                           !.dataEnd = NewEnd, !.lastSegment = h.dataEnd, !.installed = h.sequence]
        BY <1>7 DEF SyncManifest, Installed, Handle
      <3> QED
        BY <2>1, <3>1, <3>2 DEF Handle
    <2>4. h'.installed <= h'.sequence
      BY <2>3, HandleFields
    <2> QED
      BY <1>7, <2>1, <2>3, <2>4 DEF SyncManifest, SyncDb
  <1>8. CASE Reclaim
    BY <1>8, NewFiles DEF Reclaim
  <1>9. CASE SyncReclaim
    <2>1. h' \in Handle /\ h'.sequence = h.sequence /\ h'.installed = h.installed /\ h'.dataEnd = h.dataEnd
      BY <1>9 DEF SyncReclaim, Handle
    <2> QED
      BY <1>9, <2>1 DEF SyncReclaim, SyncWal
  <1> QED
    BY <1>1, <1>2, <1>3, <1>4, <1>5, <1>6, <1>7, <1>8, <1>9 DEF CheckpointStep


\* The locals of retention are natural numbers.
LEMMA LocalsFields ==
  ASSUME NEW x \in Locals
  PROVE  /\ x.revision \in Nat /\ x.count \in Nat /\ x.end \in Nat /\ x.tail \in Nat
         /\ x.root \in Nat /\ x.phase \in 0..3 /\ x.live \in Nat /\ x.cutoff \in Nat
  BY DEF Locals

\* The locals after a copy: the manifest to publish next.
Advanced(x, c, e, t, r, p) ==
  [x EXCEPT !.count = c, !.end = e, !.tail = t, !.root = r, !.phase = p]

\* expire_before: the scan that decides what goes.
LEMMA TypeInvExpire ==
  ASSUME TypeInv, NEW c \in Cutoffs, Expire(c)
  PROVE  TypeInv'
  <1>1. c \in Nat
    BY TimesAssumption
  <1>2. Entitled(c) \subseteq Batch
    BY SegmentBatchesType DEF Entitled, TypeInv, TypeOK
  <1>3. LiveBatches(dbCache, HandleManifest, Kept(c)) \in Nat
    <2>1. HandleManifest.last \in Nat
      BY HandleFields DEF HandleManifest, EncodeRetention, TypeInv, TypeOK
    <2> QED
      BY <2>1, LiveBatchesType
  <1>4. loc' \in Locals /\ loc'.root = DataStart /\ loc'.end = h.dataEnd /\ loc'.phase = 1
    BY <1>1, <1>3, HandleFields DEF Expire, Locals, TypeInv, TypeOK, DataStart
  <1>5. /\ h' \in Handle /\ h'.sequence = h.sequence /\ h'.installed = h.installed
        /\ h'.dataEnd = h.dataEnd
    BY DEF Expire, Handle, TypeInv, TypeOK
  <1>6. TypeOK'
    BY <1>2, <1>4, <1>5 DEF Expire, TypeInv, TypeOK, Pcs, db, wal, counts
  <1>7. HandleOK' /\ LocalsOK'
    BY <1>4, <1>5 DEF TypeInv, TypeOK, HandleOK, LocalsOK, DataStart
  <1>8. AppendOK'
    BY DEF Expire, AppendOK, AppendPcs
  <1> QED
    BY <1>6, <1>7, <1>8 DEF TypeInv

\* The filtered copy behind data_end.
LEMMA TypeInvCopyTail ==
  ASSUME TypeInv, CopyTail
  PROVE  TypeInv'
  <1> DEFINE kept  == Kept(loc.cutoff)
             units == KeptUnits(loc.cutoff)
             end   == h.dataEnd + Cardinality(units)
             tail  == IF kept = {} THEN 0 ELSE Packed(units, LastOf(kept))
  <1>1. /\ h.dataEnd \in Nat /\ Cardinality(kept) \in Nat /\ Cardinality(units) \in Nat
        /\ Cardinality({u \in units : u < LastOf(kept)}) \in Nat
    BY KeptFinite, HandleFields DEF TypeInv, TypeOK
  <1>2. end \in Nat /\ end >= h.dataEnd
    BY <1>1
  <1>3. kept # {} => tail \in Nat /\ tail >= h.dataEnd
    BY <1>1 DEF Packed
  <1>4. kept = {} => Cardinality(kept) = 0
    BY FS_EmptySet
  <1>5. tail \in Nat
    BY <1>3
  <1>6. dbCache' \in DbImage
    <2>1. dbCache' = WriteCells(dbCache, end, TailImage(units))
      BY DEF CopyTail
    <2>2. dbCache \in DbImage
      BY DEF TypeInv, TypeOK
    <2>3. \A o \in DOMAIN TailImage(units) : TailImage(units)[o] \in Content
      BY <2>2, TailImageType
    <2> HIDE DEF units, end
    <2> QED
      BY <1>2, <2>1, <2>2, <2>3, WriteCellsType
  <1>7. loc' = Advanced(loc, Cardinality(kept), end, tail, h.dataEnd, 2)
    BY DEF CopyTail, Advanced
  <1>8. loc \in Locals
    BY DEF TypeInv, TypeOK
  <1> HIDE DEF kept, units, end, tail
  <1>9. /\ loc' \in Locals /\ loc'.root = h.dataEnd /\ loc'.end = end /\ loc'.tail = tail
        /\ loc'.count = Cardinality(kept)
    <2>1. 2 \in 0..3
      OBVIOUS
    <2>2. Cardinality(kept) \in Nat /\ end \in Nat /\ tail \in Nat /\ h.dataEnd \in Nat
      BY <1>1, <1>2, <1>5
    <2>3. PICK c \in Nat, e \in Nat, t \in Nat, r \in Nat :
             c = Cardinality(kept) /\ e = end /\ t = tail /\ r = h.dataEnd
      BY <2>2
    <2>4. loc' = Advanced(loc, c, e, t, r, 2)
      BY <1>7, <2>3
    <2>5. /\ loc' \in Locals /\ loc'.root = r /\ loc'.end = e /\ loc'.tail = t
          /\ loc'.count = c
      <3>1. /\ loc'.root = r /\ loc'.end = e /\ loc'.tail = t /\ loc'.count = c
            /\ loc'.phase = 2
        BY <1>8, <2>4 DEF Advanced, Locals
      <3>2. loc' = [revision |-> loc.revision, count |-> c, end |-> e, tail |-> t,
                    root |-> r, phase |-> 2, live |-> loc.live, cutoff |-> loc.cutoff]
        BY <1>8, <2>4 DEF Advanced, Locals
      <3>3. loc.revision \in Nat /\ loc.live \in Nat /\ loc.cutoff \in Nat
        BY <1>8 DEF Locals
      <3>4. loc' \in Locals
        BY <3>2, <3>3 DEF Locals
      <3> QED
        BY <3>1, <3>4
    <2> QED
      BY <2>3, <2>5
  <1>10. TypeOK'
    BY <1>6, <1>9 DEF CopyTail, Goto, TypeInv, TypeOK, Pcs, wal, counts, history
  <1>11. LocalsOK'
    BY <1>2, <1>3, <1>4, <1>9 DEF LocalsOK, TypeInv, HandleOK
  <1>12. HandleOK' /\ AppendOK'
    BY DEF CopyTail, Goto, TypeInv, HandleOK, AppendOK, AppendPcs
  <1> QED
    BY <1>10, <1>11, <1>12 DEF TypeInv

\* The copy back to the front.
LEMMA TypeInvCopyFront ==
  ASSUME TypeInv, CopyFront
  PROVE  TypeInv'
  <1> DEFINE gap == loc.root - DataStart
             end == loc.end - gap
             image == [o \in DataStart..(end - 1) |-> Unit(dbCache, o + gap)]
  <1>1. /\ loc \in Locals /\ loc.root \in Nat /\ loc.end \in Nat /\ loc.tail \in Nat
        /\ loc.root >= 2 /\ loc.end >= loc.root /\ (loc.count # 0 => loc.tail >= loc.root)
    BY LocalsFields DEF CopyFront, TypeInv, TypeOK, LocalsOK, DataStart
  <1>2. gap \in Nat /\ end \in Nat /\ end >= 2
    BY <1>1 DEF DataStart
  <1>3. MovedTail(gap) \in Nat
    BY <1>1 DEF MovedTail, DataStart
  <1>4. dbCache' \in DbImage
    <2>1. dbCache' = WriteCells(dbCache, end, image)
      BY DEF CopyFront
    <2>2. dbCache \in DbImage
      BY DEF TypeInv, TypeOK
    <2>3. \A o \in DOMAIN image : image[o] \in Content
      BY <2>2, UnitType
    <2> HIDE DEF end, image
    <2> QED
      BY <1>2, <2>1, <2>2, <2>3, WriteCellsType
  <1>5. loc' = [loc EXCEPT !.end = end, !.tail = MovedTail(gap), !.root = DataStart, !.phase = 3]
    BY DEF CopyFront
  <1> HIDE DEF gap, end
  <1>6. loc' \in Locals /\ loc'.root = DataStart /\ loc'.end = end /\ loc'.phase = 3
    <2>1. 3 \in 0..3 /\ DataStart \in Nat /\ loc.count \in Nat
      BY <1>1, LocalsFields DEF DataStart
    <2>2. loc' = Advanced(loc, loc.count, end, MovedTail(gap), DataStart, 3)
      BY <1>1, <1>5 DEF Locals, Advanced
    <2>3. loc \in Locals /\ end \in Nat /\ MovedTail(gap) \in Nat
      BY <1>1, <1>2, <1>3
    <2>4. PICK e \in Nat, t \in Nat : e = end /\ t = MovedTail(gap)
      BY <2>3
    <2>5. loc' = Advanced(loc, loc.count, e, t, DataStart, 3)
      BY <2>2, <2>4
    <2>6. loc' \in Locals /\ loc'.root = DataStart /\ loc'.end = e /\ loc'.phase = 3
      BY <2>1, <2>3, <2>5 DEF Advanced, Locals, DataStart
    <2> QED
      BY <2>4, <2>6
  <1>7. TypeOK'
    BY <1>4, <1>6 DEF CopyFront, Goto, TypeInv, TypeOK, Pcs, wal, counts, history
  <1>8. LocalsOK'
    BY <1>2, <1>6 DEF LocalsOK, DataStart
  <1>9. HandleOK' /\ AppendOK'
    BY DEF CopyFront, Goto, TypeInv, HandleOK, AppendOK, AppendPcs
  <1> QED
    BY <1>7, <1>8, <1>9 DEF TypeInv

\* The other steps of retention.
LEMMA TypeInvRetention ==
  ASSUME TypeInv, RetentionStep
  PROVE  TypeInv'
  <1> USE DEF TypeInv, TypeOK, HandleOK, LocalsOK, AppendOK, AppendPcs, Pcs, Goto, counts, history, db, wal
  <1>1. CASE Publish
    <2>1. RetentionRecord \in Manifest /\ loc.revision + 1 \in Nat
      BY HandleFields, LocalsFields DEF RetentionRecord, EncodeRetention, Manifest
    <2>2. dbCache' \in DbImage
      BY <1>1, <2>1, WriteSlotType DEF Publish
    <2> QED
      BY <1>1, <2>2 DEF Publish
  <1>2. CASE SyncPublish
    <2>1. /\ loc' \in Locals /\ loc'.root = loc.root /\ loc'.end = loc.end /\ loc'.tail = loc.tail
          /\ loc'.phase = loc.phase /\ loc'.count = loc.count
      BY <1>2 DEF SyncPublish, Locals
    <2>2. AfterPublish \in {"copyTail", "finish", "trimDb", "expireReturn", "trimWal"}
      BY DEF AfterPublish
    <2> QED
      BY <1>2, <2>1, <2>2 DEF SyncPublish, SyncDb
  <1>3. CASE SyncCopy
    BY <1>3 DEF SyncCopy, SyncDb
  <1>4. CASE TrimDb
    <2>1. TrimSize \in Nat
      BY LocalsFields DEF TrimSize, DataStart
    <2>2. dbCache' \in DbImage
      BY <1>4, <2>1, TruncateDbType DEF TrimDb
    <2>3. /\ loc' \in Locals /\ loc'.root = loc.root /\ loc'.end = loc.end /\ loc'.phase = 0
      BY <1>4 DEF TrimDb, Locals
    <2> QED
      BY <1>4, <2>2, <2>3 DEF TrimDb
  <1>5. CASE SyncTrimDb
    BY <1>5 DEF SyncTrimDb, SyncDb
  <1>6. CASE ExpireReturn
    <2>1. /\ h' \in Handle /\ h'.sequence = h.sequence /\ h'.installed = h.installed
          /\ h'.dataEnd = loc.end
      BY <1>6, LocalsFields DEF ExpireReturn, Handle
    <2>2. loc.end >= DataStart
      BY LocalsFields DEF DataStart
    <2> QED
      BY <1>6, <2>1, <2>2, NoLocType DEF ExpireReturn, DataStart
  <1> QED
    BY <1>1, <1>2, <1>3, <1>4, <1>5, <1>6, TypeInvCopyTail, TypeInvCopyFront DEF RetentionStep

\* Errors and power failures.
LEMMA TypeInvFault ==
  ASSUME TypeInv, Fail \/ Crash
  PROVE  TypeInv'
  <1>0. BeforeWrite \in DbImage
    BY NewFiles DEF BeforeWrite, TypeInv, TypeOK
  <1>1. dbCache' \in DbImage /\ walCache' \in WalImage
    <2>1. CASE Fail
      BY <1>0, <2>1, DbOutcomesType, WalOutcomesType DEF Fail, FailedDb, FailedWal, TypeInv, TypeOK
    <2>2. CASE Crash
      BY <2>2, DbOutcomesType, WalOutcomesType DEF Crash, TypeInv, TypeOK
    <2> QED
      BY <2>1, <2>2
  <1>2. dbDisk' \in DbImage /\ walDisk' \in WalImage
    BY <1>1 DEF Fail, Crash, TypeInv, TypeOK
  <1>3. h' \in {h, NoHandle} /\ loc' = NoLoc /\ pc' \in {"open", "closed"}
    BY DEF Fail, Crash
  <1>4. faults' \in Nat /\ UNCHANGED <<tries, history>>
    BY DEF Fail, Crash, TypeInv, TypeOK
  <1>5. TypeOK'
    BY <1>1, <1>2, <1>3, <1>4, NoHandleType, NoLocType DEF TypeInv, TypeOK, Pcs, history
  <1>6. HandleOK' /\ LocalsOK' /\ AppendOK'
    BY <1>3, NoHandleType, NoLocType DEF TypeInv, HandleOK, LocalsOK, AppendOK, AppendPcs, DataStart
  <1> QED
    BY <1>5, <1>6 DEF TypeInv

\* Every step preserves the invariant.
LEMMA TypeInvStep == TypeInv /\ [Next]_vars => TypeInv'
  <1> SUFFICES ASSUME TypeInv, [Next]_vars PROVE TypeInv'
    OBVIOUS
  <1>1. CASE UNCHANGED vars
    BY <1>1 DEF vars, db, wal, counts, history, TypeInv, TypeOK, HandleOK, LocalsOK, AppendOK
  <1> QED
    BY <1>1, TypeInvOpen, TypeInvAppend, TypeInvCheckpoint, TypeInvExpire, TypeInvRetention,
       TypeInvFault DEF Next, CallStep

\* The strengthened type invariant holds in every reachable state.
LEMMA TypeInvAlways == Spec => []TypeInv
  BY TypeInvInit, TypeInvStep, PTL DEF Spec

\* Both images of both files stay well formed and every counter and offset of
\* the handle and of retention a natural number, through every interruption.
THEOREM TypeCorrect == Spec => []TypeOK
  <1>1. TypeInv => TypeOK
    BY DEF TypeInv
  <1> QED
    BY <1>1, TypeInvAlways, PTL

------------------------------------------------------------------------------
(* The reserve of manifest revisions.  The check that expire_before makes    *)
(* once, when it starts, is spent in four manifests; each of them may be the *)
(* one that survives, so each must carry what the rest of the sequence will  *)
(* cost.                                                                     *)

\* Revisions that must follow a manifest on disk: phases 1 and 3 are ended by
\* one manifest, but finish_retention asks for two; phase 2 is followed by the
\* manifest of phase 3 first.
Needed(p) == IF p = 2 THEN 3 ELSE 2

\* Revisions that must be left before a manifest of phase p is published.
Pending(p) == CASE p = 1 -> 5
                [] p = 2 -> 4
                [] OTHER -> 3

SlotReserve(m) == m.phase # 0 => m.revision + Needed(m.phase) <= MaxRevision
FileReserve(d) == \A i \in {0, 1} : SlotReserve(d.slot[i])

\* The manifest a recovery has read, and the one a call is about to publish.
LocReserve ==
    /\ pc \in {"provisionDb", "provisionWal", "finish"} /\ loc.phase # 0
          => loc.revision + Needed(loc.phase) <= MaxRevision
    /\ pc \in {"publish", "syncPublish", "syncCopy"} /\ loc.phase # 0
          => loc.revision + Pending(loc.phase) <= MaxRevision
    /\ pc = "copyTail" => loc.revision + 4 <= MaxRevision
    /\ pc = "syncTrimDb" => loc.phase = 0

ReserveInv == FileReserve(dbDisk) /\ FileReserve(dbCache) /\ LocReserve

------------------------------------------------------------------------------
(* Which slots a step can write. *)

\* A file whose slots are those of another, or torn, has the reserve if it has.
LEMMA SameSlots ==
  ASSUME NEW d, NEW x, FileReserve(d),
         \A i \in {0, 1} : x.slot[i] = d.slot[i] \/ x.slot[i] = NoManifest
  PROVE  FileReserve(x)
  <1>1. NoManifest.phase = 0
    BY DEF NoManifest, EmptyManifest, EncodeManifest
  <1> QED
    BY <1>1 DEF FileReserve, SlotReserve

\* The files open creates record no retention.
LEMMA NewFilesReserve ==
    /\ FileReserve(NewDb) /\ FileReserve([NewDb EXCEPT !.cell = dbCache.cell])
    /\ \A x : FileReserve(BareDb(x))
  <1>1. NoManifest.phase = 0 /\ EmptyManifest.phase = 0
    BY DEF NoManifest, EmptyManifest, EncodeManifest
  <1>2. \A x : FileReserve(BareDb(x))
    BY <1>1 DEF BareDb, NoSlots, FileReserve, SlotReserve
  <1>3. FileReserve(NewDb) /\ FileReserve([NewDb EXCEPT !.cell = dbCache.cell])
    BY <1>1 DEF NewDb, LegacyDb, BareDb, NoSlots, FileReserve, SlotReserve
  <1> QED
    BY <1>2, <1>3

\* Writes past the slots leave them alone.
LEMMA WriteCellsSlots ==
  ASSUME NEW d \in DbImage, NEW end, NEW image
  PROVE  WriteCells(d, end, image).slot = d.slot
  BY DEF WriteCells, DbImage

\* What survives of unsynced writes has the reserve if both images have.
LEMMA OutcomesReserve ==
  ASSUME NEW d \in DbImage, NEW c \in DbImage, FileReserve(d), FileReserve(c),
         NEW x \in DbOutcomes(d, c)
  PROVE  FileReserve(x)
  <1>1. SlotsFrom(x, d, c)
    BY DbOutcomesType
  <1>2. NoManifest.phase = 0
    BY DEF NoManifest, EmptyManifest, EncodeManifest
  <1> QED
    BY <1>1, <1>2 DEF SlotsFrom, FileReserve, SlotReserve

\* A manifest that has the reserve may be written to either slot.
LEMMA WriteSlotReserve ==
  ASSUME NEW d \in DbImage, NEW r \in Nat, NEW m \in Manifest, FileReserve(d), SlotReserve(m)
  PROVE  FileReserve(WriteSlot(d, r, m))
  BY WriteSlotType DEF FileReserve

\* So the manifest a reopen chooses has it.
LEMMA ReadReserve ==
  ASSUME NEW d \in DbImage, FileReserve(d)
  PROVE  SlotReserve(ReadManifests(d))
  <1>1. EmptyManifest.phase = 0
    BY DEF EmptyManifest, EncodeManifest
  <1>2. CASE ReadManifests(d) = EmptyManifest
    BY <1>1, <1>2 DEF SlotReserve
  <1>3. CASE \E i \in ValidSlots(d) : ReadManifests(d) = d.slot[i]
    BY <1>3 DEF FileReserve, ValidSlots
  <1> QED
    BY <1>2, <1>3, ReadManifestsSource

\* A sync makes the cached slots durable, or changes nothing.
LEMMA SyncReserve ==
  ASSUME FileReserve(dbDisk), FileReserve(dbCache), SyncDb
  PROVE  FileReserve(dbDisk') /\ FileReserve(dbCache')
  BY DEF SyncDb

------------------------------------------------------------------------------
(* The invariant holds initially and is preserved by every call. *)

\* No start has a retention in progress.
LEMMA ReserveInit == Init => ReserveInv
  <1> SUFFICES ASSUME Init PROVE ReserveInv
    OBVIOUS
  <1>1. FileReserve(dbCache)
    BY StartsAssumption, NewFilesReserve DEF Init, LegacyDb
  <1>2. FileReserve(dbDisk)
    BY <1>1 DEF Init
  <1>3. LocReserve
    BY DEF Init, LocReserve
  <1> QED
    BY <1>1, <1>2, <1>3 DEF ReserveInv

\* open hands the manifest it read to finish_retention.
LEMMA ReserveOpen ==
  ASSUME TypeInv, ReserveInv, OpenStart \/ OpenStep \/ Close
  PROVE  ReserveInv'
  <1> USE DEF ReserveInv, Goto, db, wal, counts
  <1>1. CASE OpenStart \/ RefuseOrphanWal \/ CreateWal \/ WriteWalHeader \/ Reject
             \/ TrimWal \/ NothingToTrim \/ OpenReturn \/ Close
    BY <1>1 DEF OpenStart, RefuseOrphanWal, CreateWal, WriteWalHeader, Reject, TrimWal,
                NothingToTrim, OpenReturn, Close, LocReserve
  <1>2. CASE SyncTrim
    BY <1>2 DEF SyncTrim, SyncWal, LocReserve
  <1>3. CASE CreateDb \/ WriteDbHeader
    BY <1>3, NewFilesReserve DEF CreateDb, WriteDbHeader, LocReserve
  <1>4. CASE Validate
    <2>1. SlotReserve(ReadManifests(dbCache))
      BY ReadReserve DEF TypeInv, TypeOK
    <2>2. loc'.revision = ReadManifests(dbCache).revision /\ loc'.phase = ReadManifests(dbCache).phase
      BY <1>4 DEF Validate, NoLoc
    <2> QED
      BY <1>4, <2>1, <2>2 DEF Validate, LocReserve, SlotReserve
  <1>5. CASE ProvisionDb
    BY <1>5 DEF ProvisionDb, LocReserve
  <1>6. CASE ProvisionWal
    BY <1>6 DEF ProvisionWal, AfterProvision, LocReserve
  <1> QED
    BY <1>1, <1>2, <1>3, <1>4, <1>5, <1>6 DEF OpenStep

\* append touches the log only.
LEMMA ReserveAppend ==
  ASSUME ReserveInv, (\E t \in Times : AppendBatch(t)) \/ AppendStep
  PROVE  ReserveInv'
  BY DEF ReserveInv, LocReserve, AppendBatch, AppendStep, SyncBody, WriteCommit, SyncCommit,
         AppendReturn, SyncWal, Goto, db

\* checkpoint writes a manifest without a phase.
LEMMA ReserveCheckpoint ==
  ASSUME TypeInv, ReserveInv, Checkpoint \/ CheckpointStep
  PROVE  ReserveInv'
  <1>1. LocReserve'
    BY DEF Checkpoint, CheckpointStep, UpgradePrefix, SyncUpgrade, WriteSegment, SyncSegment,
           WriteManifest, SyncManifest, Reclaim, SyncReclaim, Goto, LocReserve
  <1>2. CASE Checkpoint \/ Reclaim \/ SyncReclaim
    BY <1>1, <1>2 DEF Checkpoint, Reclaim, SyncReclaim, SyncWal, ReserveInv, db
  <1>3. CASE SyncUpgrade \/ SyncSegment \/ SyncManifest
    BY <1>1, <1>3, SyncReserve DEF SyncUpgrade, SyncSegment, SyncManifest, ReserveInv
  <1>4. CASE UpgradePrefix
    BY <1>1, <1>4, NewFilesReserve DEF UpgradePrefix, ReserveInv
  <1>5. CASE WriteSegment
    <2>1. dbCache'.slot = dbCache.slot
      BY <1>5, WriteCellsSlots DEF WriteSegment, TypeInv, TypeOK
    <2> QED
      BY <1>1, <1>5, <2>1, SameSlots DEF WriteSegment, ReserveInv
  <1>6. CASE WriteManifest
    <2>1. InstallRecord \in Manifest /\ InstallRecord.phase = 0
      BY InstallRecordType DEF InstallRecord, EncodeRetention, EncodeManifest
    <2>2. SlotReserve(InstallRecord) /\ h.revision + 1 \in Nat
      BY <2>1, HandleFields DEF SlotReserve, TypeInv, TypeOK
    <2>3. FileReserve(dbCache')
      BY <1>6, <2>1, <2>2, WriteSlotReserve DEF WriteManifest, ReserveInv, TypeInv, TypeOK
    <2> QED
      BY <1>1, <1>6, <2>3 DEF WriteManifest, ReserveInv
  <1> QED
    BY <1>2, <1>3, <1>4, <1>5, <1>6 DEF CheckpointStep

\* expire_before asks for five revisions before it commits to anything.
LEMMA ReserveExpire ==
  ASSUME TypeInv, ReserveInv, NEW c \in Cutoffs, Expire(c)
  PROVE  ReserveInv'
  BY DEF Expire, ExpireRoom, ReserveInv, LocReserve, Pending, db

\* Each manifest of retention leaves what its successors need.
LEMMA ReserveRetention ==
  ASSUME TypeInv, ReserveInv, RetentionStep
  PROVE  ReserveInv'
  <1>0. /\ loc \in Locals /\ loc.revision \in Nat /\ loc.phase \in 0..3 /\ MaxRevision \in Nat
        /\ dbCache \in DbImage
    BY LocalsFields, RevisionAssumption DEF TypeInv, TypeOK
  <1>1. CASE Publish
    <2>1. RetentionRecord \in Manifest /\ loc.revision + 1 \in Nat
      BY HandleFields, LocalsFields DEF RetentionRecord, EncodeRetention, Manifest, TypeInv, TypeOK
    <2>2. RetentionRecord.revision = loc.revision + 1 /\ RetentionRecord.phase = loc.phase
      BY DEF RetentionRecord, EncodeRetention
    <2>3. SlotReserve(RetentionRecord)
      BY <1>0, <1>1, <2>2 DEF Publish, Goto, ReserveInv, LocReserve, SlotReserve, Needed, Pending
    <2>4. FileReserve(dbCache')
      BY <1>0, <1>1, <2>1, <2>3, WriteSlotReserve DEF Publish, ReserveInv
    <2> QED
      BY <1>1, <2>4 DEF Publish, Goto, ReserveInv, LocReserve
  <1>2. CASE SyncPublish
    <2>1. loc'.revision = loc.revision + 1 /\ loc'.phase = loc.phase
      BY <1>0, <1>2 DEF SyncPublish, Locals
    <2>2. LocReserve'
      BY <1>0, <1>2, <2>1 DEF SyncPublish, AfterPublish, Goto, ReserveInv, LocReserve, Needed, Pending
    <2> QED
      BY <1>2, <2>2, SyncReserve DEF SyncPublish, ReserveInv
  <1>3. CASE CopyTail
    <2>1. loc'.revision = loc.revision /\ loc'.phase = 2
      BY <1>0, <1>3 DEF CopyTail, Locals
    <2>2. dbCache'.slot = dbCache.slot
      BY <1>0, <1>3, WriteCellsSlots DEF CopyTail
    <2>3. LocReserve'
      BY <1>0, <1>3, <2>1 DEF CopyTail, Goto, ReserveInv, LocReserve, Pending
    <2> QED
      BY <1>3, <2>2, <2>3, SameSlots DEF CopyTail, ReserveInv
  <1>4. CASE SyncCopy
    BY <1>4, SyncReserve DEF SyncCopy, Goto, ReserveInv, LocReserve
  <1>5. CASE CopyFront
    <2>1. loc'.revision = loc.revision /\ loc'.phase = 3 /\ loc.phase = 2
      BY <1>0, <1>5 DEF CopyFront, Locals
    <2>2. dbCache'.slot = dbCache.slot
      BY <1>0, <1>5, WriteCellsSlots DEF CopyFront
    <2>3. LocReserve'
      BY <1>0, <1>5, <2>1 DEF CopyFront, Goto, ReserveInv, LocReserve, Needed, Pending
    <2> QED
      BY <1>5, <2>2, <2>3, SameSlots DEF CopyFront, ReserveInv
  <1>6. CASE TrimDb
    <2>1. dbCache'.slot = dbCache.slot
      BY <1>0, <1>6 DEF TrimDb, TruncateDb, DbImage
    <2>2. LocReserve'
      BY <1>0, <1>6 DEF TrimDb, LocReserve, Locals
    <2> QED
      BY <1>6, <2>1, <2>2, SameSlots DEF TrimDb, ReserveInv
  <1>7. CASE SyncTrimDb
    BY <1>7, SyncReserve DEF SyncTrimDb, Goto, ReserveInv, LocReserve
  <1>8. CASE ExpireReturn
    BY <1>8 DEF ExpireReturn, Goto, ReserveInv, LocReserve, db
  <1> QED
    BY <1>1, <1>2, <1>3, <1>4, <1>5, <1>6, <1>7, <1>8 DEF RetentionStep

\* A torn slot records no phase, a surviving one is one of the two it could be.
LEMMA ReserveFault ==
  ASSUME TypeInv, ReserveInv, Fail \/ Crash
  PROVE  ReserveInv'
  <1>0. BeforeWrite \in DbImage /\ FileReserve(BeforeWrite)
    BY NewFiles, NewFilesReserve DEF BeforeWrite, ReserveInv, TypeInv, TypeOK
  <1>1. FileReserve(dbCache')
    <2>1. CASE Fail
      BY <1>0, <2>1, OutcomesReserve DEF Fail, FailedDb, ReserveInv, TypeInv, TypeOK
    <2>2. CASE Crash
      BY <2>2, OutcomesReserve DEF Crash, ReserveInv, TypeInv, TypeOK
    <2> QED
      BY <2>1, <2>2
  <1>2. FileReserve(dbDisk')
    BY <1>1 DEF Fail, Crash, ReserveInv
  <1>3. LocReserve'
    BY DEF Fail, Crash, LocReserve
  <1> QED
    BY <1>1, <1>2, <1>3 DEF ReserveInv

\* Every step preserves the reserve.
LEMMA ReserveStep == TypeInv /\ ReserveInv /\ [Next]_vars => ReserveInv'
  <1> SUFFICES ASSUME TypeInv, ReserveInv, [Next]_vars PROVE ReserveInv'
    OBVIOUS
  <1>1. CASE UNCHANGED vars
    BY <1>1 DEF vars, db, ReserveInv, LocReserve
  <1> QED
    BY <1>1, ReserveOpen, ReserveAppend, ReserveCheckpoint, ReserveExpire, ReserveRetention,
       ReserveFault DEF Next, CallStep

\* An expiry that expire_before lets start can be finished by any later open,
\* wherever it was interrupted: the manifest that open would choose leaves the
\* two revisions finish_retention asks for.
THEOREM ReserveHolds == Spec => []RevisionReserve
  <1>1. TypeInv /\ ReserveInv => RevisionReserve
    <2> SUFFICES ASSUME TypeInv, ReserveInv, NEW d \in {dbDisk, dbCache}, ReadManifests(d).phase # 0
                 PROVE  ReadManifests(d).revision + 2 <= MaxRevision
      BY DEF RevisionReserve
    <2>1. d \in DbImage /\ FileReserve(d)
      BY DEF TypeInv, TypeOK, ReserveInv
    <2>2. ReadManifests(d).revision \in Nat
      BY <2>1, ReadManifestsType DEF Manifest
    <2> QED
      BY <2>1, <2>2, ReadReserve, RevisionAssumption DEF SlotReserve, Needed
  <1> QED
    BY <1>1, TypeInvAlways, ReserveInit, ReserveStep, PTL DEF Spec

------------------------------------------------------------------------------
(***************************************************************************)
(* What a manifest's segments hold, and what copying, moving, packing and  *)
(* extending them does: facts about the operators of PairFormat for every  *)
(* image of a database file.  A layout is the walk of check_segments as a  *)
(* function; sets of naturals take the place of induction (see UpTo).      *)
(***************************************************************************)

\* Every non-empty set of natural numbers has a least element.
LEMMA LeastNat ==
  ASSUME NEW T, T \subseteq Nat, T # {}
  PROVE  \E x \in T : \A y \in T : x <= y
  <1>1. PICK x \in T : \A y \in T : ~ (<<y, x>> \in OpToRel(<, Nat))
    BY NatLessThanWellFounded, WFMin, Zenon
  <1>2. \A y \in T : ~ (y < x)
    BY <1>1 DEF OpToRel
  <1> QED
    BY <1>2

\* A set that holds 0 and the successor of each of its members below n holds
\* every number up to n.
LEMMA UpTo ==
  ASSUME NEW n \in Nat, NEW T, 0 \in T, \A k \in 0..(n - 1) : k \in T => k + 1 \in T
  PROVE  \A k \in 0..n : k \in T
  <1> DEFINE U == {k \in 0..n : k \notin T}
  <1>1. SUFFICES ASSUME U # {} PROVE FALSE
    OBVIOUS
  <1>2. U \subseteq Nat
    OBVIOUS
  <1>3. PICK x \in U : \A y \in U : x <= y
    BY <1>1, <1>2, LeastNat
  <1>4. x # 0 /\ x - 1 \in 0..(n - 1) /\ x - 1 \notin U
    BY <1>3
  <1>5. x - 1 \in T
    BY <1>4
  <1> QED
    BY <1>3, <1>4, <1>5

------------------------------------------------------------------------------
(* The walk over the segments of a manifest. *)

\* The segments a manifest lists are whole: every frame is there, and the
\* header's latest timestamp is the latest of its batches.
SegmentGood(d, o, m) ==
    /\ FramesOK(d, o)
    /\ d.cell[o].last <= m.last
    /\ \E b \in SegmentBatches(d, o) : b.time = d.cell[o].max
    /\ \A b \in SegmentBatches(d, o) : b.time <= d.cell[o].max

\* f lays the segments of m out from its root to its end, one behind the other
\* and in the order of their sequences.
Laid(d, m, f) ==
    /\ f \in [0..m.count -> m.root..m.end]
    /\ f[0] = m.root /\ f[m.count] = m.end
    /\ \A k \in 0..(m.count - 1) :
          /\ SegmentOK(d, f[k], m.end) /\ f[k + 1] = f[k] + SegmentSize(d, f[k])
          /\ SegmentGood(d, f[k], m)
    /\ \A j, k \in 0..(m.count - 1) : j < k => /\ f[j] + SegmentSize(d, f[j]) <= f[k]
                                              /\ d.cell[f[j]].last < d.cell[f[k]].first

Whole(d, m) == Laid(d, m, Walk(d, m.root, m.count, m.end))
Data(d, m) == UNION {SegmentBatches(d, o) : o \in Segments(d, m)}

\* The fields of a manifest that the walk reads are in range.
Bounds(m) ==
    /\ m.root \in Nat /\ m.count \in Nat /\ m.end \in Nat /\ m.last \in Nat
    /\ DataStart <= m.root /\ m.root <= m.end /\ m.end <= DbCapacity

\* One step of the walk.
Successor(d, end, o) == IF o # 0 /\ SegmentOK(d, o, end) THEN o + SegmentSize(d, o) ELSE 0

\* The walk is the only function that starts at the root and goes from segment
\* to segment.
LEMMA WalkIs ==
  ASSUME NEW d, NEW root, NEW count \in Nat, NEW end, NEW f,
         DOMAIN f = 0..count, f = [k \in DOMAIN f |-> f[k]], f[0] = root,
         \A k \in 0..(count - 1) : f[k + 1] = Successor(d, end, f[k])
  PROVE  Walk(d, root, count, end) = f
  <1> DEFINE Rec(g) == g = [k \in 0..count |-> IF k = 0 THEN root ELSE Successor(d, end, g[k - 1])]
  <1>1. Walk(d, root, count, end) = CHOOSE g : Rec(g)
    BY DEF Walk, Successor
  <1>2. Rec(f)
    <2>1. \A k \in 0..count : k # 0 => k - 1 \in 0..(count - 1) /\ (k - 1) + 1 = k
      OBVIOUS
    <2>2. \A k \in 0..count : k # 0 => f[k] = Successor(d, end, f[k - 1])
      BY <2>1
    <2> QED
      BY <2>2
  <1>3. ASSUME NEW g, Rec(g) PROVE g = f
    <2> DEFINE T == {k \in 0..count : g[k] = f[k]}
    <2>1. 0 \in T
      BY <1>3
    <2>2. ASSUME NEW k \in 0..(count - 1), k \in T PROVE k + 1 \in T
      <3>1. k + 1 \in 0..count /\ k + 1 # 0 /\ (k + 1) - 1 = k
        OBVIOUS
      <3>2. g[k + 1] = Successor(d, end, g[k])
        BY <1>3, <3>1
      <3> QED
        BY <2>2, <3>1, <3>2
    <2>3. \A k \in 0..count : k \in T
      <3> HIDE DEF T
      <3> QED
        BY <2>1, <2>2, UpTo
    <2>4. \A k \in 0..count : g[k] = f[k]
      BY <2>3
    <2> QED
      BY <1>3, <2>4
  <1> HIDE DEF Rec
  <1> QED
    BY <1>1, <1>2, <1>3

\* A header has natural fields.
LEMMA HeaderFields ==
  ASSUME NEW d \in DbImage, NEW o \in Offsets, d.cell[o].kind = "header"
  PROVE  d.cell[o].first \in Nat /\ d.cell[o].last \in Nat /\ d.cell[o].max \in Nat
  <1>1. d.cell[o] \in Content
    BY DEF DbImage
  <1> QED
    BY <1>1 DEF Content, Junk, HeaderRest

\* What read_segment accepts: a header with natural fields and at least one
\* frame, the last of them before the end.
LEMMA SegmentFields ==
  ASSUME NEW d \in DbImage, NEW o \in Nat, NEW end \in Nat, o >= DataStart, end <= DbCapacity,
         SegmentOK(d, o, end)
  PROVE  /\ o \in Offsets /\ d.cell[o].first \in Nat /\ d.cell[o].last \in Nat
         /\ d.cell[o].max \in Nat
         /\ d.cell[o].first >= 1 /\ d.cell[o].first <= d.cell[o].last
         /\ SegmentSize(d, o) \in Nat /\ SegmentSize(d, o) >= 3
         /\ SegmentSize(d, o) = 3 + (d.cell[o].last - d.cell[o].first)
         /\ o + SegmentSize(d, o) <= end
  <1>1. o + 2 <= end /\ DbCapacity \in Nat
    BY CapacityAssumption DEF SegmentOK, HeaderSize
  <1>2. o \in Offsets
    BY <1>1 DEF Offsets, DataStart
  <1>3. d.cell[o].kind = "header"
    BY DEF SegmentOK
  <1>4. d.cell[o].first \in Nat /\ d.cell[o].last \in Nat /\ d.cell[o].max \in Nat
    BY <1>2, <1>3, HeaderFields
  <1>5. /\ d.cell[o].first # 0 /\ d.cell[o].first <= d.cell[o].last
        /\ o + 2 + (d.cell[o].last - d.cell[o].first) < end
    BY DEF SegmentOK, HeaderSize
  <1>6. SegmentSize(d, o) = 2 + (d.cell[o].last - d.cell[o].first + 1)
    BY DEF SegmentSize, HeaderSize
  <1> QED
    BY <1>2, <1>4, <1>5, <1>6

\* The units behind the header of a segment.
LEMMA BodyIs ==
  ASSUME NEW d \in DbImage, NEW o \in Nat, NEW end \in Nat, o >= DataStart, end <= DbCapacity,
         SegmentOK(d, o, end)
  PROVE  Body(d, o) = (o + 2)..(o + SegmentSize(d, o) - 1)
  <1>1. /\ SegmentSize(d, o) \in Nat /\ SegmentSize(d, o) >= 3 /\ o + SegmentSize(d, o) <= end
    BY SegmentFields
  <1>2. DbCapacity \in Nat
    BY CapacityAssumption
  <1>3. PICK n \in Nat : n = SegmentSize(d, o)
    BY <1>1
  <1>4. Body(d, o) = {x \in Offsets : x >= o + 2 /\ x < o + n}
    BY <1>3 DEF Body, Units, HeaderSize, Offsets, DataStart
  <1>5. PICK cap \in Nat : cap = DbCapacity
    BY <1>2
  <1>6. {x \in 2..(cap - 1) : x >= o + 2 /\ x < o + n} = (o + 2)..(o + n - 1)
    BY <1>1, <1>3, <1>5 DEF DataStart
  <1> QED
    BY <1>3, <1>4, <1>5, <1>6 DEF Offsets, DataStart

\* A segment copied unit by unit, to another place of another file perhaps, is
\* the same segment.
LEMMA SegmentMoved ==
  ASSUME NEW d \in DbImage, NEW c \in DbImage, NEW o \in Nat, NEW p \in Nat,
         NEW end \in Nat, NEW end2 \in Nat, o >= DataStart, p >= DataStart,
         end <= DbCapacity, end2 <= DbCapacity, SegmentOK(d, o, end),
         p + SegmentSize(d, o) <= end2,
         \A i \in 0..(SegmentSize(d, o) - 1) : c.cell[p + i] = d.cell[o + i]
  PROVE  /\ SegmentOK(c, p, end2) /\ SegmentSize(c, p) = SegmentSize(d, o)
         /\ c.cell[p] = d.cell[o]
         /\ SegmentBatches(c, p) = SegmentBatches(d, o)
         /\ FramesOK(d, o) => FramesOK(c, p)
  <1>0. PICK n \in Nat : n = SegmentSize(d, o)
    BY SegmentFields
  <1>1. /\ n >= 3 /\ d.cell[o].first \in Nat /\ d.cell[o].last \in Nat
        /\ d.cell[o].first >= 1 /\ d.cell[o].first <= d.cell[o].last
        /\ n = 3 + (d.cell[o].last - d.cell[o].first)
    BY <1>0, SegmentFields
  <1>2. c.cell[p] = d.cell[o] /\ c.cell[p + 1] = d.cell[o + 1]
    <2>1. 0 \in 0..(n - 1) /\ 1 \in 0..(n - 1)
      BY <1>1
    <2>2. c.cell[p + 0] = d.cell[o + 0] /\ c.cell[p + 1] = d.cell[o + 1]
      BY <1>0, <2>1
    <2> QED
      BY <2>2
  <1>3. SegmentSize(c, p) = n
    BY <1>0, <1>2 DEF SegmentSize
  <1>4. SegmentOK(c, p, end2)
    <2>1. p + n <= end2
      BY <1>0
    <2> QED
      BY <1>1, <1>2, <2>1 DEF SegmentOK, HeaderSize
  <1>5. Body(c, p) = (p + 2)..(p + n - 1)
    BY <1>3, <1>4, BodyIs
  <1>6. Body(d, o) = (o + 2)..(o + n - 1)
    BY <1>0, BodyIs
  <1>7. \A i \in 0..(n - 1) : c.cell[p + i] = d.cell[o + i]
    BY <1>0
  <1>8. ASSUME NEW x \in (o + 2)..(o + n - 1)
        PROVE  /\ x - o + p \in Body(c, p) /\ c.cell[x - o + p] = d.cell[x]
               /\ FrameOK(c, p, x - o + p) <=> FrameOK(d, o, x)
    <2>1. x \in Nat /\ x - o \in 0..(n - 1) /\ p + (x - o) = x - o + p /\ o + (x - o) = x
      BY <1>1
    <2>2. c.cell[x - o + p] = d.cell[x]
      BY <1>7, <2>1
    <2>3. x - o + p \in Body(c, p)
      <3>1. x - o + p \in (p + 2)..(p + n - 1)
        BY <1>1
      <3> QED
        BY <1>5, <3>1
    <2>4. (x - o + p) - p - 2 = x - o - 2
      BY <2>1
    <2> QED
      BY <1>2, <2>2, <2>3, <2>4 DEF FrameOK, HeaderSize
  <1>9. \A y \in (p + 2)..(p + n - 1) : y - p + o \in (o + 2)..(o + n - 1) /\ (y - p + o) - o + p = y
    BY <1>1
  <1>10. SegmentBatches(c, p) = SegmentBatches(d, o)
    <2>1. ASSUME NEW b \in SegmentBatches(d, o) PROVE b \in SegmentBatches(c, p)
      <3>1. PICK x \in Body(d, o) : FrameOK(d, o, x) /\ b = d.cell[x].batch
        BY <2>1 DEF SegmentBatches
      <3> QED
        BY <1>6, <1>8, <3>1 DEF SegmentBatches
    <2>2. ASSUME NEW b \in SegmentBatches(c, p) PROVE b \in SegmentBatches(d, o)
      <3>1. PICK y \in Body(c, p) : FrameOK(c, p, y) /\ b = c.cell[y].batch
        BY <2>2 DEF SegmentBatches
      <3>2. PICK x \in Body(d, o) : x - o + p = y
        BY <1>5, <1>6, <1>9
      <3>3. FrameOK(d, o, x) /\ b = d.cell[x].batch
        BY <1>6, <1>8, <3>1, <3>2
      <3> QED
        BY <3>3 DEF SegmentBatches
    <2> QED
      BY <2>1, <2>2
  <1>11. FramesOK(d, o) => FramesOK(c, p)
    BY <1>5, <1>6, <1>8, <1>9 DEF FramesOK
  <1> QED
    BY <1>2, <1>3, <1>4, <1>10, <1>11, <1>0

\* The k-th segment of a layout.
LEMMA LaidSegment ==
  ASSUME NEW d \in DbImage, NEW m, Bounds(m), NEW f, Laid(d, m, f), NEW k \in 0..(m.count - 1)
  PROVE  /\ f[k] \in Nat /\ f[k] >= m.root /\ f[k] >= DataStart /\ f[k] \in Offsets
         /\ SegmentOK(d, f[k], m.end) /\ SegmentGood(d, f[k], m)
         /\ d.cell[f[k]].first \in Nat /\ d.cell[f[k]].last \in Nat /\ d.cell[f[k]].max \in Nat
         /\ d.cell[f[k]].first >= 1 /\ d.cell[f[k]].first <= d.cell[f[k]].last
         /\ d.cell[f[k]].last <= m.last
         /\ SegmentSize(d, f[k]) \in Nat /\ SegmentSize(d, f[k]) >= 3
         /\ f[k + 1] = f[k] + SegmentSize(d, f[k]) /\ f[k] + SegmentSize(d, f[k]) <= m.end
  <1>1. m.root \in Nat /\ m.end \in Nat /\ m.count \in Nat /\ DataStart <= m.root /\ m.end <= DbCapacity
    BY DEF Bounds
  <1>2. k \in 0..m.count
    BY <1>1
  <1>3. f[k] \in m.root..m.end
    BY <1>2 DEF Laid
  <1>4. f[k] \in Nat /\ f[k] >= m.root /\ f[k] >= DataStart
    BY <1>1, <1>3 DEF DataStart
  <1>5. SegmentOK(d, f[k], m.end) /\ SegmentGood(d, f[k], m) /\ f[k + 1] = f[k] + SegmentSize(d, f[k])
    BY DEF Laid
  <1> QED
    BY <1>1, <1>4, <1>5, SegmentFields DEF SegmentGood

\* A layout is the walk, so its segments are the ones the manifest lists.
LEMMA LaidWhole ==
  ASSUME NEW d \in DbImage, NEW m, Bounds(m), NEW f, Laid(d, m, f)
  PROVE  /\ Walk(d, m.root, m.count, m.end) = f
         /\ Whole(d, m)
         /\ Segments(d, m) = {f[k] : k \in 0..(m.count - 1)}
         /\ Data(d, m) = UNION {SegmentBatches(d, f[k]) : k \in 0..(m.count - 1)}
  <1>1. m.count \in Nat
    BY DEF Bounds
  <1>2. Walk(d, m.root, m.count, m.end) = f
    <2>1. DOMAIN f = 0..m.count /\ f = [k \in DOMAIN f |-> f[k]] /\ f[0] = m.root
      BY DEF Laid
    <2>2. ASSUME NEW k \in 0..(m.count - 1) PROVE f[k + 1] = Successor(d, m.end, f[k])
      <3>1. f[k] \in Nat /\ f[k] >= 2 /\ SegmentOK(d, f[k], m.end) /\ f[k + 1] = f[k] + SegmentSize(d, f[k])
        BY LaidSegment DEF DataStart
      <3>2. f[k] # 0
        BY <3>1
      <3> QED
        BY <3>1, <3>2 DEF Successor
    <2> QED
      BY <1>1, <2>1, <2>2, WalkIs
  <1>3. Segments(d, m) = {f[k] : k \in 0..(m.count - 1)}
    <2>1. Segments(d, m) = {o \in Offsets : SegmentOK(d, o, m.end) /\ \E k \in 0..(m.count - 1) : f[k] = o}
      BY <1>2 DEF Segments
    <2>2. \A k \in 0..(m.count - 1) : f[k] \in Offsets /\ SegmentOK(d, f[k], m.end)
      BY LaidSegment
    <2> QED
      BY <2>1, <2>2
  <1> QED
    BY <1>2, <1>3 DEF Whole, Data

\* What of a segment survives a move.
LEMMA GoodMoved ==
  ASSUME NEW d \in DbImage, NEW c \in DbImage, NEW o \in Nat, NEW p \in Nat,
         NEW end \in Nat, NEW end2 \in Nat, o >= DataStart, p >= DataStart,
         end <= DbCapacity, end2 <= DbCapacity, SegmentOK(d, o, end),
         p + SegmentSize(d, o) <= end2,
         \A i \in 0..(SegmentSize(d, o) - 1) : c.cell[p + i] = d.cell[o + i],
         NEW m, NEW m2, SegmentGood(d, o, m), d.cell[o].last <= m2.last
  PROVE  SegmentGood(c, p, m2)
  <1>1. /\ c.cell[p] = d.cell[o] /\ SegmentBatches(c, p) = SegmentBatches(d, o)
        /\ FramesOK(d, o) => FramesOK(c, p)
    BY SegmentMoved
  <1> QED
    BY <1>1 DEF SegmentGood

\* A layout moved towards the front of the file.
Shifted(f, n, gap) == [k \in 0..n |-> f[k] - gap]

\* Segments copied together, by the same distance, are still laid out.
LEMMA LaidShift ==
  ASSUME NEW d \in DbImage, NEW c \in DbImage, NEW m, NEW m2, Bounds(m), Bounds(m2),
         NEW gap \in Nat, m.root = m2.root + gap, m.end = m2.end + gap,
         m2.count = m.count, m2.last = m.last,
         \A o \in m2.root..(m2.end - 1) : c.cell[o] = d.cell[o + gap],
         NEW f, Laid(d, m, f)
  PROVE  /\ Laid(c, m2, Shifted(f, m.count, gap))
         /\ \A k \in 0..(m.count - 1) :
               SegmentBatches(c, Shifted(f, m.count, gap)[k]) = SegmentBatches(d, f[k])
  <1> DEFINE g == [k \in 0..m.count |-> f[k] - gap]
  <1>1. /\ m.root \in Nat /\ m.end \in Nat /\ m.count \in Nat /\ DataStart <= m.root
        /\ m.end <= DbCapacity /\ m.last \in Nat
        /\ m2.root \in Nat /\ m2.end \in Nat /\ DataStart <= m2.root /\ m2.end <= DbCapacity
    BY DEF Bounds
  <1>2. f \in [0..m.count -> m.root..m.end] /\ f[0] = m.root /\ f[m.count] = m.end
    BY DEF Laid
  <1>a. PICK r \in Nat, e \in Nat, r2 \in Nat, e2 \in Nat, cnt \in Nat :
           r = m.root /\ e = m.end /\ r2 = m2.root /\ e2 = m2.end /\ cnt = m.count
    BY <1>1
  <1>b. r = r2 + gap /\ e = e2 + gap /\ 2 <= r /\ 2 <= r2
    BY <1>1, <1>a DEF DataStart
  <1>3. g \in [0..m.count -> m2.root..m2.end]
    <2>1. ASSUME NEW x \in r..e PROVE x - gap \in r2..e2
      BY <1>b
    <2> QED
      BY <1>2, <1>a, <2>1
  <1>4. g[0] = m2.root /\ g[m.count] = m2.end
    <2>1. 0 \in 0..cnt /\ cnt \in 0..cnt /\ r - gap = r2 /\ e - gap = e2
      BY <1>b
    <2>2. g[0] = f[0] - gap /\ g[cnt] = f[cnt] - gap
      BY <1>a, <2>1
    <2> QED
      BY <1>2, <1>a, <2>1, <2>2
  <1>5. ASSUME NEW k \in 0..(m.count - 1)
        PROVE  /\ SegmentOK(c, g[k], m2.end) /\ SegmentGood(c, g[k], m2)
               /\ g[k + 1] = g[k] + SegmentSize(c, g[k])
               /\ SegmentBatches(c, g[k]) = SegmentBatches(d, f[k])
               /\ SegmentSize(c, g[k]) = SegmentSize(d, f[k])
               /\ c.cell[g[k]] = d.cell[f[k]]
    <2>1. PICK o \in Nat : o = f[k]
      BY LaidSegment
    <2>2. PICK n \in Nat : n = SegmentSize(d, o)
      BY <2>1, LaidSegment
    <2>3. /\ o >= m.root /\ o >= DataStart /\ n >= 3 /\ o + n <= m.end /\ f[k + 1] = o + n
          /\ SegmentOK(d, o, m.end) /\ SegmentGood(d, o, m) /\ d.cell[o].last <= m.last
      BY <2>1, <2>2, LaidSegment
    <2>4. k \in 0..m.count /\ k + 1 \in 0..m.count
      BY <1>1
    <2>a. o >= r /\ n >= 3 /\ o + n <= e
      BY <1>a, <2>3
    <2>5. PICK p \in Nat : p = o - gap
      BY <1>b, <2>a
    <2>b. p >= 2 /\ p >= r2 /\ p + n <= e2 /\ o = p + gap /\ (o + n) - gap = p + n
      BY <1>b, <2>a, <2>5
    <2>6. g[k] = p /\ g[k + 1] = p + n /\ p >= DataStart /\ p + n <= m2.end
      <3>1. g[k] = o - gap /\ g[k + 1] = (o + n) - gap
        BY <2>1, <2>3, <2>4
      <3> QED
        BY <1>a, <2>5, <2>b, <3>1 DEF DataStart
    <2>7. ASSUME NEW i \in 0..(n - 1) PROVE c.cell[p + i] = d.cell[o + i]
      <3>1. p + i \in r2..(e2 - 1) /\ (p + i) + gap = o + i
        BY <2>a, <2>b
      <3> QED
        BY <1>a, <3>1
    <2>c. /\ \A i \in 0..(SegmentSize(d, o) - 1) : c.cell[p + i] = d.cell[o + i]
          /\ p + SegmentSize(d, o) <= e2 /\ o >= DataStart /\ SegmentOK(d, o, e)
          /\ p >= DataStart /\ e <= DbCapacity /\ e2 <= DbCapacity
      BY <1>1, <1>a, <2>2, <2>3, <2>6, <2>7
    <2>8. /\ SegmentOK(c, p, e2) /\ SegmentSize(c, p) = n /\ SegmentBatches(c, p) = SegmentBatches(d, o)
          /\ c.cell[p] = d.cell[o]
      BY <2>2, <2>c, SegmentMoved
    <2>9. SegmentGood(c, p, m2)
      <3>1. SegmentGood(d, o, m) /\ d.cell[o].last <= m2.last
        BY <2>3
      <3> QED
        BY <2>c, <3>1, GoodMoved
    <2> QED
      BY <1>a, <2>1, <2>2, <2>6, <2>8, <2>9
  <1>6. ASSUME NEW j \in 0..(m.count - 1), NEW k \in 0..(m.count - 1), j < k
        PROVE  g[j] + SegmentSize(c, g[j]) <= g[k] /\ c.cell[g[j]].last < c.cell[g[k]].first
    <2>1. f[j] + SegmentSize(d, f[j]) <= f[k] /\ d.cell[f[j]].last < d.cell[f[k]].first
      BY <1>6 DEF Laid
    <2>2. f[j] \in Nat /\ f[k] \in Nat /\ SegmentSize(d, f[j]) \in Nat
      BY LaidSegment
    <2>3. j \in 0..m.count /\ k \in 0..m.count
      BY <1>1
    <2>4. g[j] = f[j] - gap /\ g[k] = f[k] - gap
      BY <2>3
    <2> HIDE DEF g
    <2>5. /\ SegmentSize(c, g[j]) = SegmentSize(d, f[j]) /\ c.cell[g[j]] = d.cell[f[j]]
          /\ c.cell[g[k]] = d.cell[f[k]]
      BY <1>5
    <2>6. g[j] + SegmentSize(d, f[j]) <= g[k]
      BY <2>1, <2>2, <2>4
    <2> QED
      BY <2>1, <2>5, <2>6
  <1>7. Laid(c, m2, g)
    <2> HIDE DEF g
    <2> QED
      BY <1>3, <1>4, <1>5, <1>6 DEF Laid
  <1> QED
    BY <1>5, <1>7 DEF Shifted

\* The whole of a manifest's data, copied together, is the whole of the copy's.
LEMMA WholeShift ==
  ASSUME NEW d \in DbImage, NEW c \in DbImage, NEW m, NEW m2, Bounds(m), Bounds(m2),
         NEW gap \in Nat, m.root = m2.root + gap, m.end = m2.end + gap,
         m2.count = m.count, m2.last = m.last,
         \A o \in m2.root..(m2.end - 1) : c.cell[o] = d.cell[o + gap],
         Whole(d, m)
  PROVE  Whole(c, m2) /\ Data(c, m2) = Data(d, m)
  <1> DEFINE f == Walk(d, m.root, m.count, m.end)
             g == Shifted(f, m.count, gap)
  <1>1. Laid(d, m, f)
    BY DEF Whole
  <1> HIDE DEF f
  <1>2. Laid(c, m2, g) /\ \A k \in 0..(m.count - 1) : SegmentBatches(c, g[k]) = SegmentBatches(d, f[k])
    BY <1>1, LaidShift
  <1> HIDE DEF g
  <1>3. Whole(c, m2) /\ Data(c, m2) = UNION {SegmentBatches(c, g[k]) : k \in 0..(m2.count - 1)}
    BY <1>2, LaidWhole
  <1>4. Data(d, m) = UNION {SegmentBatches(d, f[k]) : k \in 0..(m.count - 1)}
    BY <1>1, LaidWhole
  <1>5. {SegmentBatches(c, g[k]) : k \in 0..(m2.count - 1)}
        = {SegmentBatches(d, f[k]) : k \in 0..(m.count - 1)}
    BY <1>2
  <1> QED
    BY <1>3, <1>4, <1>5

\* d and c hold the same units where the manifest m has its data.
Agree(d, c, m) == \A o \in Offsets : m.root <= o /\ o < m.end => d.cell[o] = c.cell[o]

\* Two manifests list the same segments.
Alike(m, m2) == m2.root = m.root /\ m2.count = m.count /\ m2.end = m.end /\ m2.last = m.last

\* What a manifest lists depends only on the units between its root and its end.
LEMMA WholeAgree ==
  ASSUME NEW d \in DbImage, NEW c \in DbImage, NEW m, NEW m2, Bounds(m), Alike(m, m2),
         Agree(d, c, m), Whole(d, m)
  PROVE  Whole(c, m2) /\ Data(c, m2) = Data(d, m)
  <1>1. /\ m.root \in Nat /\ m.end \in Nat /\ DataStart <= m.root /\ m.end <= DbCapacity
        /\ Bounds(m2)
    BY DEF Bounds, Alike
  <1>2. PICK r \in Nat, e \in Nat, cap \in Nat : r = m.root /\ e = m.end /\ cap = DbCapacity
    BY <1>1, CapacityAssumption
  <1>3. ASSUME NEW o \in m2.root..(m2.end - 1) PROVE c.cell[o] = d.cell[o + 0]
    <2>1. o \in r..(e - 1)
      BY <1>2 DEF Alike
    <2>2. o \in 2..(cap - 1) /\ r <= o /\ o < e /\ o + 0 = o
      BY <1>1, <1>2, <2>1 DEF DataStart
    <2> QED
      BY <1>2, <2>2 DEF Agree, Offsets, DataStart
  <1>4. m.root = m2.root + 0 /\ m.end = m2.end + 0 /\ m2.count = m.count /\ m2.last = m.last
    BY <1>1, <1>2 DEF Alike
  <1> QED
    BY <1>1, <1>3, <1>4, WholeShift

\* A layout with one more segment behind it.
Extended(f, n, end) == [k \in 0..(n + 1) |-> IF k = n + 1 THEN end ELSE f[k]]

\* A manifest that lists one more segment, behind the others.
LEMMA LaidExtend ==
  ASSUME NEW d \in DbImage, NEW m, NEW m2, Bounds(m), Bounds(m2),
         m2.root = m.root, m2.count = m.count + 1, m.last <= m2.last,
         SegmentOK(d, m.end, m2.end), m2.end = m.end + SegmentSize(d, m.end),
         SegmentGood(d, m.end, m2), m.last < d.cell[m.end].first,
         NEW f, Laid(d, m, f)
  PROVE  Laid(d, m2, Extended(f, m.count, m2.end))
  <1> DEFINE g == [k \in 0..(m.count + 1) |-> IF k = m.count + 1 THEN m2.end ELSE f[k]]
  <1>1. PICK r \in Nat, e \in Nat, e2 \in Nat, n \in Nat, l \in Nat, l2 \in Nat :
           /\ r = m.root /\ e = m.end /\ e2 = m2.end /\ n = m.count /\ l = m.last /\ l2 = m2.last
           /\ 2 <= r /\ r <= e /\ e <= DbCapacity /\ e2 <= DbCapacity
    BY DEF Bounds, DataStart
  <1>2. m2.root = r /\ m2.count = n + 1 /\ l <= l2
    BY <1>1
  <1>3. PICK z \in Nat : z = SegmentSize(d, e) /\ e2 = e + z /\ z >= 3
    BY <1>1, SegmentFields DEF DataStart
  <1>4. f \in [0..n -> r..e] /\ f[0] = r /\ f[n] = e
    BY <1>1 DEF Laid
  <1>5. /\ \A k \in 0..n : g[k] = f[k]
        /\ g[n + 1] = e2 /\ g[n] = e /\ g[0] = r
    BY SMTT(30), <1>1, <1>2, <1>4
  <1>6. g \in [0..(n + 1) -> r..e2]
    <2>1. \A k \in 0..n : f[k] \in r..e2
      BY <1>1, <1>3, <1>4
    <2>2. e2 \in r..e2
      BY <1>1, <1>3
    <2>3. \A k \in 0..(n + 1) : k = n + 1 \/ k \in 0..n
      OBVIOUS
    <2> QED
      BY <1>1, <1>2, <2>1, <2>2, <2>3
  <1> HIDE DEF g
  <1>7. ASSUME NEW k \in 0..(n - 1)
        PROVE  /\ SegmentOK(d, g[k], e2) /\ SegmentGood(d, g[k], m2)
               /\ g[k + 1] = g[k] + SegmentSize(d, g[k])
               /\ g[k] + SegmentSize(d, g[k]) <= e
               /\ d.cell[g[k]].last < d.cell[e].first
    <2>1. k \in 0..n /\ k + 1 \in 0..n /\ k \in 0..(m.count - 1)
      BY <1>1
    <2>2. PICK o \in Nat : o = f[k]
      BY <2>1, LaidSegment
    <2>3. PICK s \in Nat : s = SegmentSize(d, o)
      BY <2>1, <2>2, LaidSegment
    <2>4. /\ o >= DataStart /\ o >= 2 /\ SegmentOK(d, o, e) /\ SegmentGood(d, o, m)
          /\ d.cell[o].last \in Nat /\ d.cell[o].last <= l /\ f[k + 1] = o + s /\ o + s <= e
      BY <1>1, <2>1, <2>2, <2>3, LaidSegment DEF DataStart
    <2>5. o + s <= e2 /\ e2 <= DbCapacity /\ e <= DbCapacity
      BY <1>1, <1>3, <2>4
    <2>6. SegmentOK(d, o, e2)
      BY <2>3, <2>4, <2>5, SegmentMoved
    <2>7. d.cell[o].last <= m2.last
      BY <1>1, <1>2, <2>4
    <2>8. SegmentGood(d, o, m2)
      BY <2>4, <2>7 DEF SegmentGood
    <2>9. d.cell[e].first \in Nat /\ l < d.cell[e].first
      BY <1>1, SegmentFields DEF DataStart
    <2>10. d.cell[o].last < d.cell[e].first
      BY <2>4, <2>9
    <2> QED
      BY <1>5, <2>1, <2>2, <2>3, <2>4, <2>6, <2>8, <2>10
  <1>8. ASSUME NEW k \in 0..n
        PROVE  /\ SegmentOK(d, g[k], e2) /\ SegmentGood(d, g[k], m2)
               /\ g[k + 1] = g[k] + SegmentSize(d, g[k])
    <2>1. CASE k = n
      BY <1>1, <1>3, <1>5, <2>1
    <2>2. CASE k # n
      BY <1>7, <2>2
    <2> QED
      BY <2>1, <2>2
  <1>9. ASSUME NEW j \in 0..n, NEW k \in 0..n, j < k
        PROVE  g[j] + SegmentSize(d, g[j]) <= g[k] /\ d.cell[g[j]].last < d.cell[g[k]].first
    <2>1. CASE k = n
      BY <1>5, <1>7, <1>9, <2>1
    <2>2. CASE k # n
      <3>1. j \in 0..(m.count - 1) /\ k \in 0..(m.count - 1)
        BY <1>1, <1>9, <2>2
      <3>2. f[j] + SegmentSize(d, f[j]) <= f[k] /\ d.cell[f[j]].last < d.cell[f[k]].first
        BY <1>9, <3>1 DEF Laid
      <3> QED
        BY <1>5, <3>2
    <2> QED
      BY <2>1, <2>2
  <1>10. (n + 1) - 1 = n
    OBVIOUS
  <1>11. Laid(d, m2, g)
    BY <1>1, <1>2, <1>5, <1>6, <1>8, <1>9, <1>10 DEF Laid
  <1> QED
    BY <1>11 DEF g, Extended

\* The same for the data: the new segment's batches join the others.
LEMMA WholeExtend ==
  ASSUME NEW d \in DbImage, NEW m, NEW m2, Bounds(m), Bounds(m2),
         m2.root = m.root, m2.count = m.count + 1, m.last <= m2.last,
         SegmentOK(d, m.end, m2.end), m2.end = m.end + SegmentSize(d, m.end),
         SegmentGood(d, m.end, m2), m.last < d.cell[m.end].first, Whole(d, m)
  PROVE  Whole(d, m2) /\ Data(d, m2) = Data(d, m) \cup SegmentBatches(d, m.end)
  <1> DEFINE f == Walk(d, m.root, m.count, m.end)
             g == Extended(f, m.count, m2.end)
  <1>1. Laid(d, m, f)
    BY DEF Whole
  <1> HIDE DEF f
  <1>2. Laid(d, m2, g)
    BY <1>1, LaidExtend
  <1>3. PICK n \in Nat : n = m.count
    BY DEF Bounds
  <1>4. \A k \in 0..n : g[k] = f[k]
    BY <1>3 DEF Extended
  <1>5. f[n] = m.end
    BY <1>1, <1>3 DEF Laid
  <1> HIDE DEF g
  <1>6. Whole(d, m2) /\ Data(d, m2) = UNION {SegmentBatches(d, g[k]) : k \in 0..(m2.count - 1)}
    BY <1>2, LaidWhole
  <1>7. Data(d, m) = UNION {SegmentBatches(d, f[k]) : k \in 0..(m.count - 1)}
    BY <1>1, LaidWhole
  <1>8. m2.count - 1 = n /\ m.count - 1 = n - 1
    BY <1>3
  <1>9. ASSUME NEW b PROVE b \in Data(d, m2) <=> b \in Data(d, m) \cup SegmentBatches(d, m.end)
    <2>1. b \in Data(d, m2) <=> \E k \in 0..n : b \in SegmentBatches(d, g[k])
      BY <1>6, <1>8
    <2>2. b \in Data(d, m) <=> \E k \in 0..(n - 1) : b \in SegmentBatches(d, f[k])
      BY <1>7, <1>8
    <2>3. \A k \in 0..n : k = n \/ k \in 0..(n - 1)
      OBVIOUS
    <2>4. n \in 0..n /\ \A k \in 0..(n - 1) : k \in 0..n
      OBVIOUS
    <2> QED
      BY <1>4, <1>5, <2>1, <2>2, <2>3, <2>4
  <1> QED
    BY <1>6, <1>9

\* A manifest may remember a later sequence than its segments hold.
LEMMA WholeLast ==
  ASSUME NEW d \in DbImage, NEW m, NEW m2, Bounds(m), Bounds(m2),
         m2.root = m.root, m2.count = m.count, m2.end = m.end, m.last <= m2.last, Whole(d, m)
  PROVE  Whole(d, m2) /\ Data(d, m2) = Data(d, m)
  <1> DEFINE f == Walk(d, m.root, m.count, m.end)
  <1>1. Laid(d, m, f)
    BY DEF Whole
  <1>2. \A k \in 0..(m.count - 1) : d.cell[f[k]].last \in Nat /\ d.cell[f[k]].last <= m.last
                                    /\ SegmentGood(d, f[k], m)
    BY <1>1, LaidSegment
  <1>3. m.last \in Nat /\ m2.last \in Nat
    BY DEF Bounds
  <1> HIDE DEF f
  <1>4. \A k \in 0..(m.count - 1) : SegmentGood(d, f[k], m2)
    BY <1>2, <1>3 DEF SegmentGood
  <1>5. Laid(d, m2, f)
    BY <1>1, <1>4 DEF Laid
  <1>6. Data(d, m) = UNION {SegmentBatches(d, f[k]) : k \in 0..(m.count - 1)}
    BY <1>1, LaidWhole
  <1>7. Whole(d, m2) /\ Data(d, m2) = UNION {SegmentBatches(d, f[k]) : k \in 0..(m2.count - 1)}
    BY <1>5, LaidWhole
  <1> QED
    BY <1>6, <1>7

\* A manifest without segments, whatever the file holds.
LEMMA WholeEmpty ==
  ASSUME NEW d \in DbImage, NEW m, Bounds(m), m.count = 0, m.root = m.end
  PROVE  Whole(d, m) /\ Data(d, m) = {}
  <1> DEFINE f == [k \in 0..0 |-> m.root]
  <1>1. m.root \in m.root..m.end
    BY DEF Bounds
  <1>2. Laid(d, m, f)
    BY <1>1 DEF Laid
  <1> HIDE DEF f
  <1>3. Whole(d, m) /\ Data(d, m) = UNION {SegmentBatches(d, f[k]) : k \in 0..(m.count - 1)}
    BY <1>2, LaidWhole
  <1>4. 0..(m.count - 1) = {}
    OBVIOUS
  <1> QED
    BY <1>3, <1>4

\* The batches of a segment carry the sequences its header announces.
LEMMA SegmentSequences ==
  ASSUME NEW d \in DbImage, NEW o \in Nat, NEW end \in Nat, o >= DataStart, end <= DbCapacity,
         SegmentOK(d, o, end), NEW b \in SegmentBatches(d, o)
  PROVE  b \in Batch /\ b.seq \in Nat /\ d.cell[o].first <= b.seq /\ b.seq <= d.cell[o].last
  <1>1. PICK n \in Nat, i \in Nat, j \in Nat :
           n = SegmentSize(d, o) /\ i = d.cell[o].first /\ j = d.cell[o].last /\ n = 3 + (j - i)
    BY SegmentFields
  <1>2. PICK x \in Body(d, o) : FrameOK(d, o, x) /\ b = d.cell[x].batch
    BY DEF SegmentBatches
  <1>3. x \in (o + 2)..(o + n - 1)
    BY <1>1, <1>2, BodyIs
  <1>4. b.seq = i + (x - o - 2)
    BY <1>1, <1>2 DEF FrameOK, HeaderSize
  <1>5. b \in Batch /\ b.seq \in Nat
    BY SegmentBatchesType DEF Batch
  <1> QED
    BY <1>1, <1>3, <1>4, <1>5

\* So what a manifest lists lies between 1 and its last sequence.
LEMMA DataSequences ==
  ASSUME NEW d \in DbImage, NEW m, Bounds(m), Whole(d, m), NEW b \in Data(d, m)
  PROVE  b \in Batch /\ b.seq \in Nat /\ 1 <= b.seq /\ b.seq <= m.last
  <1> DEFINE f == Walk(d, m.root, m.count, m.end)
  <1>1. Laid(d, m, f)
    BY DEF Whole
  <1>2. Data(d, m) = UNION {SegmentBatches(d, f[k]) : k \in 0..(m.count - 1)}
    BY <1>1, LaidWhole
  <1> HIDE DEF f
  <1>3. PICK k \in 0..(m.count - 1) : b \in SegmentBatches(d, f[k])
    BY <1>2
  <1>a. PICK o \in Nat, l \in Nat, e \in Nat : o = f[k] /\ l = m.last /\ e = m.end
    BY <1>1, LaidSegment DEF Bounds
  <1>b. /\ d.cell[o].first \in Nat /\ d.cell[o].last \in Nat /\ d.cell[o].first >= 1
        /\ d.cell[o].last <= l /\ o >= DataStart /\ SegmentOK(d, o, e)
    BY <1>1, <1>a, LaidSegment
  <1>4. PICK i \in Nat, j \in Nat :
          /\ i = d.cell[o].first /\ j = d.cell[o].last
          /\ o >= DataStart /\ e <= DbCapacity /\ 1 <= i /\ j <= l /\ SegmentOK(d, o, e)
    BY <1>a, <1>b DEF Bounds
  <1>5. b \in Batch /\ b.seq \in Nat /\ i <= b.seq /\ b.seq <= j
    BY <1>a, <1>3, <1>4, SegmentSequences
  <1> QED
    BY <1>a, <1>4, <1>5

------------------------------------------------------------------------------
(* Packing: a copy of some of the segments, one behind the other. *)

\* How many of the units in U lie before x.
Count(U, x) == Cardinality({u \in U : u < x})

\* Counting one unit further.
LEMMA CountStep ==
  ASSUME NEW U, IsFiniteSet(U), U \subseteq Nat, NEW x \in Nat
  PROVE  /\ Count(U, x) \in Nat /\ Count(U, x + 1) \in Nat
         /\ x \in U => Count(U, x + 1) = Count(U, x) + 1
         /\ x \notin U => Count(U, x + 1) = Count(U, x)
  <1> DEFINE A == {u \in U : u < x}
             B == {u \in U : u < x + 1}
  <1>1. IsFiniteSet(A) /\ IsFiniteSet(B)
    BY FS_Subset
  <1>2. Cardinality(A) \in Nat /\ Cardinality(B) \in Nat
    BY <1>1, FS_CardinalityType
  <1>3. x \notin A /\ (x \notin U => B = A) /\ (x \in U => B = A \cup {x})
    <2>1. \A u \in U : u \in Nat /\ (u < x + 1 <=> u < x \/ u = x)
      OBVIOUS
    <2>2. ~ (x < x) /\ x < x + 1
      OBVIOUS
    <2> QED
      BY <2>1, <2>2, Zenon
  <1>4. Count(U, x) = Cardinality(A) /\ Count(U, x + 1) = Cardinality(B)
    BY Zenon DEF Count
  <1> HIDE DEF A, B
  <1>5. Cardinality(A \cup {x}) = Cardinality(A) + 1
    BY <1>1, <1>3, FS_AddElement
  <1> QED
    BY <1>2, <1>3, <1>4, <1>5

\* Counting through units that are all in U, or all outside.
LEMMA CountRun ==
  ASSUME NEW U, IsFiniteSet(U), U \subseteq Nat, NEW x \in Nat, NEW n \in Nat
  PROVE  /\ (\A i \in 0..(n - 1) : x + i \in U) => \A i \in 0..n : Count(U, x + i) = Count(U, x) + i
         /\ (\A i \in 0..(n - 1) : x + i \notin U) => Count(U, x + n) = Count(U, x)
  <1>1. ASSUME \A i \in 0..(n - 1) : x + i \in U
        PROVE  \A i \in 0..n : Count(U, x + i) = Count(U, x) + i
    <2> DEFINE T == {i \in 0..n : Count(U, x + i) = Count(U, x) + i}
    <2>1. 0 \in T
      <3>1. Count(U, x) \in Nat
        BY CountStep
      <3>2. x + 0 = x /\ 0 \in 0..n
        OBVIOUS
      <3> QED
        BY <3>1, <3>2
    <2>2. ASSUME NEW i \in 0..(n - 1), i \in T PROVE i + 1 \in T
      <3>1. x + i \in Nat /\ x + i \in U /\ (x + i) + 1 = x + (i + 1) /\ i + 1 \in 0..n
        BY <1>1
      <3>2. Count(U, x) \in Nat /\ Count(U, (x + i) + 1) = Count(U, x + i) + 1
        BY <3>1, CountStep
      <3> QED
        BY <2>2, <3>1, <3>2
    <2>3. \A i \in 0..n : i \in T
      <3> HIDE DEF T
      <3> QED
        BY <2>1, <2>2, UpTo
    <2> QED
      BY <2>3
  <1>2. ASSUME \A i \in 0..(n - 1) : x + i \notin U
        PROVE  Count(U, x + n) = Count(U, x)
    <2> DEFINE T == {i \in 0..n : Count(U, x + i) = Count(U, x)}
    <2>1. 0 \in T
      <3>1. Count(U, x) \in Nat
        BY CountStep
      <3>2. x + 0 = x /\ 0 \in 0..n
        OBVIOUS
      <3> QED
        BY <3>1, <3>2
    <2>2. ASSUME NEW i \in 0..(n - 1), i \in T PROVE i + 1 \in T
      <3>1. x + i \in Nat /\ x + i \notin U /\ (x + i) + 1 = x + (i + 1) /\ i + 1 \in 0..n
        BY <1>2
      <3>2. Count(U, (x + i) + 1) = Count(U, x + i)
        BY <3>1, CountStep
      <3> QED
        BY <2>2, <3>1, <3>2
    <2>3. \A i \in 0..n : i \in T
      <3> HIDE DEF T
      <3> QED
        BY <2>1, <2>2, UpTo
    <2> QED
      BY <2>3
  <1> QED
    BY <1>1, <1>2

\* A later unit has more before it; all of them, at the end.
LEMMA CountOrder ==
  ASSUME NEW U, IsFiniteSet(U), U \subseteq Nat, NEW x \in Nat, NEW y \in Nat
  PROVE  /\ x <= y => Count(U, x) <= Count(U, y)
         /\ x \in U /\ x < y => Count(U, x) < Count(U, y)
         /\ (\A u \in U : u < y) => Count(U, y) = Cardinality(U)
         /\ (\A u \in U : u >= x) => Count(U, x) = 0
  <1>1. ASSUME NEW a \in Nat, NEW b \in Nat, a <= b PROVE Count(U, a) <= Count(U, b)
    <2>0. \A u \in U : u \in Nat /\ (u < a => u < b)
      BY <1>1
    <2>1. {u \in U : u < a} \subseteq {u \in U : u < b}
      BY <2>0, Zenon
    <2>2. IsFiniteSet({u \in U : u < b})
      BY FS_Subset
    <2> QED
      BY <2>1, <2>2, FS_Subset DEF Count
  <1>2. ASSUME x \in U, x < y PROVE Count(U, x) < Count(U, y)
    <2>1. Count(U, x) \in Nat /\ Count(U, y) \in Nat /\ Count(U, x + 1) = Count(U, x) + 1
      BY <1>2, CountStep
    <2>2. Count(U, x + 1) <= Count(U, y)
      BY <1>1, <1>2
    <2> QED
      BY <2>1, <2>2
  <1>3. ASSUME \A u \in U : u < y PROVE Count(U, y) = Cardinality(U)
    <2>1. {u \in U : u < y} = U
      BY <1>3
    <2> QED
      BY <2>1 DEF Count
  <1>4. ASSUME \A u \in U : u >= x PROVE Count(U, x) = 0
    <2>0. \A u \in U : u \in Nat /\ ~ (u < x)
      BY <1>4
    <2>1. {u \in U : u < x} = {}
      BY <2>0, Zenon
    <2> QED
      BY <2>1, FS_EmptySet DEF Count
  <1> QED
    BY <1>1, <1>2, <1>3, <1>4

\* A whole database lists no more segments than fit, nor than there are
\* sequences.
LEMMA WholeCounts ==
  ASSUME NEW d \in DbImage, NEW m, Bounds(m), Whole(d, m)
  PROVE  m.count * SegmentMin <= m.end - m.root /\ m.count <= m.last
  <1> DEFINE f == Walk(d, m.root, m.count, m.end)
  <1>1. Laid(d, m, f)
    BY DEF Whole
  <1> HIDE DEF f
  <1>2. PICK r \in Nat, n \in Nat, e \in Nat, l \in Nat :
           r = m.root /\ n = m.count /\ e = m.end /\ l = m.last
    BY DEF Bounds
  <1>3. f[0] = r /\ f[n] = e /\ f \in [0..n -> r..e]
    BY <1>1, <1>2 DEF Laid
  <1>4. \A k \in 0..n : k \in {i \in 0..n : f[i] >= r + 3 * i}
    <2> DEFINE T == {i \in 0..n : f[i] >= r + 3 * i}
    <2>1. 0 \in T
      BY <1>3
    <2>2. ASSUME NEW i \in 0..(n - 1), i \in T PROVE i + 1 \in T
      <3>1. PICK o \in Nat, s \in Nat : o = f[i] /\ s = SegmentSize(d, f[i]) /\ s >= 3 /\ f[i + 1] = o + s
        BY <1>1, <1>2, LaidSegment
      <3>2. o >= r + 3 * i /\ i + 1 \in 0..n
        BY <2>2, <3>1
      <3>3. o + s >= r + 3 * (i + 1)
        BY <3>1, <3>2
      <3> QED
        BY <3>1, <3>2, <3>3
    <2> HIDE DEF T
    <2>3. \A k \in 0..n : k \in T
      BY <2>1, <2>2, UpTo
    <2> QED
      BY <2>3 DEF T
  <1>5. \A k \in 0..n : k \in {i \in 0..n : i # 0 => d.cell[f[i - 1]].last >= i}
    <2> DEFINE T == {i \in 0..n : i # 0 => d.cell[f[i - 1]].last >= i}
    <2>1. 0 \in T
      OBVIOUS
    <2>2. ASSUME NEW i \in 0..(n - 1), i \in T PROVE i + 1 \in T
      <3>1. i + 1 \in 0..n /\ (i + 1) - 1 = i
        OBVIOUS
      <3>2. /\ d.cell[f[i]].first \in Nat /\ d.cell[f[i]].last \in Nat
            /\ d.cell[f[i]].first >= 1 /\ d.cell[f[i]].first <= d.cell[f[i]].last
        BY <1>1, <1>2, LaidSegment
      <3>3. CASE i = 0
        BY <3>1, <3>2, <3>3
      <3>4. CASE i # 0
        <4>1. i - 1 \in 0..(n - 1) /\ i - 1 < i
          BY <3>4
        <4>2. d.cell[f[i - 1]].last \in Nat
          BY <1>1, <1>2, <4>1, LaidSegment
        <4>3. d.cell[f[i - 1]].last < d.cell[f[i]].first
          BY <1>1, <1>2, <4>1 DEF Laid
        <4>4. d.cell[f[i - 1]].last >= i
          BY <2>2, <3>4
        <4> QED
          BY <3>1, <3>2, <4>2, <4>3, <4>4
      <3> QED
        BY <3>3, <3>4
    <2> HIDE DEF T
    <2>3. \A k \in 0..n : k \in T
      BY <2>1, <2>2, UpTo
    <2> QED
      BY <2>3 DEF T
  <1>6. e >= r + 3 * n
    BY <1>3, <1>4
  <1>7. n <= l
    <2>1. CASE n = 0
      BY <2>1
    <2>2. CASE n # 0
      <3>1. n - 1 \in 0..(m.count - 1) /\ n \in 0..n
        BY <1>2, <2>2
      <3>2. d.cell[f[n - 1]].last \in Nat /\ d.cell[f[n - 1]].last <= l
        BY <1>1, <1>2, <3>1, LaidSegment
      <3> QED
        BY <1>5, <2>2, <3>1, <3>2
    <2> QED
      BY <2>1, <2>2
  <1> QED
    BY <1>2, <1>6, <1>7 DEF SegmentMin, HeaderSize

\* The units of a segment, header included.
LEMMA UnitsAre ==
  ASSUME NEW d \in DbImage, NEW o \in Nat, NEW end \in Nat, o >= DataStart, end <= DbCapacity,
         SegmentOK(d, o, end), NEW x
  PROVE  x \in Units(d, o) <=> x \in o..(o + SegmentSize(d, o) - 1)
  <1>1. /\ SegmentSize(d, o) \in Nat /\ SegmentSize(d, o) >= 3 /\ o + SegmentSize(d, o) <= end
    BY SegmentFields
  <1>2. PICK n \in Nat, cap \in Nat : n = SegmentSize(d, o) /\ cap = DbCapacity
    BY <1>1, CapacityAssumption
  <1>3. x \in Units(d, o) <=> x \in 2..(cap - 1) /\ x >= o /\ x < o + n
    BY <1>2 DEF Units, Offsets, DataStart
  <1>4. o >= 2 /\ o + n <= cap
    BY <1>1, <1>2 DEF DataStart
  <1> QED
    BY <1>2, <1>3, <1>4

\* U are the units of the segments in K.
UnitsOf(d, K, U) == \A x : x \in U <=> \E o \in K : x \in Units(d, o)

\* The segments in K and their units, seen from the layout they are taken from:
\* a segment's units are all selected with it, or none of them is.
LEMMA Selected ==
  ASSUME NEW d \in DbImage, NEW m, Bounds(m), NEW f, Laid(d, m, f),
         NEW K, K \subseteq {f[k] : k \in 0..(m.count - 1)},
         NEW U, UnitsOf(d, K, U)
  PROVE  /\ IsFiniteSet(K) /\ K \subseteq Nat /\ IsFiniteSet(U) /\ U \subseteq Nat
         /\ \A x \in U : m.root <= x /\ x < m.end
         /\ \A o \in K : m.root <= o /\ o < m.end
         /\ \A k \in 0..(m.count - 1) : \A i \in 0..(SegmentSize(d, f[k]) - 1) :
               /\ f[k] + i \in U <=> f[k] \in K
               /\ i # 0 => f[k] + i \notin K
  <1>1. PICK r \in Nat, n \in Nat, e \in Nat : r = m.root /\ n = m.count /\ e = m.end
    BY DEF Bounds
  <1>2. ASSUME NEW k \in 0..(n - 1)
        PROVE  /\ f[k] \in Nat /\ f[k] >= r /\ f[k] >= DataStart /\ f[k] \in Offsets
               /\ SegmentOK(d, f[k], e)
               /\ SegmentSize(d, f[k]) \in Nat /\ SegmentSize(d, f[k]) >= 3
               /\ f[k] + SegmentSize(d, f[k]) <= e
    BY <1>1, LaidSegment
  <1>3. ASSUME NEW k \in 0..(n - 1), NEW x
        PROVE  x \in Units(d, f[k]) <=> x \in f[k]..(f[k] + SegmentSize(d, f[k]) - 1)
    <2>1. e <= DbCapacity
      BY <1>1 DEF Bounds
    <2> QED
      BY <1>2, <2>1, UnitsAre
  <1>4. ASSUME NEW o \in K PROVE \E k \in 0..(n - 1) : o = f[k]
    BY <1>1
  <1>5. \A o \in K : o \in Offsets /\ r <= o /\ o < e
    <2>1. ASSUME NEW o \in K PROVE o \in Offsets /\ r <= o /\ o < e
      <3>1. PICK k \in 0..(n - 1) : o = f[k]
        BY <1>4
      <3>2. PICK s \in Nat : s = SegmentSize(d, f[k]) /\ s >= 3 /\ f[k] + s <= e
        BY <1>2
      <3>3. f[k] \in Nat /\ f[k] >= r /\ f[k] \in Offsets
        BY <1>2
      <3> QED
        BY <3>1, <3>2, <3>3
    <2> QED
      BY <2>1
  <1>6. \A x \in U : x \in Nat /\ r <= x /\ x < e
    <2>1. ASSUME NEW x \in U PROVE x \in Nat /\ r <= x /\ x < e
      <3>1. PICK k \in 0..(n - 1) : x \in Units(d, f[k])
        BY <1>4 DEF UnitsOf
      <3>2. PICK s \in Nat : s = SegmentSize(d, f[k]) /\ s >= 3 /\ f[k] + s <= e
        BY <1>2
      <3>3. f[k] \in Nat /\ f[k] >= r /\ x \in f[k]..(f[k] + s - 1)
        BY <1>2, <1>3, <3>1, <3>2
      <3> QED
        BY <3>2, <3>3
    <2> QED
      BY <2>1
  <1>7. IsFiniteSet(K) /\ K \subseteq Nat
    BY <1>5, OffsetsFinite, FS_Subset
  <1>8. IsFiniteSet(U) /\ U \subseteq Nat
    <2>1. U \subseteq r..e
      BY <1>6
    <2>2. IsFiniteSet(r..e)
      BY FS_Interval
    <2> QED
      BY <1>6, <2>1, <2>2, FS_Subset
  <1>9. ASSUME NEW k \in 0..(n - 1), NEW i \in 0..(SegmentSize(d, f[k]) - 1), NEW j \in 0..(n - 1),
               f[k] + i \in Units(d, f[j])
        PROVE  j = k
    <2>1. PICK s \in Nat, t \in Nat : s = SegmentSize(d, f[k]) /\ t = SegmentSize(d, f[j])
      BY <1>2
    <2>2. f[k] \in Nat /\ f[j] \in Nat /\ f[k] + i \in f[j]..(f[j] + t - 1) /\ i \in 0..(s - 1)
      BY <1>2, <1>3, <1>9, <2>1
    <2>3. (j < k => f[j] + t <= f[k]) /\ (k < j => f[k] + s <= f[j])
      BY <1>1, <2>1 DEF Laid
    <2> QED
      BY <2>2, <2>3
  <1>10. ASSUME NEW k \in 0..(n - 1), NEW i \in 0..(SegmentSize(d, f[k]) - 1)
         PROVE  /\ f[k] + i \in U <=> f[k] \in K
                /\ i # 0 => f[k] + i \notin K
    <2>0. PICK s \in Nat : s = SegmentSize(d, f[k]) /\ s >= 3 /\ i \in 0..(s - 1)
      BY <1>2
    <2>1. f[k] \in Nat /\ f[k] + i \in f[k]..(f[k] + s - 1)
      BY <1>2, <2>0
    <2>2. f[k] + i \in Units(d, f[k])
      BY <1>3, <2>0, <2>1
    <2>3. f[k] + i \in U => f[k] \in K
      <3>1. SUFFICES ASSUME f[k] + i \in U PROVE f[k] \in K
        OBVIOUS
      <3>2. PICK o \in K : f[k] + i \in Units(d, o)
        BY <3>1 DEF UnitsOf
      <3>3. PICK j \in 0..(n - 1) : o = f[j]
        BY <1>4
      <3> QED
        BY <1>9, <3>2, <3>3
    <2>4. ASSUME i # 0, f[k] + i \in K PROVE FALSE
      <3>1. PICK j \in 0..(n - 1) : f[k] + i = f[j]
        BY <1>4, <2>4
      <3>2. PICK t \in Nat : t = SegmentSize(d, f[j]) /\ t >= 3
        BY <1>2
      <3>3. f[j] \in f[j]..(f[j] + t - 1)
        BY <1>2, <3>2
      <3>4. f[j] \in Units(d, f[j])
        BY <1>3, <3>2, <3>3
      <3>5. j = k
        BY <1>9, <3>1, <3>4
      <3> QED
        BY <2>1, <2>4, <3>1, <3>5
    <2> QED
      BY <2>2, <2>3, <2>4 DEF UnitsOf
  <1> QED
    BY <1>1, <1>5, <1>6, <1>7, <1>8, <1>10

\* c holds the units U of d, in their order and without gaps, from base on.
PackedInto(d, c, base, U) == \A x \in U : c.cell[base + Count(U, x)] = d.cell[x]

\* What is packed while the walk has passed the first j segments.
PackedPart(d, m, f, K, U, j) ==
    [root |-> m.end, count |-> Count(K, f[j]), end |-> m.end + Count(U, f[j]),
     last |-> IF j = 0 THEN 0 ELSE d.cell[f[j - 1]].last]

\* One segment further: it is skipped, or it is the next of the packed ones.
LEMMA PackStep ==
  ASSUME NEW d \in DbImage, NEW c \in DbImage, NEW m, Bounds(m), NEW f, Laid(d, m, f),
         NEW K, K \subseteq {f[k] : k \in 0..(m.count - 1)},
         NEW U, UnitsOf(d, K, U),
         m.end + Cardinality(U) <= DbCapacity,
         PackedInto(d, c, m.end, U),
         NEW j \in 0..(m.count - 1),
         Bounds(PackedPart(d, m, f, K, U, j)), Whole(c, PackedPart(d, m, f, K, U, j))
  PROVE  LET p == PackedPart(d, m, f, K, U, j)
             q == PackedPart(d, m, f, K, U, j + 1)
         IN  /\ Bounds(q) /\ Whole(c, q)
             /\ Data(c, q) = Data(c, p) \cup (IF f[j] \in K THEN SegmentBatches(d, f[j]) ELSE {})
  <1> DEFINE p == PackedPart(d, m, f, K, U, j)
             q == PackedPart(d, m, f, K, U, j + 1)
  <1>1. /\ IsFiniteSet(K) /\ K \subseteq Nat /\ IsFiniteSet(U) /\ U \subseteq Nat
        /\ \A x \in U : m.root <= x /\ x < m.end
        /\ \A i \in 0..(SegmentSize(d, f[j]) - 1) :
               /\ f[j] + i \in U <=> f[j] \in K
               /\ i # 0 => f[j] + i \notin K
    <2>1. /\ IsFiniteSet(K) /\ K \subseteq Nat /\ IsFiniteSet(U) /\ U \subseteq Nat
          /\ \A x \in U : m.root <= x /\ x < m.end
          /\ \A k \in 0..(m.count - 1) : \A i \in 0..(SegmentSize(d, f[k]) - 1) :
                 /\ f[k] + i \in U <=> f[k] \in K
                 /\ i # 0 => f[k] + i \notin K
      BY Selected
    <2> QED
      BY <2>1, Zenon
  <1>2. PICK o \in Nat, n \in Nat, e \in Nat : o = f[j] /\ n = SegmentSize(d, f[j]) /\ e = m.end
    BY LaidSegment DEF Bounds
  <1>3. /\ n >= 3 /\ o >= DataStart /\ o + n <= e /\ f[j + 1] = o + n /\ SegmentOK(d, o, e)
        /\ e <= DbCapacity /\ DataStart <= e /\ SegmentGood(d, o, m)
        /\ d.cell[o].first \in Nat /\ d.cell[o].last \in Nat
        /\ d.cell[o].first <= d.cell[o].last
    BY <1>2, LaidSegment DEF Bounds, DataStart
  <1>4. PICK ku \in Nat, kk \in Nat, ku2 \in Nat, kk2 \in Nat :
           /\ ku = Count(U, o) /\ kk = Count(K, o)
           /\ ku2 = Count(U, o + n) /\ kk2 = Count(K, o + n)
    <2>1. o + n \in Nat
      OBVIOUS
    <2> QED
      BY <1>1, <2>1, CountStep
  <1>5. ku2 <= Cardinality(U) /\ e + ku2 <= DbCapacity /\ e + ku <= DbCapacity
    <2>0. \A x \in U : x < e
      BY <1>1, <1>2
    <2>1. Count(U, e) = Cardinality(U)
      BY <1>1, <2>0, CountOrder
    <2>a. o + n \in Nat /\ o + n <= e /\ o <= e
      BY <1>3
    <2>2. Count(U, o + n) <= Count(U, e) /\ Count(U, o) <= Count(U, e)
      BY <1>1, <2>a, CountOrder
    <2>3. Cardinality(U) \in Nat
      BY <1>1, FS_CardinalityType
    <2>4. PICK u \in Nat, cap \in Nat : u = Cardinality(U) /\ cap = DbCapacity
      BY <2>3, CapacityAssumption
    <2> QED
      BY <1>2, <1>4, <2>1, <2>2, <2>4
  <1>6. kk2 = IF o \in K THEN kk + 1 ELSE kk
    <2>1. Count(K, o + 1) = IF o \in K THEN kk + 1 ELSE kk
      BY <1>1, <1>4, CountStep
    <2>2. \A i \in 0..(n - 2) : (o + 1) + i \notin K
      <3>1. ASSUME NEW i \in 0..(n - 2) PROVE (o + 1) + i \notin K
        <4>1. i + 1 \in 0..(n - 1) /\ i + 1 # 0 /\ o + (i + 1) = (o + 1) + i
          BY <1>3
        <4> QED
          BY <1>1, <1>2, <4>1
      <3> QED
        BY <3>1
    <2>3. n - 1 \in Nat /\ (n - 1) - 1 = n - 2 /\ o + 1 \in Nat /\ (o + 1) + (n - 1) = o + n
      BY <1>3
    <2>4. Count(K, (o + 1) + (n - 1)) = Count(K, o + 1)
      BY ZenonT(30), <1>1, <2>2, <2>3, CountRun
    <2> QED
      BY <1>4, <2>1, <2>3, <2>4
  <1>7. ku2 = IF o \in K THEN ku + n ELSE ku
    <2>1. CASE o \in K
      <3>1. \A i \in 0..(n - 1) : o + i \in U
        BY <1>1, <1>2, <2>1
      <3>2. n \in 0..n
        OBVIOUS
      <3>3. \A i \in 0..n : Count(U, o + i) = Count(U, o) + i
        BY ZenonT(30), <1>1, <3>1, CountRun
      <3> QED
        BY <1>4, <2>1, <3>2, <3>3
    <2>2. CASE o \notin K
      <3>1. \A i \in 0..(n - 1) : o + i \notin U
        BY <1>1, <1>2, <2>2
      <3> QED
        BY <1>1, <1>4, <2>2, <3>1, CountRun
    <2> QED
      BY <2>1, <2>2
  <1>8. PICK l \in Nat : l = IF j = 0 THEN 0 ELSE d.cell[f[j - 1]].last
    <2>1. CASE j = 0
      BY <2>1
    <2>2. CASE j # 0
      <3>1. j - 1 \in 0..(m.count - 1)
        BY <2>2 DEF Bounds
      <3>2. d.cell[f[j - 1]].last \in Nat
        BY <3>1, LaidSegment
      <3> QED
        BY <2>2, <3>2
    <2> QED
      BY <2>1, <2>2
  <1>9. l < d.cell[o].first
    <2>1. CASE j = 0
      BY <1>3, <1>8, <2>1 DEF SegmentOK
    <2>2. CASE j # 0
      <3>1. j - 1 \in 0..(m.count - 1) /\ j - 1 < j
        BY <2>2 DEF Bounds
      <3>2. d.cell[f[j - 1]].last < d.cell[f[j]].first
        BY <3>1 DEF Laid
      <3> QED
        BY <1>2, <1>8, <2>2, <3>2
    <2> QED
      BY <2>1, <2>2
  <1>10. /\ p.root = e /\ p.count = kk /\ p.end = e + ku /\ p.last = l
    BY <1>2, <1>4, <1>8 DEF PackedPart
  <1>11. /\ q.root = e /\ q.count = kk2 /\ q.end = e + ku2 /\ q.last = d.cell[o].last
    <2>1. j + 1 # 0 /\ (j + 1) - 1 = j
      OBVIOUS
    <2> QED
      BY <1>2, <1>3, <1>4, <2>1 DEF PackedPart
  <1>12. Bounds(p) /\ Whole(c, p)
    OBVIOUS
  <1> HIDE DEF p, q
  <1>13. Bounds(q)
    BY <1>3, <1>5, <1>11 DEF Bounds, DataStart
  <1>14. p.last <= q.last
    BY <1>3, <1>9, <1>10, <1>11
  <1>15. CASE o \notin K
    <2>1. q.root = p.root /\ q.count = p.count /\ q.end = p.end
      BY <1>6, <1>7, <1>10, <1>11, <1>15
    <2>2. Whole(c, q) /\ Data(c, q) = Data(c, p)
      BY <1>12, <1>13, <1>14, <2>1, WholeLast
    <2> QED
      BY <1>2, <1>13, <1>15, <2>2 DEF p, q
  <1>16. CASE o \in K
    <2>1. PICK s \in Nat : s = e + ku
      OBVIOUS
    <2>c. \A i \in 0..(n - 1) : o + i \in U
      BY <1>1, <1>2, <1>16
    <2>d. \A i \in 0..n : Count(U, o + i) = Count(U, o) + i
      BY ZenonT(30), <1>1, <2>c, CountRun
    <2>2. ASSUME NEW i \in 0..(n - 1) PROVE c.cell[s + i] = d.cell[o + i]
      <3>1. o + i \in U
        BY <2>c
      <3>3. i \in 0..n
        OBVIOUS
      <3>4. Count(U, o + i) = ku + i
        BY <1>4, <2>d, <3>3
      <3>5. c.cell[e + (ku + i)] = d.cell[o + i]
        BY <1>2, <3>1, <3>4 DEF PackedInto
      <3>6. e + (ku + i) = s + i
        BY <2>1
      <3> QED
        BY <3>5, <3>6
    <2>3. PICK e2 \in Nat : e2 = e + ku2 /\ e2 = s + n /\ e2 <= DbCapacity
      BY <1>5, <1>7, <1>16, <2>1
    <2>4. s >= DataStart
      BY <1>3, <2>1 DEF DataStart
    <2>a. /\ n = SegmentSize(d, o) /\ s + SegmentSize(d, o) <= e2
          /\ \A i \in 0..(SegmentSize(d, o) - 1) : c.cell[s + i] = d.cell[o + i]
      BY <1>2, <2>2, <2>3
    <2>b. /\ SegmentOK(c, s, e2) /\ SegmentSize(c, s) = SegmentSize(d, o) /\ c.cell[s] = d.cell[o]
          /\ SegmentBatches(c, s) = SegmentBatches(d, o)
      BY <1>3, <2>a, <2>3, <2>4, SegmentMoved
    <2>5. /\ SegmentOK(c, s, e2) /\ SegmentSize(c, s) = n /\ c.cell[s] = d.cell[o]
          /\ SegmentBatches(c, s) = SegmentBatches(d, o)
      BY <2>a, <2>b
    <2>6. SegmentGood(c, s, q)
      <3>1. d.cell[o].last <= q.last
        BY <1>3, <1>11
      <3> QED
        BY <1>3, <2>a, <2>3, <2>4, <3>1, GoodMoved
    <2>7. q.root = p.root /\ q.count = p.count + 1 /\ q.end = p.end + SegmentSize(c, p.end)
          /\ p.end = s /\ q.end = e2 /\ p.last < c.cell[p.end].first
      BY <1>6, <1>9, <1>10, <1>11, <1>16, <2>1, <2>3, <2>5
    <2>8. Whole(c, q) /\ Data(c, q) = Data(c, p) \cup SegmentBatches(c, p.end)
      BY <1>12, <1>13, <1>14, <2>5, <2>6, <2>7, WholeExtend
    <2> QED
      BY <1>2, <1>13, <1>16, <2>5, <2>7, <2>8 DEF p, q
  <1> QED
    BY <1>15, <1>16

\* So what is packed so far is whole, however far the walk has come, and holds
\* the batches of the selected segments it has passed.
LEMMA PackParts ==
  ASSUME NEW d \in DbImage, NEW c \in DbImage, NEW m, Bounds(m), NEW f, Laid(d, m, f),
         NEW K, K \subseteq {f[k] : k \in 0..(m.count - 1)},
         NEW U, UnitsOf(d, K, U),
         m.end + Cardinality(U) <= DbCapacity,
         PackedInto(d, c, m.end, U)
  PROVE  \A j \in 0..m.count :
            LET p == PackedPart(d, m, f, K, U, j)
            IN  /\ Bounds(p) /\ Whole(c, p)
                /\ \A b : b \in Data(c, p) <=>
                       \E k \in 0..(j - 1) : f[k] \in K /\ b \in SegmentBatches(d, f[k])
  <1>3. /\ IsFiniteSet(K) /\ K \subseteq Nat /\ IsFiniteSet(U) /\ U \subseteq Nat
        /\ \A x \in U : m.root <= x /\ x < m.end
        /\ \A o \in K : m.root <= o /\ o < m.end
    <2>1. /\ IsFiniteSet(K) /\ K \subseteq Nat /\ IsFiniteSet(U) /\ U \subseteq Nat
          /\ \A x \in U : m.root <= x /\ x < m.end
          /\ \A o \in K : m.root <= o /\ o < m.end
          /\ \A k \in 0..(m.count - 1) : \A i \in 0..(SegmentSize(d, f[k]) - 1) :
                 /\ f[k] + i \in U <=> f[k] \in K
                 /\ i # 0 => f[k] + i \notin K
      BY Selected
    <2> QED
      BY <2>1, Zenon
  <1>4. PICK r \in Nat, n \in Nat, e \in Nat : r = m.root /\ n = m.count /\ e = m.end
    BY DEF Bounds
  <1>5. f[0] = r
    BY <1>4 DEF Laid
  <1>6. Count(U, r) = 0 /\ Count(K, r) = 0
    <2>1. (\A x \in U : x >= r) /\ (\A x \in K : x >= r)
      BY <1>3, <1>4
    <2> QED
      BY <1>3, <2>1, CountOrder
  <1> DEFINE P(j) == PackedPart(d, m, f, K, U, j)
             T == {j \in 0..n : /\ Bounds(P(j)) /\ Whole(c, P(j))
                                /\ \A b : b \in Data(c, P(j)) <=>
                                      \E k \in 0..(j - 1) : f[k] \in K /\ b \in SegmentBatches(d, f[k])}
  <1>9. 0 \in T
    <2>1. P(0).root = e /\ P(0).count = 0 /\ P(0).end = e /\ P(0).last = 0
      BY <1>4, <1>5, <1>6 DEF PackedPart
    <2> HIDE DEF P
    <2>2. Bounds(P(0))
      BY <1>4, <2>1 DEF Bounds, DataStart
    <2>3. Whole(c, P(0)) /\ Data(c, P(0)) = {}
      BY <2>1, <2>2, WholeEmpty
    <2>4. 0..(0 - 1) = {} /\ 0 \in 0..n
      OBVIOUS
    <2> QED
      BY <2>2, <2>3, <2>4
  <1>10. ASSUME NEW j \in 0..(n - 1), j \in T PROVE j + 1 \in T
    <2>1. Bounds(P(j)) /\ Whole(c, P(j))
      BY <1>10
    <2>2. j \in 0..(m.count - 1)
      BY <1>4
    <2>3. /\ Bounds(P(j + 1)) /\ Whole(c, P(j + 1))
          /\ Data(c, P(j + 1)) = Data(c, P(j)) \cup (IF f[j] \in K THEN SegmentBatches(d, f[j]) ELSE {})
      BY <2>1, <2>2, PackStep
    <2>4. \A k \in 0..((j + 1) - 1) : k = j \/ k \in 0..(j - 1)
      OBVIOUS
    <2>5. j \in 0..((j + 1) - 1) /\ (\A k \in 0..(j - 1) : k \in 0..((j + 1) - 1)) /\ j + 1 \in 0..n
      OBVIOUS
    <2>6. \A b : b \in Data(c, P(j)) <=>
                    \E k \in 0..(j - 1) : f[k] \in K /\ b \in SegmentBatches(d, f[k])
      BY <1>10
    <2> HIDE DEF P
    <2>7. ASSUME NEW b
          PROVE  b \in Data(c, P(j + 1)) <=>
                    \E k \in 0..((j + 1) - 1) : f[k] \in K /\ b \in SegmentBatches(d, f[k])
      BY <2>3, <2>4, <2>5, <2>6
    <2> QED
      BY <2>3, <2>5, <2>7
  <1>11. \A j \in 0..n : j \in T
    <2> HIDE DEF T
    <2> QED
      BY <1>9, <1>10, UpTo
  <1> QED
    BY <1>4, <1>11

\* The packed copy of a selection of segments is the whole of its manifest, and
\* its data are the selected segments' batches.
LEMMA WholePack ==
  ASSUME NEW d \in DbImage, NEW c \in DbImage, NEW m, Bounds(m), Whole(d, m),
         NEW K, K \subseteq Segments(d, m),
         NEW U, UnitsOf(d, K, U),
         m.end + Cardinality(U) <= DbCapacity,
         PackedInto(d, c, m.end, U),
         NEW m2, m2.root = m.end, m2.count = Cardinality(K), m2.end = m.end + Cardinality(U),
         m2.last = m.last
  PROVE  /\ Bounds(m2) /\ Whole(c, m2) /\ Cardinality(U) <= m.end - m.root
         /\ \A b : b \in Data(c, m2) <=> \E o \in K : b \in SegmentBatches(d, o)
  <1> DEFINE f == Walk(d, m.root, m.count, m.end)
  <1>1. Laid(d, m, f)
    BY DEF Whole
  <1> HIDE DEF f
  <1>2. K \subseteq {f[k] : k \in 0..(m.count - 1)}
    BY <1>1, LaidWhole
  <1>3. /\ IsFiniteSet(K) /\ K \subseteq Nat /\ IsFiniteSet(U) /\ U \subseteq Nat
        /\ \A x \in U : m.root <= x /\ x < m.end
        /\ \A o \in K : m.root <= o /\ o < m.end
    <2>1. /\ IsFiniteSet(K) /\ K \subseteq Nat /\ IsFiniteSet(U) /\ U \subseteq Nat
          /\ \A x \in U : m.root <= x /\ x < m.end
          /\ \A o \in K : m.root <= o /\ o < m.end
          /\ \A k \in 0..(m.count - 1) : \A i \in 0..(SegmentSize(d, f[k]) - 1) :
                 /\ f[k] + i \in U <=> f[k] \in K
                 /\ i # 0 => f[k] + i \notin K
      BY <1>1, <1>2, Selected
    <2> QED
      BY <2>1, Zenon
  <1>4. PICK r \in Nat, n \in Nat, e \in Nat, l \in Nat :
           r = m.root /\ n = m.count /\ e = m.end /\ l = m.last
    BY DEF Bounds
  <1>5. f[n] = e
    BY <1>1, <1>4 DEF Laid
  <1>6. Count(U, e) = Cardinality(U) /\ Count(K, e) = Cardinality(K)
    <2>1. (\A x \in U : x < e) /\ (\A x \in K : x < e)
      BY <1>3, <1>4
    <2> QED
      BY <1>3, <2>1, CountOrder
  <1>7. Cardinality(U) \in Nat /\ Cardinality(K) \in Nat
    BY <1>3, FS_CardinalityType
  <1>8. Cardinality(U) <= m.end - m.root
    <2>1. r <= e
      BY <1>4 DEF Bounds
    <2>a. r \in Int /\ e - 1 \in Int
      OBVIOUS
    <2>b. IsFiniteSet(r..(e - 1)) /\ Cardinality(r..(e - 1)) = IF r > e - 1 THEN 0 ELSE (e - 1) - r + 1
      BY <2>a, FS_Interval
    <2>2. IsFiniteSet(r..(e - 1)) /\ Cardinality(r..(e - 1)) = e - r
      BY <2>1, <2>b
    <2>3. U \subseteq r..(e - 1)
      BY <1>3, <1>4
    <2>4. Cardinality(U) <= Cardinality(r..(e - 1))
      BY <2>2, <2>3, FS_Subset
    <2> QED
      BY <1>4, <2>2, <2>4
  <1> DEFINE P(j) == PackedPart(d, m, f, K, U, j)
  <1>11. n \in 0..m.count
    BY <1>4
  <1>12. /\ Bounds(P(n)) /\ Whole(c, P(n))
         /\ \A b : b \in Data(c, P(n)) <=>
                      \E k \in 0..(n - 1) : f[k] \in K /\ b \in SegmentBatches(d, f[k])
    BY <1>1, <1>2, <1>11, PackParts
  <1>13. /\ P(n).root = m2.root /\ P(n).count = m2.count /\ P(n).end = m2.end
         /\ P(n).last <= m2.last
    <2>1. P(n).root = m2.root /\ P(n).count = m2.count /\ P(n).end = m2.end
      BY <1>4, <1>5, <1>6 DEF PackedPart
    <2>2. P(n).last <= l
      <3>1. CASE n = 0
        BY <3>1 DEF PackedPart
      <3>2. CASE n # 0
        <4>1. n - 1 \in 0..(m.count - 1)
          BY <1>4, <3>2
        <4>2. d.cell[f[n - 1]].last <= l
          BY <1>1, <1>4, <4>1, LaidSegment
        <4> QED
          BY <3>2, <4>2 DEF PackedPart
      <3> QED
        BY <3>1, <3>2
    <2> QED
      BY <1>4, <2>1, <2>2
  <1> HIDE DEF P
  <1>14. Bounds(m2)
    <2>1. PICK u \in Nat, k \in Nat : u = Cardinality(U) /\ k = Cardinality(K)
      BY <1>7
    <2>2. m2.root = e /\ m2.count = k /\ m2.end = e + u /\ m2.last = l /\ DataStart <= e /\ e + u <= DbCapacity
      BY <1>4, <2>1 DEF Bounds, DataStart
    <2> QED
      BY <2>2 DEF Bounds
  <1>15. Whole(c, m2) /\ Data(c, m2) = Data(c, P(n))
    BY <1>12, <1>13, <1>14, WholeLast
  <1>16. \A b : b \in Data(c, m2) <=> \E o \in K : b \in SegmentBatches(d, o)
    <2>1. \A o \in K : \E k \in 0..(n - 1) : o = f[k]
      BY <1>2, <1>4
    <2> QED
      BY <1>12, <1>15, <2>1
  <1> QED
    BY <1>8, <1>14, <1>15, <1>16

------------------------------------------------------------------------------
(* Which segments an expiry removes, and the segment a checkpoint writes. *)

\* The segments that an expiry keeps, and the batches it may remove.
KeptOf(d, m, c) == {o \in Segments(d, m) : ~ (d.cell[o].max < c)}
EntitledOf(d, m, c) ==
    UNION {SegmentBatches(d, o) : o \in
              {s \in Segments(d, m) : \A b \in SegmentBatches(d, s) : b.time < c}}

\* The segments whose latest timestamp is below the cutoff are those whose every
\* batch is, and no other segment holds a batch of theirs.
LEMMA Expired ==
  ASSUME NEW d \in DbImage, NEW m, Bounds(m), Whole(d, m), NEW c \in Nat
  PROVE  /\ EntitledOf(d, m, c) \subseteq Data(d, m)
         /\ \A b : b \in Data(d, m) \ EntitledOf(d, m, c)
                      <=> \E o \in KeptOf(d, m, c) : b \in SegmentBatches(d, o)
  <1> DEFINE f == Walk(d, m.root, m.count, m.end)
             K == KeptOf(d, m, c)
             D == EntitledOf(d, m, c)
  <1>1. Laid(d, m, f)
    BY DEF Whole
  <1> HIDE DEF f
  <1>2. Segments(d, m) = {f[k] : k \in 0..(m.count - 1)}
    BY <1>1, LaidWhole
  <1>3. PICK n \in Nat, e \in Nat : n = m.count /\ e = m.end /\ e <= DbCapacity
    BY DEF Bounds
  <1>4. ASSUME NEW k \in 0..(n - 1), NEW b \in SegmentBatches(d, f[k])
        PROVE  /\ b.seq \in Nat /\ b.time \in Nat
               /\ d.cell[f[k]].first <= b.seq /\ b.seq <= d.cell[f[k]].last
    <2>1. PICK o \in Nat : o = f[k]
      BY <1>1, <1>3, LaidSegment
    <2>2. o >= DataStart /\ SegmentOK(d, o, e)
      BY <1>1, <1>3, <2>1, LaidSegment
    <2>3. b \in Batch /\ b.seq \in Nat /\ d.cell[o].first <= b.seq /\ b.seq <= d.cell[o].last
      BY <1>3, <2>1, <2>2, SegmentSequences
    <2> QED
      BY <2>1, <2>3 DEF Batch
  <1>5. ASSUME NEW j \in 0..(n - 1), NEW k \in 0..(n - 1), j < k, NEW b,
               b \in SegmentBatches(d, f[j]), b \in SegmentBatches(d, f[k])
        PROVE  FALSE
    <2>1. d.cell[f[j]].last < d.cell[f[k]].first
      BY <1>1, <1>3, <1>5 DEF Laid
    <2>2. d.cell[f[j]].last \in Nat /\ d.cell[f[k]].first \in Nat
      BY <1>1, <1>3, LaidSegment
    <2>3. b.seq \in Nat /\ b.seq <= d.cell[f[j]].last
      BY <1>4, <1>5
    <2>4. d.cell[f[k]].first <= b.seq
      BY <1>4, <1>5
    <2> QED
      BY <2>1, <2>2, <2>3, <2>4
  <1>6. ASSUME NEW k \in 0..(n - 1)
        PROVE  d.cell[f[k]].max < c <=> \A b \in SegmentBatches(d, f[k]) : b.time < c
    <2>1. /\ \E b \in SegmentBatches(d, f[k]) : b.time = d.cell[f[k]].max
          /\ \A b \in SegmentBatches(d, f[k]) : b.time <= d.cell[f[k]].max
      BY <1>1, <1>3, LaidSegment DEF SegmentGood
    <2>2. d.cell[f[k]].max \in Nat
      BY <1>1, <1>3, LaidSegment
    <2> QED
      BY <1>4, <2>1, <2>2
  <1>7. \A b : b \in Data(d, m) <=> \E k \in 0..(n - 1) : b \in SegmentBatches(d, f[k])
    BY <1>2, <1>3 DEF Data
  <1>8. \A b : b \in D <=> \E k \in 0..(n - 1) : d.cell[f[k]].max < c /\ b \in SegmentBatches(d, f[k])
    BY <1>2, <1>3, <1>6 DEF EntitledOf
  <1>9. \A b : (\E o \in K : b \in SegmentBatches(d, o)) <=>
               \E k \in 0..(n - 1) : ~ (d.cell[f[k]].max < c) /\ b \in SegmentBatches(d, f[k])
    BY <1>2, <1>3 DEF KeptOf
  <1>10. ASSUME NEW j \in 0..(n - 1), NEW k \in 0..(n - 1), NEW b,
                b \in SegmentBatches(d, f[j]), b \in SegmentBatches(d, f[k])
         PROVE  j = k
    BY <1>5, <1>10
  <1>11. D \subseteq Data(d, m)
    BY <1>7, <1>8
  <1>12. ASSUME NEW b PROVE b \in Data(d, m) \ D <=> \E o \in K : b \in SegmentBatches(d, o)
    <2>1. ASSUME b \in Data(d, m), b \notin D PROVE \E o \in K : b \in SegmentBatches(d, o)
      BY <1>7, <1>8, <1>9, <2>1
    <2>2. ASSUME \E o \in K : b \in SegmentBatches(d, o) PROVE b \in Data(d, m) /\ b \notin D
      <3>1. PICK k \in 0..(n - 1) : ~ (d.cell[f[k]].max < c) /\ b \in SegmentBatches(d, f[k])
        BY <1>9, <2>2
      <3>2. ASSUME b \in D PROVE FALSE
        <4>1. PICK j \in 0..(n - 1) : d.cell[f[j]].max < c /\ b \in SegmentBatches(d, f[j])
          BY <1>8, <3>2
        <4>2. j = k
          BY <1>10, <3>1, <4>1
        <4> QED
          BY <3>1, <4>1, <4>2
      <3> QED
        BY <1>7, <3>1, <3>2
    <2> QED
      BY <2>1, <2>2
  <1> QED
    BY <1>11, <1>12

\* At e lie a header and the frames of the n batches b, which follow the sequence
\* a and of whose timestamps x is the latest.
SegmentAt(d, e, a, n, x, b) ==
    /\ n # 0 /\ n <= WalCapacity /\ e >= DataStart /\ e + 2 + n <= DbCapacity
    /\ d.cell[e] = Header(a + 1, a + n, x) /\ d.cell[e + 1] = HeaderRest
    /\ \A i \in 1..n : d.cell[e + 1 + i] = Frame(b[i]) /\ b[i].seq = a + i
    /\ \E i \in 1..n : b[i].time = x
    /\ \A i \in 1..n : b[i].time <= x

\* They make a segment.
LEMMA FreshSegment ==
  ASSUME NEW d \in DbImage, NEW e \in Nat, NEW a \in Nat, NEW n \in Nat, NEW x \in Nat, NEW b,
         SegmentAt(d, e, a, n, x, b), NEW m, m.last = a + n
  PROVE  /\ SegmentOK(d, e, e + 2 + n) /\ SegmentSize(d, e) = 2 + n /\ d.cell[e].first = a + 1
         /\ SegmentGood(d, e, m)
         /\ SegmentBatches(d, e) = {b[i] : i \in 1..n}
  <1> USE DEF SegmentAt
  <1>1. /\ d.cell[e].kind = "header" /\ d.cell[e].first = a + 1 /\ d.cell[e].last = a + n
        /\ d.cell[e].max = x
    BY DEF Header
  <1>2. (a + n) - (a + 1) = n - 1 /\ n - 1 \in Nat /\ a + 1 <= a + n /\ a + 1 # 0
    OBVIOUS
  <1>3. SegmentSize(d, e) = 2 + n
    BY <1>1, <1>2 DEF SegmentSize, HeaderSize
  <1>4. SegmentOK(d, e, e + 2 + n)
    <2>1. e + 2 <= e + 2 + n /\ e + 2 + (n - 1) < e + 2 + n
      OBVIOUS
    <2>2. n - 1 < WalCapacity
      BY CapacityAssumption
    <2> QED
      BY <1>1, <1>2, <2>1, <2>2 DEF SegmentOK, HeaderSize
  <1>5. Body(d, e) = (e + 2)..(e + 2 + n - 1)
    <2>1. PICK end \in Nat : end = e + 2 + n /\ end <= DbCapacity
      OBVIOUS
    <2>2. Body(d, e) = (e + 2)..(e + SegmentSize(d, e) - 1)
      BY <1>4, <2>1, BodyIs
    <2>3. e + (2 + n) - 1 = e + 2 + n - 1
      OBVIOUS
    <2> QED
      BY <1>3, <2>2, <2>3
  <1>6. ASSUME NEW i \in 1..n
        PROVE  /\ e + 1 + i \in Body(d, e) /\ FrameOK(d, e, e + 1 + i)
               /\ d.cell[e + 1 + i].batch = b[i]
    <2>1. e + 1 + i \in (e + 2)..(e + 2 + n - 1)
      OBVIOUS
    <2>2. d.cell[e + 1 + i] = Frame(b[i]) /\ b[i].seq = a + i
      OBVIOUS
    <2>3. (a + 1) + ((e + 1 + i) - e - 2) = a + i
      OBVIOUS
    <2> QED
      BY <1>1, <1>5, <2>1, <2>2, <2>3 DEF FrameOK, Frame, HeaderSize
  <1>7. \A y \in (e + 2)..(e + 2 + n - 1) : y - e - 1 \in 1..n /\ y = e + 1 + (y - e - 1)
    OBVIOUS
  <1>8. FramesOK(d, e)
    BY <1>5, <1>6, <1>7 DEF FramesOK
  <1>9. SegmentBatches(d, e) = {b[i] : i \in 1..n}
    <2>1. ASSUME NEW y \in SegmentBatches(d, e) PROVE \E i \in 1..n : y = b[i]
      <3>1. PICK z \in Body(d, e) : y = d.cell[z].batch
        BY <2>1 DEF SegmentBatches
      <3>2. z - e - 1 \in 1..n /\ z = e + 1 + (z - e - 1)
        BY <1>5, <1>7, <3>1
      <3> DEFINE i == z - e - 1
      <3> HIDE DEF i
      <3>3. i \in 1..n /\ z = e + 1 + i
        BY <3>2 DEF i
      <3> QED
        BY <1>6, <3>1, <3>3
    <2>2. ASSUME NEW i \in 1..n PROVE b[i] \in SegmentBatches(d, e)
      BY <1>6 DEF SegmentBatches
    <2> QED
      BY <2>1, <2>2
  <1>10. SegmentGood(d, e, m)
    BY <1>1, <1>8, <1>9 DEF SegmentGood
  <1> QED
    BY <1>1, <1>3, <1>4, <1>9, <1>10

------------------------------------------------------------------------------
(* Manifests. *)

\* A manifest that read_manifests accepts in a file that reaches its end, with
\* the tail that check_segments demands; install records count revisions.
Valid(m) ==
    /\ CheckManifest(m, m.end) \/ RetentionManifest(m, m.end)
    /\ IF m.count # 0 THEN m.tail >= m.root /\ m.tail < m.end ELSE m.tail = 0
    /\ m.kind = "install" => m.revision = m.count

\* m is the newest manifest of d: the other slot holds nothing newer.
Presents(d, m) ==
    /\ Valid(m)
    /\ \A i \in {0, 1} : d.slot[i] = m \/ d.slot[i].kind = "none" \/ d.slot[i].revision < m.revision
    /\ \/ m = EmptyManifest
       \/ d.header = "valid" /\ d.slot[m.revision % 2] = m /\ m.end <= d.size

\* The disk presents a and the cache presents b, each with its data in both: the
\* write in flight is one of data neither lists, or of the slot of b alone.
Bridge(d, c, a, b) ==
    /\ Presents(d, a) /\ Presents(c, b)
    /\ Whole(d, a) /\ Whole(c, b) /\ Agree(d, c, a) /\ Agree(d, c, b)
    /\ \/ b = a
       \/ /\ b.revision = a.revision + 1 /\ d.header = "valid"
          /\ b.end <= d.size /\ d.size <= c.size
          /\ c.slot[a.revision % 2] = d.slot[a.revision % 2]

------------------------------------------------------------------------------
(* The log. *)

LogBatch == [seq : 1..MaxAppends, time : Times, id : 0..(MaxAppends - 1)]

\* The frames follow the installed sequence; only the last may be incomplete.
FreshLog(w, m) ==
    /\ Len(w.frames) <= WalCapacity
    /\ \A i \in 1..Len(w.frames) : /\ WalSeq(w, i) = m.last + i
                                   /\ w.frames[i].state = "full" \/ i = Len(w.frames)

\* The frames are complete and end at the installed sequence.
StaleLog(w, m) ==
    /\ w.frames # <<>> /\ Len(w.frames) <= m.last
    /\ \A i \in 1..Len(w.frames) : /\ WalSeq(w, i) + Len(w.frames) = m.last + i
                                   /\ w.frames[i].state = "full"

Fits(w, m) ==
    /\ FreshLog(w, m) \/ StaleLog(w, m)
    /\ \A i \in 1..Len(w.frames) : w.frames[i].batch \in LogBatch
    /\ w.header # "valid" => w.frames = <<>>

\* A header is written to an empty log, and a frame grows without its commit
\* record first.
LogBridge(d, c) ==
    /\ d.header # c.header => d.frames = <<>> /\ c.frames = <<>>
    /\ Len(c.frames) = Len(d.frames) + 1 => c.frames[Len(c.frames)].state # "full"

\* What of the log counts, after the manifest m.
WalData(w, m) == {w.frames[i].batch : i \in {j \in FullFrames(w) : WalSeq(w, j) > m.last}}

------------------------------------------------------------------------------
(* The view of a pair that the abstract log describes, and how the view of the
   cached files may differ from that of the durable ones. *)

High(d, w) == LastSequence(w, ReadManifests(d))
Floor(d, w) == LastTime(w, ReadManifests(d))

Same(d, w, c, v) == Held(c, v) = Held(d, w) /\ High(c, v) = High(d, w) /\ Floor(c, v) = Floor(d, w)

Removes(d, w, c, v, D) ==
    /\ D \subseteq Held(d, w) /\ Held(c, v) = Held(d, w) \ D
    /\ High(c, v) = High(d, w) /\ Floor(c, v) = Floor(d, w)

Commits(d, w, c, v) ==
    \E b \in LogBatch :
        /\ b.seq = High(d, w) + 1 /\ (High(d, w) # 0 => b.time >= Floor(d, w))
        /\ Held(c, v) = Held(d, w) \cup {b} /\ High(c, v) = b.seq /\ Floor(c, v) = b.time

\* d and w are durable, c and v cached; D is what the last expiry removes.
Files(d, c, w, v, D) ==
    /\ Bridge(d, c, ReadManifests(d), ReadManifests(c))
    /\ Fits(w, ReadManifests(d)) /\ Fits(v, ReadManifests(c)) /\ LogBridge(w, v)
    /\ \/ Same(d, w, c, v)
       \/ ReadManifests(d) # ReadManifests(c) /\ Removes(d, w, c, v, D)
       \/ ReadManifests(d) = ReadManifests(c) /\ Commits(d, w, c, v)
    /\ ReadManifests(d) # ReadManifests(c) => w = v

------------------------------------------------------------------------------
(* The invariant: what holds between any two steps. *)

mD == ReadManifests(dbDisk)
mC == ReadManifests(dbCache)
Stored == Held(dbDisk, walDisk)

\* What the files d and w keep of the calls so far: n appends were tried, A
\* returned, the last expiry may remove D, all of them E.
Recorded(d, w, n, A, D, E) ==
    /\ High(d, w) <= n
    /\ \A b \in D : b.seq \in Nat /\ b.seq <= High(d, w)
    /\ Held(d, w) \cap D \in {{}, D}
    /\ ReadManifests(d).phase \in {2, 3} => Held(d, w) \cap D = {}
    /\ A \ E \subseteq Held(d, w)

HistoryInv ==
    /\ Recorded(dbDisk, walDisk, tries, acked, doom, doomed)
    /\ Recorded(dbCache, walCache, tries, acked, doom, doomed)
    /\ doom \subseteq doomed /\ tries <= MaxAppends

\* A call in progress has failed the handle, in case it does not return.
FailedInv == h.open /\ pc # "open" => h.failed

IsMax(x, w, n) == /\ \E i \in 1..n : w.frames[i].batch.time = x
                  /\ \A i \in 1..n : w.frames[i].batch.time <= x

\* The handle and the locals agree with the files.
TieLog(m, w) ==
    /\ h.installed = m.last /\ h.installedTime = m.time
    /\ h.sequence = LastSequence(w, m) /\ h.lastTime = LastTime(w, m)
TieEnd(m, w) ==
    /\ h.end = IF Stale(w, m) THEN 0 ELSE Cardinality(FullFrames(w))
    /\ h.end # 0 => IsMax(h.walMax, w, h.end)
TieDb(m) ==
    /\ h.dataEnd = m.end /\ h.generation = m.count /\ h.lastSegment = m.tail
    /\ h.legacy => m = EmptyManifest
TieKind(m) == h.revision = m.revision /\ (h.retention <=> m.kind = "retain") /\ m.phase = 0

LocIs(m) == /\ loc.revision = m.revision /\ loc.count = m.count /\ loc.end = m.end
            /\ loc.tail = m.tail /\ loc.root = m.root /\ loc.phase = m.phase

SyncedDb == dbDisk = dbCache /\ dbDisk.header = "valid"
SyncedWal == walDisk = walCache /\ walDisk.header = "valid"

\* Every frame of the log is committed and counted by the handle.
Clean(w) == Len(w.frames) = h.end /\ FullFrames(w) = 1..h.end /\ FreshLog(w, mD)

\* open.
Creating == /\ mD = EmptyManifest /\ mC = EmptyManifest
            /\ walDisk.frames = <<>> /\ walCache.frames = <<>>
Opening == ~h.open /\ dbCache.header = "valid" /\ walCache.header = "valid"
Validated == /\ TieLog(mC, walCache) /\ TieEnd(mC, walCache) /\ TieDb(mC) /\ LocIs(mC)
             /\ h.retention <=> mC.kind = "retain"
Completing ==
    /\ SyncedDb /\ LocIs(mD) /\ loc.phase = 0
    /\ h.generation = mD.count /\ (h.legacy => mD = EmptyManifest) /\ (h.retention <=> mD.kind = "retain")
    /\ TieLog(mD, walDisk) /\ TieEnd(mD, walDisk)
Trimmed == /\ walDisk.header = "valid" /\ Len(walDisk.frames) > h.end
           /\ walCache = [walDisk EXCEPT !.frames = SubSeq(@, 1, h.end)]

\* append.
Calling == /\ h.open /\ dbDisk.header = "valid" /\ walDisk.header = "valid"
           /\ TieLog(mD, walDisk) /\ TieEnd(mD, walDisk) /\ TieDb(mD) /\ TieKind(mD)
Idle == SyncedDb /\ SyncedWal /\ Clean(walDisk)
Appending == /\ SyncedDb /\ walDisk.header = "valid" /\ h.open
             /\ h.sequence + 1 <= tries /\ h.end < WalCapacity
BodyWritten ==
    /\ Clean(walDisk)
    /\ \E b \in LogBatch :
          /\ b.seq = h.sequence + 1 /\ (h.sequence # 0 => b.time >= h.lastTime)
          /\ walCache = [walDisk EXCEPT !.frames = Append(@, [batch |-> b, state |-> "open"])]
BodySynced ==
    /\ Len(walDisk.frames) = h.end + 1 /\ FullFrames(walDisk) = 1..h.end /\ FreshLog(walDisk, mD)
    /\ walDisk.frames[h.end + 1].state = "open"
    /\ h.sequence # 0 => walDisk.frames[h.end + 1].batch.time >= h.lastTime
CommitWritten == walCache = [walDisk EXCEPT !.frames[Len(walDisk.frames)].state = "full"]
Committed ==
    /\ SyncedWal /\ TieDb(mD) /\ TieKind(mD)
    /\ Len(walDisk.frames) = h.end + 1 /\ FullFrames(walDisk) = 1..(h.end + 1) /\ FreshLog(walDisk, mD)
    /\ h.sequence = mD.last + h.end /\ h.installed = mD.last /\ h.installedTime = mD.time
    /\ h.end # 0 => IsMax(h.walMax, walDisk, h.end)

\* checkpoint.
CheckpointPcs == {"upgrade", "syncUpgrade", "segment", "syncSegment", "manifest", "syncManifest"}
Checkpointing == SyncedWal /\ Clean(walDisk) /\ h.end # 0 /\ NewEnd <= DbCapacity
SameManifest == mC = mD /\ dbCache.header = "valid"
SegmentWritten ==
    /\ NewEnd <= dbCache.size /\ Whole(dbCache, InstallRecord)
    /\ Data(dbCache, InstallRecord) = Data(dbCache, mD) \cup {walDisk.frames[i].batch : i \in 1..h.end}
InstallWritten == mC = InstallRecord
Reclaiming == /\ SyncedDb /\ h.open /\ walDisk.header = "valid" /\ StaleLog(walDisk, mD)
              /\ TieLog(mD, walDisk) /\ TieDb(mD) /\ TieKind(mD)

\* retention.
RetentionPcs == {"publish", "syncPublish", "copyTail", "syncCopy", "finish", "trimDb",
                 "syncTrimDb", "expireReturn"}
Retaining ==
    /\ SyncedWal /\ dbDisk.header = "valid" /\ dbCache.header = "valid"
    /\ TieLog(mD, walDisk) /\ TieEnd(mD, walDisk) /\ ~h.legacy
    /\ h.open => Clean(walDisk)
    /\ ~h.open => h.generation = mD.count /\ h.retention /\ loc.count = h.generation
    /\ h.open /\ loc.phase = 0 => Stored \cap doom = {}
Publishing ==
    /\ loc.revision = mD.revision
    /\ Valid(RetentionRecord) /\ Whole(dbCache, RetentionRecord) /\ loc.end <= dbCache.size
    /\ IF loc.phase = 2
       THEN /\ doom \subseteq Data(dbCache, mD)
            /\ Data(dbCache, RetentionRecord) = Data(dbCache, mD) \ doom
       ELSE Data(dbCache, RetentionRecord) = Data(dbCache, mD)
    /\ loc.phase = 3 => mD.phase = 2
RecordWritten == mC = RetentionRecord
Deciding ==
    /\ h.open /\ TieDb(mD) /\ mD.root = DataStart
    /\ loc.end = h.dataEnd /\ loc.count = h.generation /\ loc.tail = h.lastSegment
    /\ loc.root = DataStart
    /\ doom = Entitled(loc.cutoff)
    /\ h.dataEnd + Cardinality(KeptUnits(loc.cutoff)) <= DbCapacity

OpenInv ==
    /\ pc = "probe" => dbCache.header = "absent"
    /\ pc \in {"createWal", "dbHeader", "walHeader"} => Creating
    /\ pc \in {"provisionDb", "provisionWal", "trimWal", "syncTrim", "openReturn"} => Opening
    /\ pc \in {"provisionDb", "provisionWal"} => Validated
    /\ pc = "provisionWal" => SyncedDb
    /\ pc \in {"trimWal", "syncTrim", "openReturn"} => Completing
    /\ pc = "trimWal" => SyncedWal
    /\ pc = "syncTrim" => Trimmed
    /\ pc = "openReturn" => SyncedWal /\ Clean(walDisk)

AppendInv ==
    /\ Ready \/ pc \in {"syncBody", "commit", "syncCommit"} \cup CheckpointPcs => Calling
    /\ Ready => Idle
    /\ pc \in AppendPcs => Appending
    /\ pc = "syncBody" => BodyWritten
    /\ pc \in {"commit", "syncCommit"} => BodySynced
    /\ pc = "commit" => SyncedWal
    /\ pc = "syncCommit" => CommitWritten
    /\ pc = "appendReturn" => Committed

CheckpointInv ==
    /\ pc \in CheckpointPcs => Checkpointing
    /\ pc = "upgrade" => h.legacy
    /\ pc \in {"upgrade", "segment", "manifest"} => SyncedDb
    /\ pc \in {"syncUpgrade", "syncSegment"} => SameManifest
    /\ pc \in {"segment", "syncSegment", "manifest", "syncManifest"} => ~h.legacy
    /\ pc \in {"syncSegment", "manifest", "syncManifest"} => SegmentWritten
    /\ pc = "syncManifest" => InstallWritten
    /\ pc \in {"reclaim", "syncReclaim"} => Reclaiming
    /\ pc = "reclaim" => SyncedWal
    /\ pc = "syncReclaim" => walCache = NewWal("valid")

RetentionInv ==
    /\ pc \in RetentionPcs => Retaining
    /\ pc \in {"publish", "copyTail", "finish", "trimDb", "expireReturn"} => SyncedDb
    /\ pc \in {"copyTail", "finish", "trimDb", "expireReturn"} => LocIs(mD)
    /\ pc = "copyTail" => loc.phase = 1
    /\ pc = "finish" => loc.phase # 0 /\ (h.open => loc.phase = 2)
    /\ pc = "trimDb" => loc.phase = 3
    /\ pc = "expireReturn" => loc.phase = 0 /\ h.open
    /\ pc \in {"finish", "trimDb", "expireReturn"} => mD.kind = "retain"
    /\ pc = "syncCopy" => loc.phase \in {2, 3}
    /\ pc = "syncTrimDb" => loc.phase = 0
    /\ pc \in {"publish", "syncPublish", "syncCopy", "syncTrimDb"} => Publishing
    /\ pc \in {"syncCopy", "syncTrimDb"} => mC = mD
    /\ pc = "syncPublish" => RecordWritten
    /\ pc \in {"publish", "syncPublish", "copyTail"} /\ loc.phase = 1 => Deciding

PairInv ==
    /\ Files(dbDisk, dbCache, walDisk, walCache, doom)
    /\ HistoryInv /\ FailedInv
    /\ OpenInv /\ AppendInv /\ CheckpointInv /\ RetentionInv

------------------------------------------------------------------------------
(* Facts about manifests. *)

\* A valid manifest has natural fields, and its data lie behind the slots.
LEMMA ValidFields ==
  ASSUME NEW m \in Manifest, Valid(m)
  PROVE  /\ Bounds(m)
         /\ m.revision \in Nat /\ m.count \in Nat /\ m.end \in Nat /\ m.last \in Nat
         /\ m.time \in Nat /\ m.tail \in Nat /\ m.root \in Nat /\ m.phase \in 0..3
         /\ m.kind \in {"install", "retain"}
         /\ m.phase # 2 => m.root = DataStart
         /\ m.phase # 0 => m.kind = "retain"
         /\ m.end >= 2
  <1>1. /\ m.revision \in Nat /\ m.count \in Nat /\ m.end \in Nat /\ m.last \in Nat
        /\ m.time \in Nat /\ m.tail \in Nat /\ m.root \in Nat /\ m.phase \in 0..3
        /\ m.kind = "install" => m.root = DataStart /\ m.phase = 0
    BY DEF Manifest, DataStart
  <1>2. CASE CheckManifest(m, m.end)
    BY <1>1, <1>2 DEF CheckManifest, Bounds, DataStart
  <1>3. CASE RetentionManifest(m, m.end)
    BY <1>1, <1>3 DEF RetentionManifest, Bounds, DataStart
  <1> QED
    BY <1>2, <1>3 DEF Valid

\* The manifest of an empty database lists nothing, in any file.
LEMMA EmptyWhole ==
  /\ Valid(EmptyManifest) /\ EmptyManifest \in Manifest /\ Bounds(EmptyManifest)
  /\ EmptyManifest.revision = 0 /\ EmptyManifest.count = 0 /\ EmptyManifest.last = 0
  /\ EmptyManifest.time = 0 /\ EmptyManifest.phase = 0 /\ EmptyManifest.kind = "install"
  /\ EmptyManifest.root = DataStart /\ EmptyManifest.end = DataStart
  /\ \A d \in DbImage : Whole(d, EmptyManifest) /\ Data(d, EmptyManifest) = {}
  /\ \A d, c : Agree(d, c, EmptyManifest)
  <1>1. /\ EmptyManifest.revision = 0 /\ EmptyManifest.count = 0 /\ EmptyManifest.last = 0
        /\ EmptyManifest.time = 0 /\ EmptyManifest.phase = 0 /\ EmptyManifest.kind = "install"
        /\ EmptyManifest.root = DataStart /\ EmptyManifest.end = DataStart /\ EmptyManifest.tail = 0
    BY DEF EmptyManifest, EncodeManifest
  <1>2. Valid(EmptyManifest)
    BY <1>1, CapacityAssumption DEF Valid, CheckManifest, DataStart
  <1>3. EmptyManifest \in Manifest
    BY ManifestTypes
  <1>4. Bounds(EmptyManifest)
    BY <1>2, <1>3, ValidFields
  <1>5. \A d \in DbImage : Whole(d, EmptyManifest) /\ Data(d, EmptyManifest) = {}
    BY <1>1, <1>4, WholeEmpty
  <1>6. \A d, c : Agree(d, c, EmptyManifest)
    BY <1>1, OffsetsFinite DEF Agree, DataStart
  <1> QED
    BY <1>1, <1>2, <1>3, <1>4, <1>5, <1>6

\* read_manifests finds the manifest a file presents.
LEMMA PresentsReads ==
  ASSUME NEW d \in DbImage, NEW m \in Manifest, Presents(d, m)
  PROVE  ReadManifests(d) = m
  <1>1. \A i \in {0, 1} : d.slot[i] \in Manifest /\ d.slot[i].revision \in Nat
    BY DEF DbImage, Manifest
  <1>2. m.revision \in Nat /\ m.end \in Nat /\ m.end >= 2
    BY ValidFields DEF Presents
  <1>3. ASSUME NEW i \in ValidSlots(d)
        PROVE  i \in {0, 1} /\ d.slot[i].kind # "none"
    BY DEF ValidSlots, RetentionManifest, CheckManifest
  <1>4. CASE m = EmptyManifest
    <2>1. ASSUME NEW i \in ValidSlots(d) PROVE d.slot[i] = EmptyManifest
      <3>1. d.slot[i] = m \/ d.slot[i].revision < 0
        BY <1>3, <1>4, EmptyWhole DEF Presents
      <3> QED
        BY <1>1, <1>3, <1>4, <3>1
    <2> QED
      BY <1>4, <2>1, ReadManifestsSource
  <1>5. CASE m # EmptyManifest
    <2> DEFINE j == m.revision % 2
    <2>1. j \in {0, 1} /\ d.slot[j] = m /\ m.end <= d.size /\ d.size \in Nat
      BY <1>2, <1>5 DEF Presents, DbImage
    <2> HIDE DEF j
    <2>2. RetentionManifest(m, d.size) \/ CheckManifest(m, d.size)
      BY <2>1 DEF Presents, Valid, RetentionManifest, CheckManifest
    <2>3. j \in ValidSlots(d)
      <3>1. d.size # 0
        BY <1>2, <2>1
      <3>2. m.revision % 2 = j
        BY DEF j
      <3> QED
        BY <2>1, <2>2, <3>1, <3>2 DEF ValidSlots
    <2>4. Newest(d) \in ValidSlots(d) /\ \A i \in ValidSlots(d) : d.slot[i].revision <= d.slot[Newest(d)].revision
      <3>1. ValidSlots(d) \subseteq {0, 1}
        BY DEF ValidSlots
      <3>2. \E i \in ValidSlots(d) : \A k \in ValidSlots(d) : d.slot[k].revision <= d.slot[i].revision
        BY <1>1, <2>3, <3>1
      <3> QED
        BY <3>2 DEF Newest
    <2>5. d.slot[Newest(d)] = m \/ d.slot[Newest(d)].revision < m.revision
      BY <1>3, <2>4 DEF Presents
    <2>6. m.revision <= d.slot[Newest(d)].revision
      BY <2>1, <2>3, <2>4
    <2>7. d.slot[Newest(d)].revision \in Nat
      BY <1>1, <1>3, <2>4
    <2>8. d.slot[Newest(d)] = m
      BY <1>2, <2>5, <2>6, <2>7
    <2> QED
      BY <2>3, <2>8 DEF ReadManifests
  <1> QED
    BY <1>4, <1>5

\* A file whose slots hold nothing but the first manifest presents it.
LEMMA PresentsEmpty ==
  ASSUME NEW d, \A i \in {0, 1} : d.slot[i] = EmptyManifest \/ d.slot[i].kind = "none"
  PROVE  Presents(d, EmptyManifest)
  BY EmptyWhole DEF Presents

\* What a file that presents the first manifest has in its slots.
LEMMA EmptySlots ==
  ASSUME NEW d \in DbImage, Presents(d, EmptyManifest)
  PROVE  \A i \in {0, 1} : d.slot[i] = EmptyManifest \/ d.slot[i].kind = "none"
  <1>1. \A i \in {0, 1} : d.slot[i].revision \in Nat
    BY DEF DbImage, Manifest
  <1> QED
    BY <1>1, EmptyWhole DEF Presents

------------------------------------------------------------------------------
(* What survives of a write presents what the disk or the cache did. *)

\* Between two files with slots, survives a file with slots, each of them old,
\* new or torn, and every unit that was not written.
LEMMA SurvivorFacts ==
  ASSUME NEW d \in DbImage, NEW c \in DbImage, d.header = "valid", c.header = "valid",
         d.size >= 2, d.size <= c.size, NEW x \in PartialWrites(d, c)
  PROVE  /\ x.header = "valid" /\ x.size \in Nat /\ d.size <= x.size
         /\ \A i \in {0, 1} : x.slot[i] \in Torn(d.slot[i], c.slot[i], NoManifest)
         /\ \A o \in Offsets : o < d.size /\ d.cell[o] = c.cell[o] => x.cell[o] = d.cell[o]
  <1>1. PICK v \in Survivals(d, c) : x = Settle(Survivor(d, c, v))
    BY DEF PartialWrites
  <1> DEFINE y == Survivor(d, c, v)
  <1>2. d.size \in Nat /\ c.size \in Nat
    BY DEF DbImage
  <1>3. /\ v.header = "valid" /\ v.size \in d.size..c.size
        /\ v.slot0 \in Torn(d.slot[0], c.slot[0], NoManifest)
        /\ v.slot1 \in Torn(d.slot[1], c.slot[1], NoManifest)
        /\ v.lost \subseteq DirtyCells(d, c)
    BY DEF Survivals, Torn
  <1>4. PICK s \in Nat : s = v.size /\ d.size <= s /\ s >= 2
    BY <1>2, <1>3
  <1>5. /\ y.header = "valid" /\ y.size = s /\ y.slot[0] = v.slot0 /\ y.slot[1] = v.slot1
        /\ \A o \in Offsets : d.cell[o] = c.cell[o] => y.cell[o] = d.cell[o]
    BY <1>3, <1>4 DEF Survivor, DirtyCells
  <1> DEFINE t == TruncateDb(y, y.size)
             slot == [i \in {0, 1} |-> IF y.size = 0 \/ (i = 1 /\ y.size < DataStart)
                                       THEN NoManifest ELSE y.slot[i]]
  <1>6. x = [t EXCEPT !.slot = slot]
    BY <1>1, <1>5 DEF Settle
  <1>a. y = [header |-> v.header, size |-> v.size,
             slot |-> [i \in {0, 1} |-> IF i = 0 THEN v.slot0 ELSE v.slot1],
             cell |-> [o \in Offsets |-> IF o \notin v.lost THEN c.cell[o]
                                         ELSE IF v.old THEN d.cell[o] ELSE Junk]]
    BY DEF Survivor
  <1>7. \A i \in {0, 1} : slot[i] = y.slot[i]
    BY <1>4, <1>5 DEF DataStart
  <1>8. x.header = y.header /\ x.size = y.size /\ x.slot = slot
        /\ \A o \in Offsets : o < y.size => x.cell[o] = y.cell[o]
    <2> HIDE DEF slot
    <2> QED
      BY <1>6, <1>a DEF TruncateDb
  <1> HIDE DEF slot, y
  <1>9. \A o \in Offsets : o < d.size => o < s
    BY <1>2, <1>4, OffsetsFinite
  <1> QED
    BY <1>2, <1>3, <1>4, <1>5, <1>7, <1>8, <1>9

\* The manifest of a file, and its data, are there again in a file with the same
\* slots that agrees with it where they lie.
LEMMA PresentsSame ==
  ASSUME NEW d \in DbImage, NEW x \in DbImage, NEW m \in Manifest,
         Presents(d, m), Whole(d, m), Agree(d, x, m),
         \A i \in {0, 1} : x.slot[i] = d.slot[i] \/ (x.slot[i] = NoManifest /\ d.slot[i] # m),
         x.header = "valid" \/ m = EmptyManifest, m.end <= x.size \/ m = EmptyManifest
  PROVE  Presents(x, m) /\ Whole(x, m) /\ Data(x, m) = Data(d, m)
  <1>1. NoManifest.kind = "none"
    BY DEF NoManifest
  <1>2. m.revision % 2 \in {0, 1}
    BY ValidFields DEF Presents
  <1>3. Presents(x, m)
    BY <1>1, <1>2 DEF Presents
  <1>4. Bounds(m)
    BY ValidFields DEF Presents
  <1>5. Alike(m, m)
    BY DEF Alike
  <1>6. Whole(x, m) /\ Data(x, m) = Data(d, m)
    BY <1>4, <1>5, WholeAgree
  <1> QED
    BY <1>3, <1>6

\* A file presents its manifest next to itself.
LEMMA BridgeSelf ==
  ASSUME NEW d, NEW m, Presents(d, m), Whole(d, m)
  PROVE  Bridge(d, d, m, m)
  BY DEF Bridge, Agree

\* What a file in the middle of a write may become: it presents the manifest of
\* the disk or that of the cache, with its data.
Settled(d, c, a, b, x, p) ==
    /\ p = a \/ p = b
    /\ Bridge(d, x, a, p) /\ Bridge(x, x, p, p)
    /\ Data(x, p) = IF p = a THEN Data(d, a) ELSE Data(c, b)

\* Where manifests coincide, so do their data.
LEMMA BridgeData ==
  ASSUME NEW d \in DbImage, NEW c \in DbImage, NEW a \in Manifest, Bridge(d, c, a, a)
  PROVE  Data(c, a) = Data(d, a)
  <1>1. Bounds(a) /\ Alike(a, a)
    BY ValidFields DEF Bridge, Presents, Alike
  <1> QED
    BY <1>1, WholeAgree DEF Bridge

\* A write that leaves the manifest alone.
LEMMA SettledData ==
  ASSUME NEW d \in DbImage, NEW c \in DbImage, NEW a \in Manifest, Bridge(d, c, a, a),
         d.size <= c.size, NEW x \in DbImage, x \in PartialWrites(d, c)
  PROVE  Settled(d, c, a, a, x, a)
  <1>0. /\ Presents(d, a) /\ Presents(c, a) /\ Whole(d, a) /\ Whole(c, a) /\ Agree(d, c, a)
        /\ Bounds(a)
    BY ValidFields DEF Bridge, Presents
  <1>1. CASE a = EmptyManifest
    <2>1. SlotsFrom(x, d, c)
      BY PartialWritesType
    <2>2. \A i \in {0, 1} : x.slot[i] = EmptyManifest \/ x.slot[i].kind = "none"
      <3>1. \A i \in {0, 1} : d.slot[i] = EmptyManifest \/ d.slot[i].kind = "none"
        BY <1>0, <1>1, EmptySlots
      <3>2. \A i \in {0, 1} : c.slot[i] = EmptyManifest \/ c.slot[i].kind = "none"
        BY <1>0, <1>1, EmptySlots
      <3>3. NoManifest.kind = "none"
        BY DEF NoManifest
      <3> QED
        BY <2>1, <3>1, <3>2, <3>3 DEF SlotsFrom
    <2>3. Presents(x, a) /\ Whole(x, a) /\ Data(x, a) = Data(d, a)
      BY <1>1, <2>2, PresentsEmpty, EmptyWhole
    <2>4. Bridge(d, x, a, a)
      BY <1>0, <1>1, <2>3, EmptyWhole DEF Bridge
    <2> QED
      BY <2>3, <2>4, BridgeSelf DEF Settled
  <1>2. CASE a # EmptyManifest
    <2>1. /\ d.header = "valid" /\ c.header = "valid" /\ a.end \in Nat /\ a.end >= 2
          /\ a.end <= d.size /\ d.size \in Nat
      BY <1>0, <1>2, ValidFields DEF Presents, DbImage
    <2>2. d.size >= 2
      BY <2>1
    <2>3. /\ x.header = "valid" /\ x.size \in Nat /\ d.size <= x.size
          /\ \A i \in {0, 1} : x.slot[i] \in Torn(d.slot[i], c.slot[i], NoManifest)
          /\ \A o \in Offsets : o < d.size /\ d.cell[o] = c.cell[o] => x.cell[o] = d.cell[o]
      BY <2>1, <2>2, SurvivorFacts
    <2>4. Agree(d, x, a)
      <3>1. \A o \in Offsets : o < a.end => o < d.size
        BY <2>1, OffsetsFinite
      <3> QED
        BY <1>0, <2>3, <3>1 DEF Agree
    <2>5. a.end <= x.size
      BY <2>1, <2>3
    <2>6. Presents(x, a)
      <3>1. NoManifest.kind = "none" /\ a.revision % 2 \in {0, 1}
        BY <1>0, ValidFields DEF NoManifest, Presents
      <3>2. x.slot[a.revision % 2] = a
        BY <1>0, <1>2, <2>3, <3>1 DEF Presents, Torn
      <3>3. \A i \in {0, 1} : x.slot[i] = d.slot[i] \/ x.slot[i] = c.slot[i] \/ x.slot[i].kind = "none"
        BY <2>3, <3>1 DEF Torn
      <3> QED
        BY <1>0, <2>3, <2>5, <3>2, <3>3 DEF Presents
    <2>7. Whole(x, a) /\ Data(x, a) = Data(d, a)
      <3>1. Alike(a, a)
        BY DEF Alike
      <3> QED
        BY <1>0, <2>4, <3>1, WholeAgree
    <2>8. Bridge(d, x, a, a)
      BY <1>0, <2>4, <2>6, <2>7 DEF Bridge
    <2> QED
      BY <2>6, <2>7, <2>8, BridgeSelf DEF Settled
  <1> QED
    BY <1>1, <1>2

\* A write of the next manifest.
LEMMA SettledSlot ==
  ASSUME NEW d \in DbImage, NEW c \in DbImage, NEW a \in Manifest, NEW b \in Manifest,
         Bridge(d, c, a, b), a # b, NEW x \in DbImage, x \in PartialWrites(d, c)
  PROVE  Settled(d, c, a, b, x, a) \/ Settled(d, c, a, b, x, b)
  <1>0. /\ Presents(d, a) /\ Presents(c, b) /\ Whole(d, a) /\ Whole(c, b)
        /\ Agree(d, c, a) /\ Agree(d, c, b) /\ Bounds(a) /\ Bounds(b)
        /\ b.revision = a.revision + 1 /\ d.header = "valid"
        /\ b.end <= d.size /\ d.size <= c.size
        /\ c.slot[a.revision % 2] = d.slot[a.revision % 2]
    BY ValidFields DEF Bridge, Presents
  <1>1. /\ a.revision \in Nat /\ b.revision \in Nat /\ a.end \in Nat /\ b.end \in Nat
        /\ b.end >= 2 /\ d.size \in Nat
    BY <1>0, ValidFields DEF Presents, DbImage
  <1>2. b # EmptyManifest
    BY <1>0, <1>1, EmptyWhole
  <1>3. PICK i \in {0, 1}, j \in {0, 1} : i = a.revision % 2 /\ j = b.revision % 2 /\ i # j
    BY <1>0, <1>1
  <1>4. c.header = "valid" /\ c.slot[j] = b /\ c.slot[i] = d.slot[i] /\ d.size >= 2
    BY <1>0, <1>1, <1>2, <1>3 DEF Presents
  <1>5. /\ x.header = "valid" /\ x.size \in Nat /\ d.size <= x.size
        /\ x.slot[i] \in Torn(d.slot[i], c.slot[i], NoManifest)
        /\ x.slot[j] \in Torn(d.slot[j], c.slot[j], NoManifest)
        /\ \A o \in Offsets : o < d.size /\ d.cell[o] = c.cell[o] => x.cell[o] = d.cell[o]
    BY <1>0, <1>4, SurvivorFacts
  <1>6. x.slot[i] = d.slot[i]
    BY <1>4, <1>5 DEF Torn
  <1>7. b.end <= x.size /\ \A o \in Offsets : o < b.end => o < d.size
    BY <1>0, <1>1, <1>5, OffsetsFinite
  <1>8. a.end <= d.size \/ a = EmptyManifest
    BY <1>0 DEF Presents
  <1>9. Agree(d, x, a)
    <2>1. CASE a = EmptyManifest
      BY <2>1, EmptyWhole
    <2>2. CASE a # EmptyManifest
      <3>1. \A o \in Offsets : o < a.end => o < d.size
        BY <1>1, <1>8, <2>2, OffsetsFinite
      <3> QED
        BY <1>0, <1>5, <3>1 DEF Agree
    <2> QED
      BY <2>1, <2>2
  <1>10. Agree(d, x, b) /\ Agree(c, x, b)
    BY <1>0, <1>5, <1>7 DEF Agree
  <1>11. CASE x.slot[j] = b
    <2>1. Presents(x, b) /\ Whole(x, b) /\ Data(x, b) = Data(c, b)
      <3>1. \A k \in {0, 1} : x.slot[k] = c.slot[k]
        BY <1>3, <1>4, <1>6, <1>11
      <3>2. Presents(x, b)
        <4>1. \A k \in {0, 1} : x.slot[k] = b \/ x.slot[k].kind = "none" \/ x.slot[k].revision < b.revision
          BY <1>0, <3>1 DEF Presents
        <4>2. x.slot[b.revision % 2] = b
          BY <1>3, <1>11
        <4> QED
          BY <1>0, <1>5, <1>7, <4>1, <4>2 DEF Presents
      <3>3. Alike(b, b)
        BY DEF Alike
      <3> QED
        BY <1>0, <1>10, <3>2, <3>3, WholeAgree
    <2>2. Bridge(d, x, a, b)
      BY <1>0, <1>3, <1>5, <1>6, <1>9, <1>10, <2>1 DEF Bridge
    <2> QED
      BY <2>1, <2>2, BridgeSelf DEF Settled
  <1>12. CASE x.slot[j] # b
    <2>1. x.slot[j] = d.slot[j] \/ x.slot[j] = NoManifest
      BY <1>4, <1>5, <1>12 DEF Torn
    <2>2. a = EmptyManifest \/ a.end <= x.size
      BY <1>1, <1>5, <1>8
    <2>3. NoManifest.kind = "none"
      BY DEF NoManifest
    <2>4. \A k \in {0, 1} : x.slot[k] = a \/ x.slot[k].kind = "none" \/ x.slot[k].revision < a.revision
      BY <1>0, <1>3, <1>6, <2>1, <2>3 DEF Presents
    <2>5. a = EmptyManifest \/ x.slot[a.revision % 2] = a
      BY <1>0, <1>3, <1>6 DEF Presents
    <2>6. Presents(x, a)
      BY <1>0, <1>5, <2>2, <2>4, <2>5 DEF Presents
    <2>7. Whole(x, a) /\ Data(x, a) = Data(d, a)
      <3>1. Alike(a, a)
        BY DEF Alike
      <3> QED
        BY <1>0, <1>9, <3>1, WholeAgree
    <2>8. Bridge(d, x, a, a)
      BY <1>0, <1>9, <2>6, <2>7 DEF Bridge
    <2> QED
      BY <2>6, <2>7, <2>8, BridgeSelf DEF Settled
  <1> QED
    BY <1>11, <1>12

\* Whatever a write or a truncation leaves of the file.
LEMMA OutcomeSettled ==
  ASSUME NEW d \in DbImage, NEW c \in DbImage, NEW a \in Manifest, NEW b \in Manifest,
         Bridge(d, c, a, b), NEW x \in DbOutcomes(d, c)
  PROVE  x \in DbImage /\ (Settled(d, c, a, b, x, a) \/ Settled(d, c, a, b, x, b))
  <1>0. x \in DbImage
    BY DbOutcomesType
  <1>1. CASE x = d
    <2>1. Bridge(d, d, a, a)
      BY BridgeSelf DEF Bridge
    <2> QED
      BY <1>0, <1>1, <2>1 DEF Settled
  <1>2. CASE x = c
    <2>1. Bridge(c, c, b, b)
      BY BridgeSelf DEF Bridge
    <2>2. a = b => Data(c, a) = Data(d, a)
      BY BridgeData
    <2> QED
      BY <1>0, <1>2, <2>1, <2>2 DEF Settled
  <1>3. CASE x # d /\ x # c
    <2>1. x \in PartialWrites(d, c) /\ ~ (c.size < d.size)
      BY <1>3 DEF DbOutcomes
    <2>2. d.size <= c.size
      BY <2>1 DEF DbImage
    <2>3. CASE a = b
      BY <1>0, <2>1, <2>2, <2>3, SettledData
    <2>4. CASE a # b
      BY <1>0, <2>1, <2>4, SettledSlot
    <2> QED
      BY <2>3, <2>4
  <1> QED
    BY <1>1, <1>2, <1>3

------------------------------------------------------------------------------
(* The log. *)

\* The committed frames of a log that has them in front.
LEMMA FullRun ==
  ASSUME NEW w \in WalImage, NEW n \in Nat, n <= Len(w.frames),
         \A i \in 1..Len(w.frames) : w.frames[i].state = "full" <=> i <= n
  PROVE  FullFrames(w) = 1..n /\ Cardinality(FullFrames(w)) = n /\ Len(w.frames) \in Nat
  <1>1. Len(w.frames) \in Nat /\ DOMAIN w.frames = 1..Len(w.frames)
    BY DEF WalImage
  <1>2. FullFrames(w) = 1..n
    BY <1>1 DEF FullFrames
  <1>3. Cardinality(1..n) = n
    BY FS_Interval
  <1> QED
    BY <1>1, <1>2, <1>3

\* A log that follows the manifest holds what comes after it.
FreshView(w, m, n) ==
    /\ n \in 0..Len(w.frames) /\ Len(w.frames) <= n + 1
    /\ FullFrames(w) = 1..n /\ Cardinality(FullFrames(w)) = n
    /\ ~ Stale(w, m) /\ LastSequence(w, m) = m.last + n
    /\ LastTime(w, m) = IF n = 0 THEN m.time ELSE w.frames[n].batch.time
    /\ WalData(w, m) = {w.frames[i].batch : i \in 1..n}

LEMMA FreshFacts ==
  ASSUME NEW w \in WalImage, NEW m, m.last \in Nat, FreshLog(w, m),
         NEW n \in Nat, n <= Len(w.frames), Len(w.frames) <= n + 1,
         \A i \in 1..Len(w.frames) : w.frames[i].state = "full" <=> i <= n
  PROVE  FreshView(w, m, n)
  <1>1. FullFrames(w) = 1..n /\ Cardinality(FullFrames(w)) = n /\ Len(w.frames) \in Nat
    BY FullRun
  <1>2. \A i \in 1..Len(w.frames) : WalSeq(w, i) = m.last + i
    BY DEF FreshLog
  <1>3. ~ Stale(w, m)
    <2>1. w.frames # <<>> => 1 \in 1..Len(w.frames)
      BY <1>1 DEF WalImage
    <2>2. w.frames # <<>> => WalSeq(w, 1) = m.last + 1
      BY <1>2, <2>1
    <2> QED
      BY <2>2 DEF Stale
  <1>4. LastSequence(w, m) = m.last + n
    BY <1>1, <1>3 DEF LastSequence, WalBase
  <1>5. LastTime(w, m) = IF n = 0 THEN m.time ELSE w.frames[n].batch.time
    <2>1. 1..n = {} <=> n = 0
      OBVIOUS
    <2> QED
      BY <1>1, <1>3, <2>1 DEF LastTime
  <1>6. {j \in FullFrames(w) : WalSeq(w, j) > m.last} = 1..n
    BY <1>1, <1>2
  <1>7. WalData(w, m) = {w.frames[i].batch : i \in 1..n}
    BY <1>6 DEF WalData
  <1> QED
    BY <1>1, <1>3, <1>4, <1>5, <1>7 DEF FreshView

\* The number of committed frames of a log that follows the manifest.
LEMMA FreshCount ==
  ASSUME NEW w \in WalImage, NEW m, m.last \in Nat, FreshLog(w, m)
  PROVE  /\ FreshView(w, m, Cardinality(FullFrames(w)))
         /\ Cardinality(FullFrames(w)) \in Nat /\ Len(w.frames) \in Nat
  <1>1. Len(w.frames) \in Nat
    BY DEF WalImage
  <1> DEFINE n == IF w.frames = <<>> \/ w.frames[Len(w.frames)].state = "full"
                  THEN Len(w.frames) ELSE Len(w.frames) - 1
  <1>2. w.frames # <<>> => Len(w.frames) >= 1
    BY DEF WalImage
  <1>3. n \in Nat /\ n <= Len(w.frames) /\ Len(w.frames) <= n + 1
    BY <1>1, <1>2
  <1>4. \A i \in 1..Len(w.frames) : w.frames[i].state = "full" <=> i <= n
    <2>1. \A i \in 1..Len(w.frames) : w.frames[i].state = "full" \/ i = Len(w.frames)
      BY DEF FreshLog
    <2>2. \A i \in 1..Len(w.frames) : w.frames # <<>>
      OBVIOUS
    <2> QED
      BY <1>1, <2>1, <2>2
  <1> HIDE DEF n
  <1>5. FreshView(w, m, n)
    BY <1>3, <1>4, FreshFacts
  <1>6. Cardinality(FullFrames(w)) = n
    BY <1>5 DEF FreshView
  <1> QED
    BY <1>1, <1>3, <1>5, <1>6

\* A log that the manifest has installed holds nothing after it.
LEMMA StaleFacts ==
  ASSUME NEW w \in WalImage, NEW m, m.last \in Nat, StaleLog(w, m)
  PROVE  /\ Stale(w, m) /\ LastSequence(w, m) = m.last /\ LastTime(w, m) = m.time
         /\ WalData(w, m) = {}
         /\ Cardinality(FullFrames(w)) = Len(w.frames)
         /\ FullFrames(w) = 1..Len(w.frames)
  <1>1. Len(w.frames) \in Nat /\ Len(w.frames) >= 1 /\ Len(w.frames) <= m.last
    BY DEF WalImage, StaleLog
  <1>2. FullFrames(w) = 1..Len(w.frames) /\ Cardinality(FullFrames(w)) = Len(w.frames)
    <2>1. \A i \in 1..Len(w.frames) : w.frames[i].state = "full" <=> i <= Len(w.frames)
      BY <1>1 DEF StaleLog
    <2>2. Len(w.frames) <= Len(w.frames)
      BY <1>1
    <2> QED
      BY <1>1, <2>1, <2>2, FullRun
  <1>3. \A i \in 1..Len(w.frames) : WalSeq(w, i) \in Nat /\ WalSeq(w, i) + Len(w.frames) = m.last + i
    BY WalBatchType DEF StaleLog
  <1>4. PICK s \in Nat : s = WalSeq(w, 1) /\ s + Len(w.frames) = m.last + 1
    BY <1>1, <1>3
  <1>5. s \in 1..m.last /\ w.frames[1].state = "full" /\ w.frames # <<>>
    BY <1>1, <1>4 DEF StaleLog
  <1>6. Stale(w, m)
    BY <1>4, <1>5 DEF Stale
  <1>7. LastSequence(w, m) = m.last
    BY <1>1, <1>2, <1>4, <1>6 DEF LastSequence, WalBase
  <1>8. LastTime(w, m) = m.time
    BY <1>6 DEF LastTime
  <1>9. WalData(w, m) = {}
    <2>1. \A i \in FullFrames(w) : ~ (WalSeq(w, i) > m.last)
      BY <1>1, <1>2, <1>3
    <2> QED
      BY <2>1 DEF WalData
  <1> QED
    BY <1>2, <1>6, <1>7, <1>8, <1>9

\* What the log contributes depends on the installed sequence and time alone.
LEMMA LogAlike ==
  ASSUME NEW w, NEW m, NEW m2, m2.last = m.last, m2.time = m.time
  PROVE  /\ Fits(w, m2) <=> Fits(w, m)
         /\ FreshLog(w, m2) <=> FreshLog(w, m)
         /\ StaleLog(w, m2) <=> StaleLog(w, m)
         /\ WalData(w, m2) = WalData(w, m) /\ LastSequence(w, m2) = LastSequence(w, m)
         /\ LastTime(w, m2) = LastTime(w, m) /\ (Stale(w, m2) <=> Stale(w, m))
  <1>1. Stale(w, m2) <=> Stale(w, m)
    BY DEF Stale
  <1>2. (FreshLog(w, m2) <=> FreshLog(w, m)) /\ (StaleLog(w, m2) <=> StaleLog(w, m))
    BY DEF FreshLog, StaleLog
  <1>3. Fits(w, m2) <=> Fits(w, m)
    BY <1>2 DEF Fits
  <1>4. WalData(w, m2) = WalData(w, m)
    BY DEF WalData
  <1>5. LastSequence(w, m2) = LastSequence(w, m)
    BY <1>1 DEF LastSequence, WalBase
  <1>6. LastTime(w, m2) = LastTime(w, m)
    BY <1>1 DEF LastTime
  <1> QED
    BY <1>1, <1>2, <1>3, <1>4, <1>5, <1>6

\* What a pair holds: the data of its manifest, and of the log what follows.
LEMMA HeldIs ==
  ASSUME NEW d, NEW w
  PROVE  Held(d, w) = Data(d, ReadManifests(d)) \cup WalData(w, ReadManifests(d))
  BY DEF Held, Data, WalData

\* An empty log.
LEMMA EmptyLog ==
  ASSUME NEW w \in WalImage, w.frames = <<>>, NEW m, m.last \in Nat
  PROVE  /\ FreshView(w, m, 0) /\ FreshLog(w, m) /\ Fits(w, m) /\ Len(w.frames) = 0
         /\ WalData(w, m) = {} /\ LastSequence(w, m) = m.last /\ LastTime(w, m) = m.time
  <1>1. Len(w.frames) = 0
    OBVIOUS
  <1>2. FreshLog(w, m) /\ Fits(w, m)
    BY <1>1, CapacityAssumption DEF FreshLog, Fits
  <1>3. FreshView(w, m, 0)
    BY <1>1, <1>2, FreshFacts
  <1>4. WalData(w, m) = {}
    <2>1. 1..0 = {}
      OBVIOUS
    <2> QED
      BY <1>3, <2>1 DEF FreshView
  <1> QED
    BY <1>1, <1>2, <1>3, <1>4 DEF FreshView

------------------------------------------------------------------------------
(* What survives of both files. *)

\* Two logs that contribute the same after a manifest.
LogSame(w, v, m) == /\ WalData(v, m) = WalData(w, m) /\ LastSequence(v, m) = LastSequence(w, m)
                    /\ LastTime(v, m) = LastTime(w, m)

\* A frame that was not committed counts for nothing, however much of it is there.
LEMMA ShortenedLog ==
  ASSUME NEW v \in WalImage, NEW m, m.last \in Nat, Fits(v, m), v.frames # <<>>,
         v.frames[Len(v.frames)].state # "full",
         NEW y \in WalImage, y = [v EXCEPT !.frames[Len(v.frames)].state = "short"]
  PROVE  Fits(y, m) /\ LogSame(v, y, m) /\ Len(y.frames) = Len(v.frames) /\ y.header = v.header
         /\ y.frames[Len(y.frames)].state = "short"
  <1> DEFINE k == Len(v.frames)
  <1>1. k \in Nat /\ k >= 1 /\ k \in 1..k /\ DOMAIN v.frames = 1..k
    BY DEF WalImage
  <1>2. /\ y.header = v.header /\ DOMAIN y.frames = 1..k
        /\ \A i \in 1..k : y.frames[i] = IF i = k THEN [v.frames[k] EXCEPT !.state = "short"]
                                         ELSE v.frames[i]
    BY <1>1 DEF WalImage
  <1>3. Len(y.frames) = k
    BY <1>1, <1>2 DEF WalImage
  <1>4. \A i \in 1..k : v.frames[i] \in WalFrame
    BY DEF WalImage
  <1>5. y.frames[k].state = "short" /\ y.frames[k].batch = v.frames[k].batch
    BY <1>1, <1>2, <1>4 DEF WalFrame
  <1>6. \A i \in 1..k : /\ y.frames[i].batch = v.frames[i].batch
                        /\ i # k => y.frames[i].state = v.frames[i].state
    BY <1>2, <1>5
  <1> HIDE DEF k
  <1>7. FreshLog(v, m)
    BY <1>1 DEF Fits, StaleLog, k
  <1>8. FreshLog(y, m)
    <2>1. Len(v.frames) = k
      BY DEF k
    <2>2. \A i \in 1..k : WalSeq(y, i) = WalSeq(v, i)
      BY <1>6 DEF WalSeq
    <2>3. \A i \in 1..k : y.frames[i].state = "full" \/ i = k
      BY <1>6, <1>7, <2>1 DEF FreshLog
    <2> QED
      BY <1>3, <1>7, <2>1, <2>2, <2>3 DEF FreshLog
  <1>9. Fits(y, m)
    <2>1. \A i \in 1..Len(y.frames) : y.frames[i].batch \in LogBatch
      BY <1>3, <1>6 DEF Fits, k
    <2>2. y.header # "valid" => y.frames = <<>>
      BY <1>2 DEF Fits
    <2> QED
      BY <1>8, <2>1, <2>2 DEF Fits
  <1>10. PICK n \in Nat : n + 1 = k
    <2>1. k - 1 \in Nat /\ (k - 1) + 1 = k
      BY <1>1
    <2> QED
      BY <2>1
  <1>11. \A i \in 1..k : v.frames[i].state = "full" <=> i <= n
    <2>1. \A i \in 1..k : v.frames[i].state = "full" \/ i = k
      BY <1>7 DEF FreshLog, k
    <2>2. v.frames[k].state # "full"
      BY DEF k
    <2> QED
      BY <1>1, <1>10, <2>1, <2>2
  <1>12. \A i \in 1..k : y.frames[i].state = "full" <=> i <= n
    BY <1>1, <1>5, <1>6, <1>10, <1>11
  <1>13. FreshView(v, m, n)
    <2>1. Len(v.frames) = k /\ n <= k /\ k <= n + 1
      BY <1>10, <1>1 DEF k
    <2> QED
      BY <1>7, <1>11, <2>1, FreshFacts
  <1>14. FreshView(y, m, n)
    <2>1. n <= k /\ k <= n + 1
      BY <1>10, <1>1
    <2> QED
      BY <1>3, <1>8, <1>12, <2>1, FreshFacts
  <1>15. LogSame(v, y, m)
    <2>1. \A i \in 1..n : y.frames[i].batch = v.frames[i].batch
      BY <1>1, <1>6, <1>10
    <2>2. {y.frames[i].batch : i \in 1..n} = {v.frames[i].batch : i \in 1..n}
      BY <2>1, Zenon
    <2>3. n # 0 => y.frames[n].batch = v.frames[n].batch
      BY <2>1
    <2> QED
      BY <1>13, <1>14, <2>2, <2>3 DEF FreshView, LogSame
  <1> QED
    BY <1>2, <1>3, <1>5, <1>9, <1>15 DEF k

\* Whatever a write leaves of the log is the old log, or contributes as the new.
LEMMA WalSettled ==
  ASSUME NEW w \in WalImage, NEW v \in WalImage, NEW m, m.last \in Nat,
         Fits(w, m), Fits(v, m), LogBridge(w, v), NEW y \in WalOutcomes(w, v)
  PROVE  /\ y \in WalImage /\ Fits(y, m) /\ LogBridge(w, y) /\ LogBridge(y, y)
         /\ y = w \/ LogSame(v, y, m)
  <1>0. y \in WalImage
    BY WalOutcomesType
  <1>1. \A z \in WalImage : LogBridge(z, z) /\ Len(z.frames) \in Nat
    BY DEF LogBridge, WalImage
  <1>2. CASE y = w
    BY <1>0, <1>1, <1>2
  <1>3. CASE y = v
    BY <1>0, <1>1, <1>3 DEF LogSame
  <1>4. CASE w.header # v.header /\ y = NewWal("short")
    <2>1. w.frames = <<>> /\ v.frames = <<>> /\ y.frames = <<>>
      BY <1>4 DEF LogBridge, NewWal
    <2>2. LogSame(v, y, m) /\ Fits(y, m)
      BY <1>0, <2>1, EmptyLog DEF LogSame
    <2>3. LogBridge(w, y)
      BY <1>1, <2>1 DEF LogBridge
    <2> QED
      BY <1>0, <1>1, <2>2, <2>3
  <1>5. CASE /\ Len(v.frames) = Len(w.frames) + 1
             /\ y = [v EXCEPT !.frames[Len(v.frames)].state = "short"]
    <2>1. v.frames # <<>> /\ v.frames[Len(v.frames)].state # "full"
      BY <1>1, <1>5 DEF LogBridge
    <2>2. /\ Fits(y, m) /\ LogSame(v, y, m) /\ Len(y.frames) = Len(v.frames)
          /\ y.header = v.header /\ y.frames[Len(y.frames)].state = "short"
      BY <1>0, <1>5, <2>1, ShortenedLog
    <2>3. LogBridge(w, y)
      BY <2>1, <2>2 DEF LogBridge
    <2> QED
      BY <1>0, <1>1, <2>2, <2>3
  <1> QED
    BY <1>2, <1>3, <1>4, <1>5 DEF WalOutcomes

\* Pairs with one manifest are the same if their data and logs are.
LEMMA SameIf ==
  ASSUME NEW d, NEW c, NEW w, NEW v, NEW m, ReadManifests(d) = m, ReadManifests(c) = m,
         Data(c, m) = Data(d, m), v = w \/ LogSame(w, v, m)
  PROVE  Same(d, w, c, v)
  BY HeldIs DEF Same, LogSame, High, Floor

\* A view may be replaced by one that is the same.
LEMMA SameThen ==
  ASSUME NEW d, NEW w, NEW c, NEW v, NEW x, NEW y, NEW D, Same(c, v, x, y)
  PROVE  /\ Same(d, w, c, v) => Same(d, w, x, y)
         /\ Removes(d, w, c, v, D) => Removes(d, w, x, y, D)
         /\ Commits(d, w, c, v) => Commits(d, w, x, y)
  <1>1. Held(x, y) = Held(c, v) /\ High(x, y) = High(c, v) /\ Floor(x, y) = Floor(c, v)
    BY DEF Same
  <1>2. Same(d, w, c, v) => Same(d, w, x, y)
    BY <1>1 DEF Same
  <1>3. Removes(d, w, c, v, D) => Removes(d, w, x, y, D)
    BY <1>1 DEF Removes
  <1>4. Commits(d, w, c, v) => Commits(d, w, x, y)
    BY <1>1 DEF Commits
  <1> QED
    BY <1>2, <1>3, <1>4

\* A pair with nothing in flight.
LEMMA FilesSelf ==
  ASSUME NEW d \in DbImage, NEW w \in WalImage, NEW m \in Manifest, NEW D,
         Presents(d, m), Whole(d, m), Fits(w, m)
  PROVE  Files(d, d, w, w, D)
  <1>1. ReadManifests(d) = m
    BY PresentsReads
  <1>2. Bridge(d, d, m, m)
    BY BridgeSelf
  <1>3. LogBridge(w, w)
    BY DEF LogBridge, WalImage
  <1>4. Same(d, w, d, w)
    BY DEF Same
  <1> QED
    BY <1>1, <1>2, <1>3, <1>4 DEF Files

\* The manifests of the files that Files relates.
LEMMA FilesManifests ==
  ASSUME NEW d \in DbImage, NEW c \in DbImage, NEW w, NEW v, NEW D, Files(d, c, w, v, D)
  PROVE  /\ ReadManifests(d) \in Manifest /\ ReadManifests(c) \in Manifest
         /\ ReadManifests(d).last \in Nat /\ ReadManifests(c).last \in Nat
         /\ ReadManifests(d).time \in Nat /\ ReadManifests(c).time \in Nat
         /\ Presents(d, ReadManifests(d)) /\ Presents(c, ReadManifests(c))
         /\ Valid(ReadManifests(d)) /\ Valid(ReadManifests(c))
         /\ Whole(d, ReadManifests(d)) /\ Whole(c, ReadManifests(c))
  <1>1. ReadManifests(d) \in Manifest /\ ReadManifests(c) \in Manifest
    BY ReadManifestsType
  <1>2. \A m \in Manifest : m.last \in Nat /\ m.time \in Nat
    BY DEF Manifest
  <1> QED
    BY <1>1, <1>2 DEF Files, Bridge, Presents

\* What a failed write or a power failure leaves of both files: the manifest and
\* the view of the disk or of the cache.
LEMMA FilesOutcome ==
  ASSUME NEW d \in DbImage, NEW c \in DbImage, NEW w \in WalImage, NEW v \in WalImage, NEW D,
         Files(d, c, w, v, D), NEW x \in DbOutcomes(d, c), NEW y \in WalOutcomes(w, v)
  PROVE  /\ x \in DbImage /\ y \in WalImage
         /\ Files(d, x, w, y, D) /\ Files(x, x, y, y, D)
         /\ \/ ReadManifests(x) = ReadManifests(d) /\ Same(d, w, x, y)
            \/ ReadManifests(x) = ReadManifests(c) /\ Same(c, v, x, y)
  <1> DEFINE a == ReadManifests(d)
             b == ReadManifests(c)
             p == ReadManifests(x)
  <1>0. a \in Manifest /\ b \in Manifest /\ a.last \in Nat /\ b.last \in Nat
    BY FilesManifests
  <1>1. Bridge(d, c, a, b)
    BY DEF Files
  <1>2. x \in DbImage /\ (Settled(d, c, a, b, x, a) \/ Settled(d, c, a, b, x, b))
    BY <1>0, <1>1, OutcomeSettled
  <1>3. p \in Manifest /\ Settled(d, c, a, b, x, p) /\ Presents(x, p) /\ Whole(x, p)
    <2>1. CASE Settled(d, c, a, b, x, a)
      <3>1. Presents(x, a) /\ Whole(x, a)
        BY <2>1 DEF Settled, Bridge
      <3> QED
        BY <1>0, <1>2, <2>1, <3>1, PresentsReads
    <2>2. CASE Settled(d, c, a, b, x, b)
      <3>1. Presents(x, b) /\ Whole(x, b)
        BY <2>2 DEF Settled, Bridge
      <3> QED
        BY <1>0, <1>2, <2>2, <3>1, PresentsReads
    <2> QED
      BY <1>2, <2>1, <2>2
  <1>4. (p = a \/ p = b) /\ Bridge(d, x, a, p) /\ Data(x, p) = IF p = a THEN Data(d, a) ELSE Data(c, b)
    BY <1>3 DEF Settled
  <1>5. /\ Fits(w, a) /\ Fits(v, b) /\ LogBridge(w, v)
        /\ \/ Same(d, w, c, v)
           \/ a # b /\ Removes(d, w, c, v, D)
           \/ a = b /\ Commits(d, w, c, v)
        /\ a # b => w = v
    BY DEF Files
  <1> HIDE DEF a, b, p
  <1>6. Same(d, w, d, w) /\ Same(c, v, c, v)
    BY DEF Same
  <1>7. CASE a = b
    <2>1. Fits(w, a) /\ Fits(v, a)
      BY <1>5, <1>7
    <2>2. /\ y \in WalImage /\ Fits(y, a) /\ LogBridge(w, y) /\ LogBridge(y, y)
          /\ y = w \/ LogSame(v, y, a)
      BY <1>0, <1>5, <2>1, WalSettled
    <2>3. p = a /\ Data(x, a) = Data(d, a) /\ Data(c, a) = Data(d, a)
      BY <1>0, <1>1, <1>4, <1>7, BridgeData
    <2>4. Files(x, x, y, y, D)
      BY <1>2, <1>3, <2>2, <2>3, FilesSelf
    <2>5. Same(d, w, x, y) \/ Same(c, v, x, y)
      BY <1>7, <2>2, <2>3, SameIf DEF a, b, p
    <2>6. Same(d, w, x, y) \/ Commits(d, w, x, y)
      BY <1>5, <1>7, <2>5, SameThen
    <2>7. Files(d, x, w, y, D)
      BY <1>4, <1>5, <2>2, <2>3, <2>6 DEF Files, a, b, p
    <2> QED
      BY <1>2, <1>7, <2>2, <2>3, <2>4, <2>5, <2>7 DEF a, b, p
  <1>8. CASE a # b
    <2>1. y = w /\ v = w
      <3>1. Len(w.frames) \in Nat
        BY DEF WalImage
      <3> QED
        BY <1>5, <1>8, <3>1 DEF WalOutcomes
    <2>2. Fits(y, p) /\ LogBridge(w, y)
      BY <1>4, <1>5, <2>1
    <2>3. Files(x, x, y, y, D)
      BY <1>2, <1>3, <2>1, <2>2, FilesSelf
    <2>4. CASE p = a
      <3>1. Data(x, a) = Data(d, a)
        BY <1>4, <2>4
      <3>2. Same(d, w, x, y)
        BY <2>1, <2>4, <3>1, SameIf DEF a, p
      <3>3. Files(d, x, w, y, D)
        BY <1>4, <1>5, <2>1, <2>2, <2>4, <3>2 DEF Files, a, p
      <3> QED
        BY <1>2, <2>1, <2>3, <2>4, <3>2, <3>3 DEF a, p
    <2>5. CASE p = b /\ p # a
      <3>1. Data(x, b) = Data(c, b)
        BY <1>4, <2>5
      <3>2. Same(c, v, x, y)
        BY <2>1, <2>5, <3>1, SameIf DEF b, p
      <3>3. Same(d, w, x, y) \/ Removes(d, w, x, y, D)
        BY <1>5, <1>8, <3>2, SameThen
      <3>4. Files(d, x, w, y, D)
        BY <1>4, <1>5, <2>1, <2>2, <2>5, <3>3 DEF Files, a, p
      <3> QED
        BY <1>2, <2>1, <2>3, <2>5, <3>2, <3>4 DEF b, p
    <2> QED
      BY <1>4, <2>4, <2>5
  <1> QED
    BY <1>7, <1>8

\* A sync of the database: if it brings a manifest, the view of the cache; if
\* not, no change of view.
LEMMA FilesSyncDb ==
  ASSUME NEW d \in DbImage, NEW c \in DbImage, NEW w \in WalImage, NEW v \in WalImage, NEW D,
         Files(d, c, w, v, D)
  PROVE  /\ Files(c, c, w, v, D)
         /\ \/ ReadManifests(c) = ReadManifests(d) /\ Same(d, w, c, w)
            \/ ReadManifests(c) # ReadManifests(d) /\ w = v
  <1> DEFINE a == ReadManifests(d)
             b == ReadManifests(c)
  <1>0. a \in Manifest /\ b \in Manifest /\ Presents(c, b) /\ Whole(c, b)
    BY FilesManifests
  <1>1. /\ Bridge(d, c, a, b) /\ Fits(w, a) /\ Fits(v, b) /\ LogBridge(w, v)
        /\ \/ Same(d, w, c, v)
           \/ a # b /\ Removes(d, w, c, v, D)
           \/ a = b /\ Commits(d, w, c, v)
        /\ a # b => w = v
    BY DEF Files
  <1>2. Bridge(c, c, b, b)
    BY <1>0, BridgeSelf
  <1> HIDE DEF a, b
  <1>3. CASE a = b
    <2>1. Data(c, a) = Data(d, a)
      BY <1>0, <1>1, <1>3, BridgeData
    <2>2. Same(d, w, c, w) /\ Same(c, w, d, w)
      BY <1>3, <2>1, SameIf DEF a, b
    <2>3. Same(c, w, c, v) \/ Commits(c, w, c, v)
      <3>1. Held(c, w) = Held(d, w) /\ High(c, w) = High(d, w) /\ Floor(c, w) = Floor(d, w)
        BY <2>2 DEF Same
      <3>2. Same(d, w, c, v) => Same(c, w, c, v)
        BY <3>1 DEF Same
      <3>3. Commits(d, w, c, v) => Commits(c, w, c, v)
        BY <3>1 DEF Commits
      <3> QED
        BY <1>1, <1>3, <3>2, <3>3
    <2>4. Files(c, c, w, v, D)
      BY <1>1, <1>2, <1>3, <2>3 DEF Files, b
    <2> QED
      BY <1>3, <2>2, <2>4 DEF a, b
  <1>4. CASE a # b
    <2>1. Files(c, c, w, v, D)
      BY <1>0, <1>1, <1>4, FilesSelf
    <2> QED
      BY <1>1, <1>4, <2>1 DEF a, b
  <1> QED
    BY <1>3, <1>4

\* A sync of the log.
LEMMA FilesSyncWal ==
  ASSUME NEW d \in DbImage, NEW c \in DbImage, NEW w \in WalImage, NEW v \in WalImage, NEW D,
         Files(d, c, w, v, D)
  PROVE  /\ Files(d, c, v, v, D)
         /\ \/ ReadManifests(c) = ReadManifests(d) /\ Same(c, v, d, v)
            \/ ReadManifests(c) # ReadManifests(d) /\ w = v
  <1> DEFINE a == ReadManifests(d)
             b == ReadManifests(c)
  <1>0. a \in Manifest /\ b \in Manifest
    BY FilesManifests
  <1>1. /\ Bridge(d, c, a, b) /\ Fits(w, a) /\ Fits(v, b) /\ LogBridge(w, v)
        /\ a # b => w = v
    BY DEF Files
  <1>2. LogBridge(v, v)
    BY DEF LogBridge, WalImage
  <1> HIDE DEF a, b
  <1>3. CASE a = b
    <2>1. Data(c, a) = Data(d, a)
      BY <1>0, <1>1, <1>3, BridgeData
    <2>2. Same(d, v, c, v) /\ Same(c, v, d, v)
      BY <1>3, <2>1, SameIf DEF a, b
    <2>3. Files(d, c, v, v, D)
      BY <1>1, <1>2, <1>3, <2>2 DEF Files, a, b
    <2> QED
      BY <1>3, <2>2, <2>3 DEF a, b
  <1>4. CASE a # b
    BY <1>1, <1>4 DEF a, b
  <1> QED
    BY <1>3, <1>4

------------------------------------------------------------------------------
(* The writes of the calls, from a disk that the cache repeats. *)

\* A write that leaves the manifest and its data alone.
LEMMA FilesKept ==
  ASSUME NEW d \in DbImage, NEW c \in DbImage, NEW w \in WalImage, NEW v \in WalImage, NEW D,
         Files(d, d, w, v, D), NEW m, m = ReadManifests(d), Agree(d, c, m), Presents(c, m)
  PROVE  /\ Files(d, c, w, v, D) /\ ReadManifests(c) = m /\ Same(d, v, c, v)
         /\ Whole(c, m) /\ Data(c, m) = Data(d, m)
  <1>0. m \in Manifest /\ Presents(d, m) /\ Whole(d, m)
    BY FilesManifests
  <1>2. Whole(c, m) /\ Data(c, m) = Data(d, m)
    <2>1. Bounds(m) /\ Alike(m, m)
      BY <1>0, ValidFields DEF Presents, Alike
    <2> QED
      BY <1>0, <2>1, WholeAgree
  <1>3. ReadManifests(c) = m
    BY <1>0, PresentsReads
  <1>4. Bridge(d, c, m, m)
    BY <1>0, <1>2 DEF Bridge
  <1>5. Same(d, v, c, v)
    BY <1>2, <1>3, SameIf
  <1>6. Same(d, w, c, v) \/ Commits(d, w, c, v)
    BY <1>5, SameThen DEF Files
  <1>7. Files(d, c, w, v, D)
    BY <1>3, <1>4, <1>6 DEF Files
  <1> QED
    BY <1>2, <1>3, <1>5, <1>7

\* A write that leaves the slots and the listed data alone.
LEMMA FilesData ==
  ASSUME NEW d \in DbImage, NEW c \in DbImage, NEW w \in WalImage, NEW v \in WalImage, NEW D,
         Files(d, d, w, v, D), NEW m, m = ReadManifests(d),
         Agree(d, c, m), c.slot = d.slot, c.header = d.header, m.end <= c.size \/ m = EmptyManifest
  PROVE  /\ Files(d, c, w, v, D) /\ ReadManifests(c) = m /\ Same(d, v, c, v)
         /\ Whole(c, m) /\ Data(c, m) = Data(d, m)
  <1>1. Presents(c, m)
    BY FilesManifests DEF Presents
  <1> QED
    BY <1>1, FilesKept

\* A write of the next manifest, with its data in place.
LEMMA FilesSlot ==
  ASSUME NEW d \in DbImage, NEW w \in WalImage, NEW D,
         Files(d, d, w, w, D), d.header = "valid",
         NEW a, a = ReadManifests(d), NEW b \in Manifest, Valid(b), b.revision = a.revision + 1,
         b.end <= d.size, Whole(d, b), NEW c \in DbImage, c = WriteSlot(d, b.revision, b),
         Fits(w, b), ReadManifests(c) = b => Same(d, w, c, w) \/ Removes(d, w, c, w, D)
  PROVE  /\ Files(d, c, w, w, D) /\ ReadManifests(c) = b
         /\ c.cell = d.cell /\ c.size = d.size /\ c.header = "valid"
  <1>0. a \in Manifest /\ Presents(d, a) /\ Whole(d, a) /\ a.revision \in Nat /\ Bounds(b)
        /\ b.revision \in Nat /\ d.size \in Nat
    <2>1. a \in Manifest /\ Presents(d, a) /\ Whole(d, a)
      BY FilesManifests
    <2> QED
      BY <2>1, ValidFields DEF Presents, DbImage
  <1>1. PICK i \in {0, 1}, j \in {0, 1} : i = a.revision % 2 /\ j = b.revision % 2 /\ i # j
    BY <1>0
  <1>2. /\ c.header = d.header /\ c.size = d.size /\ c.cell = d.cell
        /\ c.slot[j] = b /\ c.slot[i] = d.slot[i]
    BY <1>1 DEF WriteSlot, DbImage
  <1>3. Presents(c, b)
    <2>1. d.slot[i] = a \/ d.slot[i].kind = "none" \/ d.slot[i].revision < a.revision
      BY <1>0, <1>1 DEF Presents
    <2>2. d.slot[i].revision \in Nat
      BY DEF DbImage, Manifest
    <2>3. c.slot[i].kind = "none" \/ c.slot[i].revision < b.revision
      BY <1>0, <1>2, <2>1, <2>2
    <2>4. \A k \in {0, 1} : c.slot[k] = b \/ c.slot[k].kind = "none" \/ c.slot[k].revision < b.revision
      BY <1>1, <1>2, <2>3
    <2>5. c.slot[b.revision % 2] = b /\ c.header = "valid" /\ b.end <= c.size
      BY <1>1, <1>2
    <2> QED
      BY <2>4, <2>5 DEF Presents
  <1>4. Agree(d, c, a) /\ Agree(d, c, b)
    BY <1>2 DEF Agree
  <1>5. Whole(c, b)
    <2>1. Alike(b, b)
      BY DEF Alike
    <2> QED
      BY <1>0, <1>4, <2>1, WholeAgree
  <1>6. ReadManifests(c) = b
    BY <1>3, PresentsReads
  <1>7. Bridge(d, c, a, b)
    <2>1. d.size <= c.size
      BY <1>0, <1>2
    <2>2. c.slot[a.revision % 2] = d.slot[a.revision % 2]
      BY <1>1, <1>2
    <2> QED
      BY <1>0, <1>3, <1>4, <1>5, <2>1, <2>2 DEF Bridge
  <1>8. a # b
    BY <1>0
  <1> QED
    BY <1>2, <1>6, <1>7, <1>8 DEF Files

\* The records of a pair follow its view, as long as it comes into no phase
\* after a removal.
LEMMA RecordedSame ==
  ASSUME NEW d, NEW w, NEW x, NEW y, NEW n, NEW A, NEW D, NEW E,
         Recorded(d, w, n, A, D, E), Same(d, w, x, y),
         ReadManifests(x).phase \in {2, 3} =>
            ReadManifests(d).phase \in {2, 3} \/ Held(d, w) \cap D = {}
  PROVE  Recorded(x, y, n, A, D, E)
  <1>1. Held(x, y) = Held(d, w) /\ High(x, y) = High(d, w)
    BY DEF Same
  <1> QED
    BY <1>1 DEF Recorded

\* Files of a pair that was never written but for its headers.
LEMMA FilesEmpty ==
  ASSUME NEW d \in DbImage, NEW c \in DbImage, NEW w \in WalImage, NEW v \in WalImage, NEW D,
         Presents(d, EmptyManifest), Presents(c, EmptyManifest), w.frames = <<>>, v.frames = <<>>
  PROVE  /\ Files(d, c, w, v, D) /\ Same(d, w, c, v)
         /\ ReadManifests(d) = EmptyManifest /\ ReadManifests(c) = EmptyManifest
         /\ Held(d, w) = {} /\ High(d, w) = 0 /\ Floor(d, w) = 0
  <1> DEFINE m == EmptyManifest
  <1>0. EmptyManifest.last \in Nat /\ EmptyManifest.last = 0 /\ EmptyManifest.time = 0
    BY EmptyWhole
  <1>1. ReadManifests(d) = EmptyManifest /\ ReadManifests(c) = EmptyManifest
    BY EmptyWhole, PresentsReads
  <1>2. /\ Fits(w, m) /\ WalData(w, m) = {} /\ LastSequence(w, m) = 0 /\ LastTime(w, m) = 0
        /\ Len(w.frames) = 0
    BY <1>0, EmptyLog
  <1>3. /\ Fits(v, m) /\ WalData(v, m) = {} /\ LastSequence(v, m) = 0 /\ LastTime(v, m) = 0
        /\ Len(v.frames) = 0
    BY <1>0, EmptyLog
  <1>4. Data(d, m) = {} /\ Data(c, m) = {}
    BY EmptyWhole
  <1>5. /\ Held(d, w) = {} /\ Held(c, v) = {} /\ High(d, w) = 0 /\ High(c, v) = 0
        /\ Floor(d, w) = 0 /\ Floor(c, v) = 0
    BY <1>1, <1>2, <1>3, <1>4, HeldIs DEF High, Floor
  <1>6. Same(d, w, c, v)
    BY <1>5 DEF Same
  <1>7. LogBridge(w, v)
    BY <1>2, <1>3 DEF LogBridge
  <1>8. Bridge(d, c, EmptyManifest, EmptyManifest)
    BY EmptyWhole DEF Bridge
  <1>9. Files(d, c, w, v, D)
    BY <1>1, <1>2, <1>3, <1>6, <1>7, <1>8 DEF Files
  <1> QED
    BY <1>1, <1>5, <1>6, <1>9

------------------------------------------------------------------------------
(* The writes to the log. *)

\* append writes a frame without its commit record: it does not count yet.
LEMMA AppendedLog ==
  ASSUME NEW w \in WalImage, NEW v \in WalImage, NEW m, m.last \in Nat, FreshLog(w, m), Fits(w, m),
         NEW n \in Nat, FullFrames(w) = 1..n, Len(w.frames) = n, n < WalCapacity,
         w.header = "valid",
         NEW b \in LogBatch, b.seq = m.last + n + 1,
         v = [w EXCEPT !.frames = Append(@, [batch |-> b, state |-> "open"])]
  PROVE  /\ FreshLog(v, m) /\ Fits(v, m) /\ LogBridge(w, v) /\ LogSame(w, v, m)
         /\ FreshView(v, m, n) /\ Len(v.frames) = n + 1 /\ v.header = "valid"
         /\ v.frames[n + 1] = [batch |-> b, state |-> "open"]
         /\ \A i \in 1..n : v.frames[i] = w.frames[i]
  <1>1. w.frames \in Seq(WalFrame) /\ DOMAIN w.frames = 1..n
    BY DEF WalImage
  <1>2. /\ v.frames = Append(w.frames, [batch |-> b, state |-> "open"]) /\ v.header = "valid"
    BY DEF WalImage
  <1>3. /\ Len(v.frames) = n + 1 /\ v.frames[n + 1] = [batch |-> b, state |-> "open"]
        /\ \A i \in 1..n : v.frames[i] = w.frames[i]
    BY <1>1, <1>2
  <1>4. \A i \in 1..(n + 1) : i \in 1..n \/ i = n + 1
    OBVIOUS
  <1>5. \A i \in 1..n : w.frames[i].state = "full" /\ WalSeq(w, i) = m.last + i
                        /\ w.frames[i].batch \in LogBatch
    <2>1. \A i \in 1..n : i \in FullFrames(w)
      OBVIOUS
    <2> QED
      BY <2>1 DEF FullFrames, FreshLog, Fits
  <1>6. \A i \in 1..(n + 1) : /\ WalSeq(v, i) = m.last + i
                              /\ v.frames[i].state = "full" <=> i <= n
                              /\ v.frames[i].batch \in LogBatch
    <2>1. \A i \in 1..n : /\ WalSeq(v, i) = m.last + i /\ v.frames[i].state = "full"
                          /\ v.frames[i].batch \in LogBatch
      BY <1>3, <1>5 DEF WalSeq
    <2>2. WalSeq(v, n + 1) = m.last + (n + 1) /\ v.frames[n + 1].state = "open"
          /\ v.frames[n + 1].batch = b
      <3>1. v.frames[n + 1].batch = b /\ v.frames[n + 1].state = "open"
        BY <1>3
      <3>2. m.last + n + 1 = m.last + (n + 1)
        OBVIOUS
      <3>3. WalSeq(v, n + 1) = b.seq
        BY <3>1 DEF WalSeq
      <3> QED
        BY <3>1, <3>2, <3>3
    <2>3. ASSUME NEW i \in 1..(n + 1)
          PROVE  /\ WalSeq(v, i) = m.last + i
                 /\ v.frames[i].state = "full" <=> i <= n
                 /\ v.frames[i].batch \in LogBatch
      <3>1. CASE i \in 1..n
        <4>1. WalSeq(v, i) = m.last + i /\ v.frames[i].state = "full" /\ v.frames[i].batch \in LogBatch
          BY <2>1, <3>1
        <4>2. i <= n
          BY <3>1
        <4> QED
          BY <4>1, <4>2
      <3>2. CASE i = n + 1
        BY <2>2, <3>2
      <3> QED
        BY <1>4, <3>1, <3>2
    <2> QED
      BY <2>3
  <1>7. FreshLog(v, m)
    <2>1. n + 1 <= WalCapacity
      BY CapacityAssumption
    <2>2. \A i \in 1..(n + 1) : v.frames[i].state = "full" \/ i = n + 1
      BY <1>6
    <2> QED
      BY <1>3, <1>6, <2>1, <2>2 DEF FreshLog
  <1>8. Fits(v, m)
    BY <1>2, <1>3, <1>6, <1>7 DEF Fits
  <1>9. FreshView(v, m, n)
    <2>1. n <= Len(v.frames) /\ Len(v.frames) <= n + 1
      BY <1>3
    <2>2. \A i \in 1..Len(v.frames) : v.frames[i].state = "full" <=> i <= n
      BY <1>3, <1>6
    <2> QED
      BY <1>7, <2>1, <2>2, FreshFacts
  <1>10. FreshView(w, m, n)
    BY <1>5, FreshFacts
  <1>11. {v.frames[i].batch : i \in 1..n} = {w.frames[i].batch : i \in 1..n}
    BY <1>3, Zenon
  <1>12. LogSame(w, v, m)
    <2>1. n # 0 => v.frames[n] = w.frames[n]
      BY <1>3
    <2> QED
      BY <1>9, <1>10, <1>11, <2>1 DEF FreshView, LogSame
  <1>13. LogBridge(w, v)
    BY <1>2, <1>3 DEF LogBridge
  <1> QED
    BY <1>2, <1>3, <1>7, <1>8, <1>9, <1>12, <1>13

\* The commit record makes the last frame count.
LEMMA CommittedLog ==
  ASSUME NEW w \in WalImage, NEW v \in WalImage, NEW m, m.last \in Nat, FreshLog(w, m), Fits(w, m),
         NEW n \in Nat, FullFrames(w) = 1..n, Len(w.frames) = n + 1,
         v = [w EXCEPT !.frames[Len(w.frames)].state = "full"]
  PROVE  /\ FreshLog(v, m) /\ Fits(v, m) /\ LogBridge(w, v) /\ v.header = w.header
         /\ FreshView(w, m, n) /\ FreshView(v, m, n + 1) /\ Len(v.frames) = n + 1
         /\ \A i \in 1..(n + 1) : v.frames[i].batch = w.frames[i].batch
         /\ w.frames[n + 1].batch \in LogBatch /\ w.frames[n + 1].batch.seq = m.last + n + 1
  <1>1. w.frames \in Seq(WalFrame) /\ DOMAIN w.frames = 1..(n + 1)
    BY DEF WalImage
  <1>2. /\ v.header = w.header /\ DOMAIN v.frames = 1..(n + 1)
        /\ \A i \in 1..(n + 1) : v.frames[i] = IF i = n + 1 THEN [w.frames[n + 1] EXCEPT !.state = "full"]
                                               ELSE w.frames[i]
    BY <1>1 DEF WalImage
  <1>3. Len(v.frames) = n + 1
    BY <1>2 DEF WalImage
  <1>4. w.frames[n + 1] \in WalFrame
    BY <1>1
  <1>5. \A i \in 1..(n + 1) : i \in 1..n \/ i = n + 1
    OBVIOUS
  <1>6. /\ \A i \in 1..(n + 1) : v.frames[i].batch = w.frames[i].batch
        /\ v.frames[n + 1].state = "full" /\ \A i \in 1..n : v.frames[i].state = w.frames[i].state
    BY <1>2, <1>4, <1>5 DEF WalFrame
  <1>7. \A i \in 1..n : w.frames[i].state = "full"
    <2>1. \A i \in 1..n : i \in FullFrames(w)
      OBVIOUS
    <2> QED
      BY <2>1 DEF FullFrames
  <1>8. w.frames[n + 1].state # "full"
    <2>1. n + 1 \notin FullFrames(w) /\ n + 1 \in DOMAIN w.frames
      BY <1>1
    <2> QED
      BY <2>1 DEF FullFrames
  <1>9. \A i \in 1..(n + 1) : WalSeq(v, i) = m.last + i /\ WalSeq(w, i) = m.last + i
    <2>1. \A i \in 1..(n + 1) : WalSeq(w, i) = m.last + i
      BY DEF FreshLog
    <2> QED
      BY <1>6, <2>1 DEF WalSeq
  <1>10. \A i \in 1..(n + 1) : v.frames[i].state = "full"
    BY <1>5, <1>6, <1>7
  <1>11. FreshLog(v, m)
    BY <1>3, <1>9, <1>10 DEF FreshLog
  <1>12. \A i \in 1..(n + 1) : w.frames[i].batch \in LogBatch
    BY DEF Fits
  <1>13. Fits(v, m)
    <2>1. w.frames # <<>>
      OBVIOUS
    <2>2. v.header = "valid"
      BY <1>2, <2>1 DEF Fits
    <2> QED
      BY <1>3, <1>6, <1>11, <1>12, <2>2 DEF Fits
  <1>14. FreshView(w, m, n)
    <2>1. \A i \in 1..(n + 1) : w.frames[i].state = "full" <=> i <= n
      BY <1>5, <1>7, <1>8
    <2> QED
      BY <2>1, FreshFacts
  <1>15. FreshView(v, m, n + 1)
    <2>1. \A i \in 1..Len(v.frames) : v.frames[i].state = "full" <=> i <= n + 1
      BY <1>3, <1>10
    <2>2. n + 1 \in Nat /\ n + 1 <= Len(v.frames) /\ Len(v.frames) <= (n + 1) + 1
      BY <1>3
    <2> QED
      BY <1>11, <2>1, <2>2, FreshFacts
  <1>16. LogBridge(w, v)
    BY <1>2, <1>3 DEF LogBridge
  <1>17. w.frames[n + 1].batch.seq = m.last + n + 1
    <2>1. n + 1 \in 1..(n + 1) /\ m.last + (n + 1) = m.last + n + 1
      OBVIOUS
    <2>2. WalSeq(w, n + 1) = m.last + n + 1
      BY <1>9, <2>1
    <2> QED
      BY <2>2 DEF WalSeq
  <1>18. w.frames[n + 1].batch \in LogBatch
    BY <1>12
  <1> QED
    BY <1>2, <1>3, <1>6, <1>11, <1>13, <1>14, <1>15, <1>16, <1>17, <1>18

\* open empties a log that is installed, and cuts a frame that is not complete.
LEMMA TrimmedLog ==
  ASSUME NEW w \in WalImage, NEW v \in WalImage, NEW m, m.last \in Nat, Fits(w, m),
         NEW n, n = IF Stale(w, m) THEN 0 ELSE Cardinality(FullFrames(w)),
         v = [w EXCEPT !.frames = SubSeq(@, 1, n)]
  PROVE  /\ n \in Nat /\ n <= Len(w.frames)
         /\ FreshLog(v, m) /\ Fits(v, m) /\ LogBridge(w, v) /\ LogSame(w, v, m)
         /\ FreshView(v, m, n) /\ Len(v.frames) = n /\ v.header = w.header
         /\ \A i \in 1..n : v.frames[i] = w.frames[i]
  <1>0. w.frames \in Seq(WalFrame) /\ Len(w.frames) \in Nat /\ DOMAIN w.frames = 1..Len(w.frames)
    BY DEF WalImage
  <1>1. v.header = w.header /\ v.frames = SubSeq(w.frames, 1, n)
    BY DEF WalImage
  <1>2. CASE StaleLog(w, m)
    <2>1. /\ Stale(w, m) /\ LastSequence(w, m) = m.last /\ LastTime(w, m) = m.time
          /\ WalData(w, m) = {}
      BY <1>2, StaleFacts
    <2>2. n = 0
      BY <2>1
    <2>3. v.frames = <<>>
      BY <1>0, <1>1, <2>2
    <2>4. /\ FreshView(v, m, 0) /\ FreshLog(v, m) /\ Fits(v, m) /\ Len(v.frames) = 0
          /\ WalData(v, m) = {} /\ LastSequence(v, m) = m.last /\ LastTime(v, m) = m.time
      BY <2>3, EmptyLog
    <2>5. LogBridge(w, v)
      <3>0. Len(v.frames) = 0 /\ Len(w.frames) \in Nat
        BY <1>0, <2>4
      <3>1. \A k \in Nat : 0 # k + 1
        OBVIOUS
      <3>2. Len(v.frames) # Len(w.frames) + 1
        BY <3>0, <3>1, Zenon
      <3> QED
        BY <1>1, <3>2 DEF LogBridge
    <2>6. \A i \in 1..n : FALSE
      BY <2>2
    <2> QED
      BY <1>0, <1>1, <2>1, <2>2, <2>4, <2>5, <2>6 DEF LogSame
  <1>3. CASE FreshLog(w, m)
    <2>1. FreshView(w, m, Cardinality(FullFrames(w))) /\ Cardinality(FullFrames(w)) \in Nat
      BY <1>3, FreshCount
    <2>2. n = Cardinality(FullFrames(w)) /\ n \in Nat /\ n <= Len(w.frames) /\ FullFrames(w) = 1..n
      BY <1>0, <2>1 DEF FreshView
    <2>3. Len(v.frames) = n /\ \A i \in 1..n : v.frames[i] = w.frames[i]
      <3>1. CASE n = 0
        BY <1>0, <1>1, <3>1
      <3>2. CASE n # 0
        <4>1. 1 \in 1..Len(w.frames) /\ n \in 1..Len(w.frames)
          BY <1>0, <2>2, <3>2
        <4> QED
          BY <1>0, <1>1, <2>2, <4>1
      <3> QED
        BY <3>1, <3>2
    <2>4. \A i \in 1..n : /\ w.frames[i].state = "full" /\ WalSeq(w, i) = m.last + i
                          /\ w.frames[i].batch \in LogBatch
      <3>1. \A i \in 1..n : i \in FullFrames(w)
        BY <2>2
      <3>2. \A i \in FullFrames(w) : i \in 1..Len(w.frames) /\ w.frames[i].state = "full"
        BY <1>0 DEF FullFrames
      <3>3. \A i \in 1..Len(w.frames) : WalSeq(w, i) = m.last + i /\ w.frames[i].batch \in LogBatch
        BY <1>3 DEF FreshLog, Fits
      <3> QED
        BY <3>1, <3>2, <3>3
    <2>5. \A i \in 1..n : /\ v.frames[i].state = "full" /\ WalSeq(v, i) = m.last + i
                          /\ v.frames[i].batch \in LogBatch
      BY <2>3, <2>4 DEF WalSeq
    <2>6. FreshLog(v, m)
      <3>1. n <= WalCapacity
        BY <1>0, <1>3, <2>2, CapacityAssumption DEF FreshLog
      <3> QED
        BY <2>3, <2>5, <3>1 DEF FreshLog
    <2>7. Fits(v, m)
      <3>1. w.frames = <<>> => v.frames = <<>>
        BY <1>1, <2>2, <2>3, <1>0
      <3> QED
        BY <1>1, <2>3, <2>5, <2>6, <3>1 DEF Fits
    <2>8. FreshView(v, m, n)
      <3>1. \A i \in 1..n : v.frames[i].state = "full" <=> i <= n
        BY <2>2, <2>5
      <3>2. n <= n /\ n <= n + 1
        BY <2>2
      <3> QED
        BY <2>2, <2>3, <2>6, <3>1, <3>2, FreshFacts
    <2>9. LogSame(w, v, m)
      <3>1. {v.frames[i].batch : i \in 1..n} = {w.frames[i].batch : i \in 1..n}
        BY <2>3, Zenon
      <3>2. n # 0 => v.frames[n] = w.frames[n]
        BY <2>2, <2>3
      <3>3. FreshView(w, m, n)
        BY <2>1, <2>2
      <3> QED
        BY <2>8, <3>1, <3>2, <3>3 DEF FreshView, LogSame
    <2>10. LogBridge(w, v)
      <3>1. Len(v.frames) # Len(w.frames) + 1
        BY <1>0, <2>2, <2>3
      <3> QED
        BY <1>1, <3>1 DEF LogBridge
    <2> QED
      BY <1>1, <2>2, <2>3, <2>6, <2>7, <2>8, <2>9, <2>10
  <1> QED
    BY <1>2, <1>3 DEF Fits

\* The log a checkpoint copied is installed by its manifest.
LEMMA InstalledLog ==
  ASSUME NEW w \in WalImage, NEW m, m.last \in Nat, FreshLog(w, m), Fits(w, m),
         NEW n \in Nat, n # 0, FullFrames(w) = 1..n, Len(w.frames) = n,
         NEW m2, m2.last = m.last + n
  PROVE  /\ StaleLog(w, m2) /\ Fits(w, m2) /\ LastSequence(w, m2) = m2.last
         /\ LastTime(w, m2) = m2.time /\ WalData(w, m2) = {} /\ Stale(w, m2)
  <1>1. \A i \in 1..n : w.frames[i].state = "full" /\ WalSeq(w, i) = m.last + i
    <2>1. \A i \in 1..n : i \in FullFrames(w)
      OBVIOUS
    <2> QED
      BY <2>1 DEF FullFrames, FreshLog
  <1>2. \A i \in 1..n : WalSeq(w, i) + n = m2.last + i
    BY <1>1
  <1>3. w.frames # <<>> /\ n <= m2.last /\ m2.last \in Nat
    OBVIOUS
  <1>4. StaleLog(w, m2)
    BY <1>1, <1>2, <1>3 DEF StaleLog
  <1>5. Fits(w, m2)
    BY <1>4 DEF Fits
  <1> QED
    BY <1>3, <1>4, <1>5, StaleFacts

\* The latest timestamp open finds in the log.
LEMMA LatestIsMax ==
  ASSUME NEW w \in WalImage, NEW n \in Nat, n # 0, n <= Len(w.frames), FullFrames(w) = 1..n
  PROVE  IsMax(LatestTime(w), w, n)
  <1> DEFINE t(i) == w.frames[i].batch.time
             T == {j \in 0..n : j = 0 \/ \E i \in 1..j : \A k \in 1..j : t(k) <= t(i)}
  <1>0. \A i \in 1..n : t(i) \in Nat
    <2>1. \A i \in 1..n : i \in 1..Len(w.frames)
      BY DEF WalImage
    <2> QED
      BY <2>1, WalBatchType
  <1>1. 0 \in T
    OBVIOUS
  <1>2. ASSUME NEW j \in 0..(n - 1), j \in T PROVE j + 1 \in T
    <2>0. /\ j + 1 \in 0..n /\ j + 1 \in 1..(j + 1) /\ j + 1 \in 1..n
          /\ \A k \in 1..(j + 1) : k \in 1..j \/ k = j + 1
          /\ \A k \in 1..j : k \in 1..n /\ k \in 1..(j + 1)
      OBVIOUS
    <2>1. CASE j = 0
      <3>1. \A k \in 1..1 : t(k) <= t(1)
        BY <1>0
      <3> QED
        BY <2>0, <2>1, <3>1
    <2>2. CASE j # 0
      <3>1. PICK i \in 1..j : \A k \in 1..j : t(k) <= t(i)
        BY <1>2, <2>2
      <3>2. PICK a \in Nat, b \in Nat : a = t(i) /\ b = t(j + 1)
        BY <1>0, <2>0
      <3>3. \A k \in 1..j : t(k) \in Nat /\ t(k) <= a
        BY <1>0, <2>0, <3>1, <3>2
      <3> HIDE DEF t
      <3>4. CASE b <= a
        <4>1. \A k \in 1..(j + 1) : t(k) <= t(i)
          BY <2>0, <3>2, <3>3, <3>4
        <4>2. i \in 1..(j + 1)
          BY <2>0
        <4> QED
          BY <2>0, <4>1, <4>2
      <3>5. CASE a <= b
        <4>1. \A k \in 1..(j + 1) : t(k) <= t(j + 1)
          BY <2>0, <3>2, <3>3, <3>5
        <4> QED
          BY <2>0, <4>1
      <3> QED
        BY <3>2, <3>4, <3>5
    <2> QED
      BY <2>1, <2>2
  <1> HIDE DEF T
  <1>3. n \in T
    <2>1. \A k \in 0..(n - 1) : k \in T => k + 1 \in T
      BY <1>2
    <2>2. \A k \in 0..n : k \in T
      BY <1>1, <2>1, UpTo
    <2> QED
      BY <2>2
  <1>4. PICK i \in 1..n : \A k \in 1..n : t(k) <= t(i)
    BY <1>3 DEF T
  <1> DEFINE times == {w.frames[j].batch.time : j \in FullFrames(w)}
  <1>5. \E x \in times : \A u \in times : u <= x
    BY <1>4
  <1>6. LatestTime(w) \in times /\ \A u \in times : u <= LatestTime(w)
    BY <1>5 DEF LatestTime
  <1> QED
    BY <1>6 DEF IsMax

------------------------------------------------------------------------------
(* The invariant holds at first. *)

\* What the invariant and the types say of the variables.
LEMMA Known ==
  ASSUME TypeInv, PairInv
  PROVE  /\ dbCache \in DbImage /\ dbDisk \in DbImage
         /\ walCache \in WalImage /\ walDisk \in WalImage /\ h \in Handle /\ loc \in Locals
         /\ Files(dbDisk, dbCache, walDisk, walCache, doom)
         /\ mD = ReadManifests(dbDisk) /\ mC = ReadManifests(dbCache)
         /\ mD \in Manifest /\ mC \in Manifest /\ mD.last \in Nat /\ mC.last \in Nat
         /\ Presents(dbDisk, mD) /\ Presents(dbCache, mC) /\ Valid(mD) /\ Valid(mC)
         /\ Whole(dbDisk, mD) /\ Whole(dbCache, mC)
         /\ Fits(walDisk, mD) /\ Fits(walCache, mC) /\ LogBridge(walDisk, walCache)
         /\ Bridge(dbDisk, dbCache, mD, mC)
  <1>1. /\ dbCache \in DbImage /\ dbDisk \in DbImage
        /\ walCache \in WalImage /\ walDisk \in WalImage /\ h \in Handle /\ loc \in Locals
    BY DEF TypeInv, TypeOK
  <1>2. Files(dbDisk, dbCache, walDisk, walCache, doom)
    BY DEF PairInv
  <1>3. mD = ReadManifests(dbDisk) /\ mC = ReadManifests(dbCache)
    BY DEF mD, mC
  <1>4. /\ mD \in Manifest /\ mC \in Manifest /\ mD.last \in Nat /\ mC.last \in Nat
        /\ Presents(dbDisk, mD) /\ Presents(dbCache, mC) /\ Valid(mD) /\ Valid(mC)
        /\ Whole(dbDisk, mD) /\ Whole(dbCache, mC)
    BY <1>1, <1>2, <1>3, FilesManifests
  <1>5. /\ Fits(walDisk, mD) /\ Fits(walCache, mC) /\ LogBridge(walDisk, walCache)
        /\ Bridge(dbDisk, dbCache, mD, mC)
    BY <1>2, <1>3 DEF Files
  <1> QED
    BY <1>1, <1>2, <1>3, <1>4, <1>5

\* The files a behaviour begins with hold nothing.
LEMMA NewPresents ==
  /\ Presents(NewDb, EmptyManifest)
  /\ \A x : Presents(BareDb(x), EmptyManifest)
  <1>1. \A i \in {0, 1} : NewDb.slot[i] = EmptyManifest \/ NewDb.slot[i].kind = "none"
    <2>1. NoManifest.kind = "none"
      BY DEF NoManifest
    <2>2. NewDb.slot[0] = EmptyManifest /\ NewDb.slot[1] = NoManifest
      BY DEF NewDb, LegacyDb, BareDb, NoSlots
    <2> QED
      BY <2>1, <2>2
  <1>2. ASSUME NEW x PROVE \A i \in {0, 1} : BareDb(x).slot[i] = EmptyManifest \/ BareDb(x).slot[i].kind = "none"
    <2>1. NoManifest.kind = "none"
      BY DEF NoManifest
    <2>2. \A i \in {0, 1} : BareDb(x).slot[i] = NoManifest
      BY DEF BareDb, NoSlots
    <2> QED
      BY <2>1, <2>2
  <1> QED
    BY <1>1, <1>2, PresentsEmpty

LEMMA PairInvInit == Init => PairInv
  <1> SUFFICES ASSUME Init PROVE PairInv
    OBVIOUS
  <1>1. pc = "closed" /\ ~ h.open
    BY DEF Init, NoHandle
  <1>2. Presents(dbCache, EmptyManifest)
    <2>1. dbCache \in {NewDb, LegacyDb, BareDb("absent")}
      BY StartsAssumption DEF Init
    <2> QED
      BY <2>1, NewPresents DEF LegacyDb
  <1>3. walCache.frames = <<>>
    BY DEF Init, NewWal
  <1>4. dbCache \in DbImage /\ walCache \in WalImage
    BY TypeInvInit DEF TypeInv, TypeOK
  <1>5. dbDisk = dbCache /\ walDisk = walCache /\ acked = {} /\ doom = {} /\ doomed = {} /\ tries = 0
    BY DEF Init
  <1>6. /\ Files(dbCache, dbCache, walCache, walCache, doom)
        /\ Held(dbCache, walCache) = {} /\ High(dbCache, walCache) = 0
    BY <1>2, <1>3, <1>4, FilesEmpty
  <1>7. Files(dbDisk, dbCache, walDisk, walCache, doom)
    BY <1>5, <1>6
  <1>8. HistoryInv
    <2>1. Recorded(dbCache, walCache, 0, {}, {}, {})
      BY <1>6 DEF Recorded
    <2> QED
      BY <1>5, <2>1, BoundsAssumption DEF HistoryInv
  <1>9. OpenInv /\ AppendInv /\ FailedInv
    BY <1>1 DEF OpenInv, AppendInv, FailedInv, Ready, CheckpointPcs, AppendPcs
  <1>10. CheckpointInv /\ RetentionInv
    BY <1>1 DEF CheckpointInv, RetentionInv, CheckpointPcs, RetentionPcs
  <1> QED
    BY <1>7, <1>8, <1>9, <1>10 DEF PairInv

------------------------------------------------------------------------------
(* The steps of open. *)

\* Between calls nothing is claimed of the handle or the locals.
LEMMA Elsewhere ==
  ASSUME pc \in {"closed", "validate"}, FailedInv
  PROVE  OpenInv /\ AppendInv /\ CheckpointInv /\ RetentionInv
  <1>1. OpenInv /\ AppendInv
    BY DEF OpenInv, AppendInv, Ready, CheckpointPcs, AppendPcs
  <1>2. CheckpointInv /\ RetentionInv
    BY DEF CheckpointInv, RetentionInv, CheckpointPcs, RetentionPcs
  <1> QED
    BY <1>1, <1>2

\* Steps that change neither file.
LEMMA StepQuiet ==
  ASSUME TypeInv, PairInv, OpenStart \/ RefuseOrphanWal \/ Reject \/ Close
  PROVE  PairInv'
  <1>1. /\ dbDisk' = dbDisk /\ dbCache' = dbCache /\ walDisk' = walDisk /\ walCache' = walCache
        /\ tries' = tries /\ acked' = acked /\ doom' = doom /\ doomed' = doomed
    BY DEF OpenStart, RefuseOrphanWal, Reject, Close, db, wal, counts, history
  <1>2. /\ pc' \in {"closed", "validate", "probe"}
        /\ pc' = "probe" => dbCache.header = "absent"
    BY DEF OpenStart, RefuseOrphanWal, Reject, Close, Goto
  <1>3. FailedInv'
    <2>1. CASE Close
      BY <2>1 DEF Close, NoHandle, FailedInv
    <2>2. CASE ~ Close
      BY <2>2 DEF OpenStart, RefuseOrphanWal, Reject, Goto, FailedInv, PairInv
    <2> QED
      BY <2>1, <2>2
  <1>4. Files(dbDisk, dbCache, walDisk, walCache, doom)' /\ HistoryInv'
    BY <1>1 DEF PairInv, HistoryInv
  <1>5. OpenInv' /\ AppendInv'
    BY <1>1, <1>2 DEF OpenInv, AppendInv, Ready, CheckpointPcs, AppendPcs
  <1>6. CheckpointInv' /\ RetentionInv'
    BY <1>2 DEF CheckpointInv, RetentionInv, CheckpointPcs, RetentionPcs
  <1> QED
    BY <1>3, <1>4, <1>5, <1>6 DEF PairInv

\* While a pair is created, both files are empty.
LEMMA StepCreate ==
  ASSUME TypeInv, PairInv, TypeInv', CreateDb \/ CreateWal \/ WriteDbHeader \/ WriteWalHeader
  PROVE  PairInv'
  <1> USE Known
  <1>0. /\ pc = "probe" /\ dbCache.header = "absent" /\ walCache.header = "absent"
        \/ pc \in {"createWal", "dbHeader", "walHeader"}
    BY DEF CreateDb, CreateWal, WriteDbHeader, WriteWalHeader, Goto, PairInv, OpenInv
  <1>1. Creating
    <2>1. CASE pc \in {"createWal", "dbHeader", "walHeader"}
      BY <2>1 DEF PairInv, OpenInv
    <2>2. CASE pc = "probe" /\ dbCache.header = "absent" /\ walCache.header = "absent"
      <3>1. mC = EmptyManifest
        BY <2>2 DEF Presents
      <3>2. mD = EmptyManifest
        <4>1. mD.revision \in Nat
          BY ValidFields
        <4> QED
          BY <3>1, <4>1, EmptyWhole DEF Bridge
      <3>3. walCache.frames = <<>>
        BY <2>2 DEF Fits
      <3>4. walDisk.frames = <<>>
        BY <2>2 DEF Fits, LogBridge
      <3> QED
        BY <3>1, <3>2, <3>3, <3>4 DEF Creating
    <2> QED
      BY <1>0, <2>1, <2>2
  <1>2. /\ dbDisk' = dbDisk /\ walDisk' = walDisk /\ h' = h
        /\ tries' = tries /\ acked' = acked /\ doom' = doom /\ doomed' = doomed
    BY DEF CreateDb, CreateWal, WriteDbHeader, WriteWalHeader, db, wal, counts, history
  <1>3. Presents(dbCache', EmptyManifest) /\ walCache'.frames = <<>>
    BY <1>1, NewPresents DEF CreateDb, CreateWal, WriteDbHeader, WriteWalHeader, db, wal,
                             Creating, NewWal
  <1>4. pc' \in {"createWal", "dbHeader", "walHeader", "validate"} /\ pc # "open"
    BY DEF CreateDb, CreateWal, WriteDbHeader, WriteWalHeader, Goto
  <1>5. dbCache' \in DbImage /\ walCache' \in WalImage
    BY DEF TypeInv, TypeOK
  <1>6. /\ Files(dbDisk, dbCache', walDisk, walCache', doom)
        /\ Same(dbDisk, walDisk, dbCache', walCache')
        /\ ReadManifests(dbDisk) = EmptyManifest /\ ReadManifests(dbCache') = EmptyManifest
    BY <1>1, <1>3, <1>5, FilesEmpty DEF Creating
  <1>7. Recorded(dbCache', walCache', tries, acked, doom, doomed)
    BY <1>6, RecordedSame DEF PairInv, HistoryInv
  <1>8. HistoryInv'
    BY <1>2, <1>7 DEF PairInv, HistoryInv
  <1>9. FailedInv'
    BY <1>2, <1>4 DEF PairInv, FailedInv
  <1>10. Creating'
    BY <1>1, <1>2, <1>3, <1>6 DEF Creating, mD, mC
  <1>11. OpenInv' /\ AppendInv'
    BY <1>4, <1>10 DEF OpenInv, AppendInv, Ready, CheckpointPcs, AppendPcs
  <1>12. CheckpointInv' /\ RetentionInv'
    BY <1>4 DEF CheckpointInv, RetentionInv, CheckpointPcs, RetentionPcs
  <1> QED
    BY <1>2, <1>6, <1>8, <1>9, <1>11, <1>12 DEF PairInv

\* After a sync of the database.
LEMMA AfterSyncDb ==
  ASSUME TypeInv, PairInv
  PROVE  /\ Files(dbCache, dbCache, walDisk, walCache, doom)
         /\ Recorded(dbCache, walDisk, tries, acked, doom, doomed)
         /\ Recorded(dbCache, walCache, tries, acked, doom, doomed)
  <1>1. /\ Files(dbCache, dbCache, walDisk, walCache, doom)
        /\ \/ mC = mD /\ Same(dbDisk, walDisk, dbCache, walDisk)
           \/ walDisk = walCache
    BY Known, FilesSyncDb
  <1>2. Recorded(dbDisk, walDisk, tries, acked, doom, doomed)
        /\ Recorded(dbCache, walCache, tries, acked, doom, doomed)
    BY DEF PairInv, HistoryInv
  <1>3. CASE mC = mD /\ Same(dbDisk, walDisk, dbCache, walDisk)
    <2>1. Recorded(dbCache, walDisk, tries, acked, doom, doomed)
      BY <1>2, <1>3, RecordedSame DEF mC, mD
    <2> QED
      BY <1>1, <1>2, <2>1
  <1>4. CASE walDisk = walCache
    BY <1>1, <1>2, <1>4
  <1> QED
    BY <1>1, <1>3, <1>4

\* After a sync of the log.
LEMMA AfterSyncWal ==
  ASSUME TypeInv, PairInv
  PROVE  /\ Files(dbDisk, dbCache, walCache, walCache, doom)
         /\ Recorded(dbDisk, walCache, tries, acked, doom, doomed)
         /\ Recorded(dbCache, walCache, tries, acked, doom, doomed)
  <1>1. /\ Files(dbDisk, dbCache, walCache, walCache, doom)
        /\ \/ mC = mD /\ Same(dbCache, walCache, dbDisk, walCache)
           \/ walDisk = walCache
    BY Known, FilesSyncWal
  <1>2. Recorded(dbDisk, walDisk, tries, acked, doom, doomed)
        /\ Recorded(dbCache, walCache, tries, acked, doom, doomed)
    BY DEF PairInv, HistoryInv
  <1>3. CASE mC = mD /\ Same(dbCache, walCache, dbDisk, walCache)
    <2>1. Recorded(dbDisk, walCache, tries, acked, doom, doomed)
      BY <1>2, <1>3, RecordedSame DEF mC, mD
    <2> QED
      BY <1>1, <1>2, <2>1
  <1>4. CASE walDisk = walCache
    BY <1>1, <1>2, <1>4
  <1> QED
    BY <1>1, <1>3, <1>4

\* Everything that is read is read before anything is written.
LEMMA StepValidate ==
  ASSUME TypeInv, PairInv, Validate
  PROVE  PairInv'
  <1>1. /\ dbDisk' = dbDisk /\ dbCache' = dbCache /\ walDisk' = walDisk /\ walCache' = walCache
        /\ tries' = tries /\ acked' = acked /\ doom' = doom /\ doomed' = doomed
    BY DEF Validate, db, wal, counts, history
  <1>2. pc' = "provisionDb" /\ dbCache.header = "valid" /\ walCache.header = "valid"
    BY DEF Validate, Goto, Opens
  <1>3. Files(dbDisk, dbCache, walDisk, walCache, doom)' /\ HistoryInv'
    BY <1>1 DEF PairInv, HistoryInv
  <1>4. /\ h'.open = FALSE /\ h'.end = (IF Stale(walCache, mC) THEN 0 ELSE Cardinality(FullFrames(walCache)))
        /\ h'.sequence = LastSequence(walCache, mC) /\ h'.dataEnd = mC.end /\ h'.installed = mC.last
        /\ h'.generation = mC.count /\ h'.lastTime = LastTime(walCache, mC)
        /\ h'.installedTime = mC.time /\ h'.walMax = LatestTime(walCache)
        /\ h'.lastSegment = mC.tail /\ h'.legacy = (dbCache.size = 0)
        /\ h'.retention = (mC.kind = "retain")
    <2>1. h' = Recovered(dbCache, walCache)
      BY DEF Validate
    <2> QED
      BY <2>1 DEF Recovered, mC
  <1>5. LocIs(mC)'
    <2>1. /\ loc'.revision = mC.revision /\ loc'.count = mC.count /\ loc'.end = mC.end
          /\ loc'.tail = mC.tail /\ loc'.root = mC.root /\ loc'.phase = mC.phase
      BY DEF Validate, NoLoc, mC
    <2> QED
      BY <1>1, <2>1 DEF LocIs, mC
  <1>6. mC' = mC
    BY <1>1 DEF mC
  <1>7. h'.end # 0 => IsMax(h'.walMax, walCache, h'.end)
    <2>1. CASE StaleLog(walCache, mC)
      BY <1>4, <2>1, Known, StaleFacts
    <2>2. CASE FreshLog(walCache, mC)
      <3>1. /\ FreshView(walCache, mC, Cardinality(FullFrames(walCache)))
            /\ Cardinality(FullFrames(walCache)) \in Nat /\ Len(walCache.frames) \in Nat
        BY <2>2, Known, FreshCount
      <3>2. /\ h'.end \in Nat /\ h'.end <= Len(walCache.frames) /\ FullFrames(walCache) = 1..(h'.end)
        BY <1>4, <3>1 DEF FreshView
      <3> QED
        BY <1>4, <3>2, Known, LatestIsMax
    <2> QED
      BY <2>1, <2>2, Known DEF Fits
  <1>8. h'.legacy => mC = EmptyManifest
    <2>1. mC = EmptyManifest \/ mC.end <= dbCache.size
      BY Known DEF Presents
    <2>2. mC.end \in Nat /\ mC.end >= 2 /\ dbCache.size \in Nat
      BY Known, ValidFields DEF DbImage
    <2>3. dbCache.size = 0 => mC = EmptyManifest
      BY <2>1, <2>2
    <2> QED
      BY <1>4, <2>3, Zenon
  <1>9. Opening'
    BY <1>1, <1>2, <1>4 DEF Opening
  <1>10. Validated'
    <2>1. TieLog(mC, walCache)'
      BY <1>1, <1>4, <1>6 DEF TieLog
    <2>2. TieEnd(mC, walCache)'
      BY <1>1, <1>4, <1>6, <1>7 DEF TieEnd
    <2>3. TieDb(mC)'
      BY <1>4, <1>6, <1>8 DEF TieDb
    <2> QED
      BY <1>4, <1>5, <1>6, <2>1, <2>2, <2>3 DEF Validated
  <1>11. OpenInv' /\ AppendInv' /\ FailedInv'
    BY <1>2, <1>4, <1>9, <1>10 DEF OpenInv, AppendInv, FailedInv, Ready, CheckpointPcs, AppendPcs
  <1>12. CheckpointInv' /\ RetentionInv'
    BY <1>2 DEF CheckpointInv, RetentionInv, CheckpointPcs, RetentionPcs
  <1> QED
    BY <1>3, <1>11, <1>12 DEF PairInv

\* The database file and its name are made durable.
LEMMA StepProvisionDb ==
  ASSUME TypeInv, PairInv, ProvisionDb
  PROVE  PairInv'
  <1>1. /\ dbDisk' = dbCache /\ dbCache' = dbCache /\ walDisk' = walDisk /\ walCache' = walCache
        /\ tries' = tries /\ acked' = acked /\ doom' = doom /\ doomed' = doomed /\ h' = h /\ loc' = loc
    BY DEF ProvisionDb, db, wal, counts, history
  <1>2. pc = "provisionDb" /\ pc' = "provisionWal"
    BY DEF ProvisionDb, Goto
  <1>3. Files(dbDisk, dbCache, walDisk, walCache, doom)' /\ HistoryInv'
    BY <1>1, AfterSyncDb DEF PairInv, HistoryInv
  <1>4. Opening /\ Validated
    BY <1>2 DEF PairInv, OpenInv
  <1>5. mC' = mC
    BY <1>1 DEF mC
  <1>6. Opening' /\ SyncedDb'
    BY <1>1, <1>4 DEF Opening, SyncedDb
  <1>7. Validated'
    BY <1>1, <1>4, <1>5 DEF Validated, TieLog, TieEnd, TieDb, LocIs
  <1>8. OpenInv' /\ AppendInv' /\ FailedInv'
    BY <1>2, <1>6, <1>7 DEF OpenInv, AppendInv, FailedInv, Ready, CheckpointPcs, AppendPcs, Opening
  <1>9. CheckpointInv' /\ RetentionInv'
    BY <1>2 DEF CheckpointInv, RetentionInv, CheckpointPcs, RetentionPcs
  <1> QED
    BY <1>3, <1>8, <1>9 DEF PairInv

\* The log and its name are made durable; open goes on with an unfinished
\* retention, or with the end of the log.
LEMMA StepProvisionWal ==
  ASSUME TypeInv, PairInv, ProvisionWal
  PROVE  PairInv'
  <1>1. /\ dbDisk' = dbDisk /\ dbCache' = dbCache /\ walDisk' = walCache /\ walCache' = walCache
        /\ tries' = tries /\ acked' = acked /\ doom' = doom /\ doomed' = doomed /\ h' = h /\ loc' = loc
    BY DEF ProvisionWal, db, wal, counts, history
  <1>2. pc = "provisionWal" /\ pc' = IF loc.phase = 0 THEN "trimWal" ELSE "finish"
    BY DEF ProvisionWal, Goto, AfterProvision
  <1>3. Files(dbDisk, dbCache, walDisk, walCache, doom)' /\ HistoryInv'
    BY <1>1, AfterSyncWal DEF PairInv, HistoryInv
  <1>4. Opening /\ Validated /\ SyncedDb
    BY <1>2 DEF PairInv, OpenInv
  <1>5. mC' = mC /\ mD' = mC
    BY <1>1, <1>4 DEF mC, mD, SyncedDb
  <1>6. Opening' /\ SyncedDb' /\ SyncedWal'
    BY <1>1, <1>4 DEF Opening, SyncedDb, SyncedWal
  <1>7. TieLog(mD, walDisk)' /\ TieEnd(mD, walDisk)' /\ TieDb(mD)' /\ LocIs(mD)'
    BY <1>1, <1>4, <1>5 DEF Validated, TieLog, TieEnd, TieDb, LocIs
  <1>8. h'.retention <=> mD'.kind = "retain"
    BY <1>1, <1>4, <1>5 DEF Validated
  <1>9. FailedInv' /\ AppendInv' /\ CheckpointInv'
    BY <1>2, <1>6 DEF FailedInv, AppendInv, CheckpointInv, Ready, CheckpointPcs, AppendPcs, Opening
  <1>10. CASE loc.phase = 0
    <2>1. Completing'
      BY <1>1, <1>6, <1>7, <1>8, <1>10 DEF Completing, TieDb
    <2>2. OpenInv'
      BY <1>2, <1>6, <1>10, <2>1 DEF OpenInv
    <2>3. RetentionInv'
      BY <1>2, <1>10 DEF RetentionInv, RetentionPcs
    <2> QED
      BY <1>3, <1>9, <2>2, <2>3 DEF PairInv
  <1>11. CASE loc.phase # 0
    <2>1. mC.phase # 0 /\ mC.kind = "retain" /\ mC # EmptyManifest
      BY <1>4, <1>11, Known, ValidFields, EmptyWhole DEF Validated, LocIs
    <2>2. ~ h.legacy /\ h.retention /\ h.generation = mC.count /\ loc.count = mC.count /\ ~ h.open
      BY <1>4, <2>1 DEF Validated, TieDb, LocIs, Opening
    <2>3. Retaining'
      <3>1. ~ h'.open /\ ~ h'.legacy /\ h'.generation = mD'.count /\ h'.retention
            /\ loc'.count = h'.generation
        BY <1>1, <1>5, <2>2
      <3>2. dbDisk'.header = "valid" /\ dbCache'.header = "valid"
        BY <1>6 DEF SyncedDb
      <3> QED
        BY <1>6, <1>7, <3>1, <3>2 DEF Retaining
    <2>4. OpenInv'
      BY <1>2, <1>11 DEF OpenInv
    <2>5. RetentionInv'
      <3>1. ~ h'.open /\ loc'.phase # 0 /\ mD'.kind = "retain"
        BY <1>1, <1>5, <1>11, <2>1, <2>2
      <3> QED
        BY <1>2, <1>6, <1>7, <1>11, <2>3, <3>1 DEF RetentionInv, RetentionPcs
    <2> QED
      BY <1>3, <1>9, <2>4, <2>5 DEF PairInv
  <1> QED
    BY <1>10, <1>11

\* A stale log is emptied, an incomplete frame cut.
LEMMA StepTrimWal ==
  ASSUME TypeInv, PairInv, TypeInv', TrimWal
  PROVE  PairInv'
  <1>1. /\ dbDisk' = dbDisk /\ dbCache' = dbCache /\ walDisk' = walDisk /\ h' = h /\ loc' = loc
        /\ tries' = tries /\ acked' = acked /\ doom' = doom /\ doomed' = doomed
        /\ walCache' = [walCache EXCEPT !.frames = SubSeq(@, 1, h.end)]
        /\ h.end < Len(walCache.frames)
    BY DEF TrimWal, db, counts, history
  <1>2. pc = "trimWal" /\ pc' = "syncTrim"
    BY DEF TrimWal, Goto
  <1>3. Opening /\ Completing /\ SyncedWal
    BY <1>2 DEF PairInv, OpenInv
  <1>4. mC = mD /\ walCache = walDisk /\ dbDisk = dbCache
    BY <1>3 DEF Completing, SyncedDb, SyncedWal, mC, mD
  <1>5. h.end = IF Stale(walDisk, mD) THEN 0 ELSE Cardinality(FullFrames(walDisk))
    BY <1>3 DEF Completing, TieEnd
  <1>6. walCache' \in WalImage
    BY DEF TypeInv, TypeOK
  <1>7. /\ Fits(walCache', mD) /\ LogBridge(walDisk, walCache') /\ LogSame(walDisk, walCache', mD)
        /\ walCache'.header = walDisk.header
    BY <1>1, <1>4, <1>5, <1>6, Known, TrimmedLog
  <1>8. Same(dbDisk, walDisk, dbDisk, walCache')
    BY <1>7, Known, SameIf
  <1>9. Files(dbDisk, dbCache, walDisk, walCache', doom)
    BY <1>4, <1>7, <1>8, Known DEF Files
  <1>10. Recorded(dbCache', walCache', tries, acked, doom, doomed)
    BY <1>1, <1>4, <1>8, RecordedSame DEF PairInv, HistoryInv
  <1>11. HistoryInv'
    BY <1>1, <1>10 DEF PairInv, HistoryInv
  <1>12. mD' = mD
    BY <1>1 DEF mD
  <1>13. Opening' /\ Completing'
    BY <1>1, <1>3, <1>4, <1>7, <1>12
    DEF Opening, Completing, SyncedDb, LocIs, TieLog, TieEnd, SyncedWal
  <1>14. Trimmed'
    <2>1. Len(walDisk.frames) > h.end
      <3>1. Len(walCache.frames) \in Nat /\ h.end \in Nat
        BY Known, HandleFields DEF WalImage
      <3> QED
        BY <1>1, <1>4, <3>1
    <2> QED
      BY <1>1, <1>3, <1>4, <2>1 DEF Trimmed, SyncedWal
  <1>15. OpenInv' /\ AppendInv' /\ FailedInv'
    BY <1>1, <1>2, <1>13, <1>14 DEF OpenInv, AppendInv, FailedInv, Ready, CheckpointPcs, AppendPcs, Opening
  <1>16. CheckpointInv' /\ RetentionInv'
    BY <1>2 DEF CheckpointInv, RetentionInv, CheckpointPcs, RetentionPcs
  <1> QED
    BY <1>1, <1>9, <1>11, <1>15, <1>16 DEF PairInv

\* A log with nothing behind its committed frames.
LEMMA StepNothingToTrim ==
  ASSUME TypeInv, PairInv, NothingToTrim
  PROVE  PairInv'
  <1>1. /\ dbDisk' = dbDisk /\ dbCache' = dbCache /\ walDisk' = walDisk /\ h' = h /\ loc' = loc
        /\ walCache' = walCache
        /\ tries' = tries /\ acked' = acked /\ doom' = doom /\ doomed' = doomed
        /\ h.end >= Len(walCache.frames)
    BY DEF NothingToTrim, db, wal, counts, history
  <1>2. pc = "trimWal" /\ pc' = "openReturn"
    BY DEF NothingToTrim, Goto
  <1>3. Opening /\ Completing /\ SyncedWal
    BY <1>2 DEF PairInv, OpenInv
  <1>4. h.end = IF Stale(walDisk, mD) THEN 0 ELSE Cardinality(FullFrames(walDisk))
    BY <1>3 DEF Completing, TieEnd
  <1>5. Files(dbDisk, dbCache, walDisk, walCache, doom)' /\ HistoryInv'
    BY <1>1 DEF PairInv, HistoryInv
  <1>6. walDisk = walCache /\ Len(walDisk.frames) \in Nat /\ h.end \in Nat /\ h.end >= Len(walDisk.frames)
    BY <1>1, <1>3, Known, HandleFields DEF SyncedWal, WalImage
  <1>7. FreshLog(walDisk, mD)
    <2>1. CASE StaleLog(walDisk, mD)
      <3>1. h.end = 0 /\ Len(walDisk.frames) # 0
        <4>1. Stale(walDisk, mD)
          BY <2>1, Known, StaleFacts
        <4>2. walDisk.frames # <<>>
          BY <2>1 DEF StaleLog
        <4> QED
          BY <1>4, <4>1, <4>2, Known DEF WalImage
      <3> QED
        BY <1>6, <3>1
    <2> QED
      BY <2>1, Known DEF Fits
  <1>8. Clean(walDisk)
    <2>1. FreshView(walDisk, mD, Cardinality(FullFrames(walDisk)))
      BY <1>7, Known, FreshCount
    <2>2. h.end = Cardinality(FullFrames(walDisk)) /\ FullFrames(walDisk) = 1..h.end
          /\ h.end <= Len(walDisk.frames)
      BY <1>4, <1>6, <2>1 DEF FreshView
    <2> QED
      BY <1>6, <1>7, <2>2 DEF Clean
  <1>9. mD' = mD
    BY <1>1 DEF mD
  <1>10. Opening' /\ Completing' /\ SyncedWal' /\ Clean(walDisk)'
    BY <1>1, <1>3, <1>8, <1>9
    DEF Opening, Completing, SyncedDb, LocIs, TieLog, TieEnd, SyncedWal, Clean
  <1>11. OpenInv' /\ AppendInv' /\ FailedInv'
    BY <1>1, <1>2, <1>10 DEF OpenInv, AppendInv, FailedInv, Ready, CheckpointPcs, AppendPcs, Opening
  <1>12. CheckpointInv' /\ RetentionInv'
    BY <1>2 DEF CheckpointInv, RetentionInv, CheckpointPcs, RetentionPcs
  <1> QED
    BY <1>5, <1>11, <1>12 DEF PairInv

\* The trimmed log becomes durable.
LEMMA StepSyncTrim ==
  ASSUME TypeInv, PairInv, SyncTrim
  PROVE  PairInv'
  <1>1. pc = "syncTrim" /\ pc' = "openReturn"
    BY DEF SyncTrim, Goto
  <1>2. Opening /\ Completing /\ Trimmed
    BY <1>1 DEF PairInv, OpenInv
  <1>3. /\ dbDisk' = dbDisk /\ dbCache' = dbCache /\ walDisk' = walCache /\ h' = h /\ loc' = loc
        /\ walCache' = walCache
        /\ tries' = tries /\ acked' = acked /\ doom' = doom /\ doomed' = doomed
    BY <1>2 DEF SyncTrim, SyncWal, Trimmed, db, counts, history
  <1>4. Files(dbDisk, dbCache, walDisk, walCache, doom)' /\ HistoryInv'
    BY <1>3, AfterSyncWal DEF PairInv, HistoryInv
  <1>5. h.end = IF Stale(walDisk, mD) THEN 0 ELSE Cardinality(FullFrames(walDisk))
    BY <1>2 DEF Completing, TieEnd
  <1>6. walCache = [walDisk EXCEPT !.frames = SubSeq(@, 1, h.end)]
    BY <1>2 DEF Trimmed
  <1>7. /\ FreshLog(walCache, mD) /\ LogSame(walDisk, walCache, mD) /\ FreshView(walCache, mD, h.end)
        /\ Len(walCache.frames) = h.end /\ walCache.header = walDisk.header
        /\ \A i \in 1..h.end : walCache.frames[i] = walDisk.frames[i]
    BY <1>5, <1>6, Known, TrimmedLog
  <1>8. mD' = mD
    BY <1>3 DEF mD
  <1>9. SyncedWal' /\ Opening' /\ Clean(walDisk)'
    BY <1>2, <1>3, <1>7, <1>8 DEF SyncedWal, Trimmed, Opening, Clean, FreshView
  <1>10. TieLog(mD, walDisk)' /\ TieEnd(mD, walDisk)'
    <2>1. TieLog(mD, walDisk)'
      BY <1>2, <1>3, <1>7, <1>8 DEF Completing, TieLog, LogSame
    <2>2. h.end # 0 => IsMax(h.walMax, walCache, h.end)
      BY <1>2, <1>7 DEF Completing, TieEnd, IsMax
    <2>3. h.end = IF Stale(walCache, mD) THEN 0 ELSE Cardinality(FullFrames(walCache))
      BY <1>7 DEF FreshView
    <2> QED
      BY <1>3, <1>8, <2>1, <2>2, <2>3 DEF TieEnd
  <1>11. Completing'
    BY <1>2, <1>3, <1>8, <1>10 DEF Completing, SyncedDb, LocIs
  <1>12. OpenInv' /\ AppendInv' /\ FailedInv'
    BY <1>1, <1>9, <1>11 DEF OpenInv, AppendInv, FailedInv, Ready, CheckpointPcs, AppendPcs, Opening
  <1>13. CheckpointInv' /\ RetentionInv'
    BY <1>1 DEF CheckpointInv, RetentionInv, CheckpointPcs, RetentionPcs
  <1> QED
    BY <1>4, <1>12, <1>13 DEF PairInv

\* open returns a handle that agrees with the files.
LEMMA StepOpenReturn ==
  ASSUME TypeInv, PairInv, OpenReturn
  PROVE  PairInv'
  <1>1. /\ dbDisk' = dbDisk /\ dbCache' = dbCache /\ walDisk' = walDisk /\ walCache' = walCache
        /\ tries' = tries /\ acked' = acked /\ doom' = doom /\ doomed' = doomed
    BY DEF OpenReturn, db, wal, counts, history
  <1>2. pc = "openReturn" /\ pc' = "open"
    BY DEF OpenReturn, Goto
  <1>3. Opening /\ Completing /\ SyncedWal /\ Clean(walDisk)
    BY <1>2 DEF PairInv, OpenInv
  <1>4. /\ h'.open /\ h'.dataEnd = loc.end /\ h'.lastSegment = loc.tail /\ h'.revision = loc.revision
        /\ h'.end = h.end /\ h'.sequence = h.sequence /\ h'.installed = h.installed
        /\ h'.generation = h.generation /\ h'.retention = h.retention /\ h'.lastTime = h.lastTime
        /\ h'.installedTime = h.installedTime /\ h'.walMax = h.walMax /\ h'.legacy = h.legacy
    BY Known DEF OpenReturn, Handle
  <1>5. Files(dbDisk, dbCache, walDisk, walCache, doom)' /\ HistoryInv'
    BY <1>1 DEF PairInv, HistoryInv
  <1>6. mD' = mD
    BY <1>1 DEF mD
  <1>7. TieLog(mD, walDisk)' /\ TieEnd(mD, walDisk)'
    BY <1>1, <1>3, <1>4, <1>6 DEF Completing, TieLog, TieEnd
  <1>8. TieDb(mD)' /\ TieKind(mD)'
    BY <1>3, <1>4, <1>6 DEF Completing, LocIs, TieDb, TieKind
  <1>9. Calling'
    BY <1>1, <1>3, <1>4, <1>7, <1>8 DEF Calling, Completing, SyncedDb, SyncedWal
  <1>10. Idle'
    BY <1>1, <1>3, <1>4, <1>6 DEF Idle, Completing, SyncedDb, SyncedWal, Clean
  <1>11. OpenInv' /\ AppendInv' /\ FailedInv'
    BY <1>2, <1>9, <1>10 DEF OpenInv, AppendInv, FailedInv, CheckpointPcs, AppendPcs
  <1>12. CheckpointInv' /\ RetentionInv'
    BY <1>2 DEF CheckpointInv, RetentionInv, CheckpointPcs, RetentionPcs
  <1> QED
    BY <1>5, <1>11, <1>12 DEF PairInv

------------------------------------------------------------------------------
(* The steps of append. *)

\* Setting the failed flag changes nothing else of the handle.
HandleSame ==
    /\ h'.open = h.open /\ h'.end = h.end /\ h'.sequence = h.sequence /\ h'.dataEnd = h.dataEnd
    /\ h'.installed = h.installed /\ h'.generation = h.generation /\ h'.revision = h.revision
    /\ h'.retention = h.retention /\ h'.lastTime = h.lastTime
    /\ h'.installedTime = h.installedTime /\ h'.walMax = h.walMax
    /\ h'.lastSegment = h.lastSegment /\ h'.legacy = h.legacy

\* The handle and the files before a call.
LEMMA AtReady ==
  ASSUME TypeInv, PairInv, Ready
  PROVE  /\ pc = "open" /\ Calling /\ Idle /\ SyncedDb /\ SyncedWal /\ Clean(walDisk)
         /\ mC = mD /\ dbCache = dbDisk /\ walCache = walDisk /\ h.open
         /\ h.end \in Nat /\ h.installed \in Nat /\ h.sequence \in Nat
         /\ FreshView(walDisk, mD, h.end) /\ h.sequence = mD.last + h.end
         /\ h.installed = mD.last /\ h.lastTime = Floor(dbDisk, walDisk)
         /\ h.sequence = High(dbDisk, walDisk)
  <1>1. pc = "open" /\ Calling /\ Idle
    BY DEF Ready, PairInv, AppendInv
  <1>2. SyncedDb /\ SyncedWal /\ Clean(walDisk)
    BY <1>1 DEF Idle
  <1>3. mC = mD /\ dbCache = dbDisk /\ walCache = walDisk /\ h.open
    BY <1>1, <1>2 DEF SyncedDb, SyncedWal, mC, mD, Calling
  <1>4. h.end \in Nat /\ h.installed \in Nat /\ h.sequence \in Nat
    BY Known, HandleFields
  <1>5. FreshView(walDisk, mD, h.end)
    <2>1. /\ FreshView(walDisk, mD, Cardinality(FullFrames(walDisk)))
      BY <1>2, Known, FreshCount DEF Clean
    <2>2. Cardinality(FullFrames(walDisk)) = h.end
      <3>1. FullFrames(walDisk) = 1..h.end
        BY <1>2 DEF Clean
      <3>2. \A n \in Nat : Cardinality(1..n) = n
        BY FS_Interval
      <3> QED
        BY <1>4, <3>1, <3>2
    <2> QED
      BY <2>1, <2>2
  <1>6. /\ h.sequence = mD.last + h.end /\ h.installed = mD.last
        /\ h.lastTime = Floor(dbDisk, walDisk) /\ h.sequence = High(dbDisk, walDisk)
    BY <1>1, <1>5 DEF Calling, TieLog, FreshView, High, Floor, mD
  <1> QED
    BY <1>1, <1>2, <1>3, <1>4, <1>5, <1>6

\* More tries change nothing.
LEMMA RecordedMore ==
  ASSUME NEW d, NEW w, High(d, w) \in Nat, NEW n \in Nat, NEW k \in Nat, n <= k,
         NEW A, NEW D, NEW E, Recorded(d, w, n, A, D, E)
  PROVE  Recorded(d, w, k, A, D, E)
  <1>1. High(d, w) <= k
    BY DEF Recorded
  <1> QED
    BY <1>1 DEF Recorded

LEMMA StepAppend ==
  ASSUME TypeInv, PairInv, TypeInv', NEW t \in Times, AppendBatch(t)
  PROVE  PairInv'
  <1> DEFINE b == NextBatch(t)
  <1>1. /\ dbDisk' = dbDisk /\ dbCache' = dbCache /\ walDisk' = walDisk /\ loc' = loc
        /\ tries' = tries + 1 /\ acked' = acked /\ doom' = doom /\ doomed' = doomed
        /\ walCache' = [walCache EXCEPT !.frames = Append(@, [batch |-> b, state |-> "open"])]
        /\ tries < MaxAppends /\ (h.sequence # 0 => t >= h.lastTime) /\ h.end < WalCapacity
        /\ h' = [h EXCEPT !.failed = TRUE] /\ pc' = "syncBody"
    BY DEF AppendBatch, db, history
  <1>2. Ready
    BY DEF AppendBatch
  <1>3. /\ pc = "open" /\ Calling /\ Idle /\ SyncedDb /\ SyncedWal /\ Clean(walDisk)
        /\ mC = mD /\ dbCache = dbDisk /\ walCache = walDisk /\ h.open
        /\ h.end \in Nat /\ h.installed \in Nat /\ h.sequence \in Nat
        /\ FreshView(walDisk, mD, h.end) /\ h.sequence = mD.last + h.end
        /\ h.lastTime = Floor(dbDisk, walDisk) /\ h.sequence = High(dbDisk, walDisk)
    BY <1>2, AtReady
  <1>4. HandleSame /\ h'.failed
    BY <1>1, Known DEF Handle, HandleSame
  <1>5. tries \in Nat /\ tries <= MaxAppends /\ MaxAppends \in Nat /\ h.sequence <= tries
    BY <1>3, BoundsAssumption DEF TypeInv, TypeOK, PairInv, HistoryInv, Recorded
  <1>6. b \in LogBatch /\ b.seq = h.sequence + 1 /\ b.time = t
    <2>1. h.sequence + 1 \in 1..MaxAppends /\ tries \in 0..(MaxAppends - 1)
      BY <1>1, <1>3, <1>5
    <2> QED
      BY <2>1 DEF NextBatch, LogBatch
  <1> HIDE DEF b
  <1>7. walCache' \in WalImage
    BY DEF TypeInv, TypeOK
  <1>8. /\ Fits(walCache', mD) /\ LogBridge(walDisk, walCache') /\ LogSame(walDisk, walCache', mD)
    <2>1. b.seq = mD.last + h.end + 1
      BY <1>3, <1>6
    <2>2. FullFrames(walDisk) = 1..h.end /\ Len(walDisk.frames) = h.end /\ FreshLog(walDisk, mD)
          /\ walDisk.header = "valid"
      BY <1>3 DEF Clean, SyncedWal
    <2>3. walCache' = [walDisk EXCEPT !.frames = Append(@, [batch |-> b, state |-> "open"])]
      BY <1>1, <1>3
    <2>4. walDisk \in WalImage /\ mD.last \in Nat /\ Fits(walDisk, mD)
      BY Known
    <2>5. h.end \in Nat /\ h.end < WalCapacity
      BY <1>1, <1>3
    <2> QED
      BY <1>6, <1>7, <2>1, <2>2, <2>3, <2>4, <2>5, AppendedLog
  <1>9. Same(dbDisk, walDisk, dbDisk, walCache')
    BY <1>8, Known, SameIf
  <1>10. Files(dbDisk, dbCache, walDisk, walCache', doom)
    BY <1>3, <1>8, <1>9, Known DEF Files
  <1>11. HistoryInv'
    <2>1. Recorded(dbDisk, walDisk, tries, acked, doom, doomed)
      BY DEF PairInv, HistoryInv
    <2>2. tries + 1 \in Nat /\ tries <= tries + 1 /\ tries + 1 <= MaxAppends
      BY <1>1, <1>5
    <2>3. Recorded(dbDisk, walDisk, tries + 1, acked, doom, doomed)
      BY <1>3, <1>5, <2>1, <2>2, RecordedMore
    <2>4. Recorded(dbDisk, walCache', tries + 1, acked, doom, doomed)
      BY <1>9, <2>3, RecordedSame
    <2> QED
      BY <1>1, <1>3, <2>2, <2>3, <2>4 DEF HistoryInv, PairInv
  <1>12. mD' = mD
    BY <1>1 DEF mD
  <1>13. Calling'
    BY <1>1, <1>3, <1>4, <1>12 DEF Calling, TieLog, TieEnd, TieDb, TieKind, HandleSame
  <1>14. Appending'
    <2>1. h.sequence + 1 <= tries + 1
      BY <1>3, <1>5
    <2> QED
      BY <1>1, <1>3, <1>4, <2>1 DEF Appending, SyncedDb, SyncedWal, HandleSame
  <1>15. BodyWritten'
    <2>1. Clean(walDisk)'
      BY <1>1, <1>3, <1>4, <1>12 DEF Clean, HandleSame
    <2>2. h'.sequence = h.sequence /\ h'.lastTime = h.lastTime
      BY <1>4 DEF HandleSame
    <2>3. b.seq = h'.sequence + 1 /\ (h'.sequence # 0 => b.time >= h'.lastTime)
      BY <1>1, <1>6, <2>2
    <2>4. walCache' = [walDisk' EXCEPT !.frames = Append(@, [batch |-> b, state |-> "open"])]
      BY <1>1, <1>3
    <2> QED
      BY <1>6, <2>1, <2>3, <2>4 DEF BodyWritten
  <1>16. AppendInv'
    BY <1>1, <1>13, <1>14, <1>15 DEF AppendInv, Ready, CheckpointPcs, AppendPcs
  <1>17. OpenInv' /\ FailedInv'
    BY <1>1, <1>4 DEF OpenInv, FailedInv
  <1>18. CheckpointInv' /\ RetentionInv'
    BY <1>1 DEF CheckpointInv, RetentionInv, CheckpointPcs, RetentionPcs
  <1> QED
    BY <1>1, <1>10, <1>11, <1>16, <1>17, <1>18 DEF PairInv

\* The frame without its commit record becomes durable.
LEMMA StepSyncBody ==
  ASSUME TypeInv, PairInv, SyncBody
  PROVE  PairInv'
  <1>1. pc = "syncBody" /\ pc' = "commit"
    BY DEF SyncBody, Goto
  <1>2. Calling /\ Appending /\ BodyWritten
    BY <1>1 DEF PairInv, AppendInv, AppendPcs
  <1>3. /\ dbDisk' = dbDisk /\ dbCache' = dbCache /\ walDisk' = walCache /\ h' = h /\ loc' = loc
        /\ walCache' = walCache
        /\ tries' = tries /\ acked' = acked /\ doom' = doom /\ doomed' = doomed
    BY <1>2 DEF SyncBody, SyncWal, Calling, db, counts, history
  <1>4. Files(dbDisk, dbCache, walDisk, walCache, doom)' /\ HistoryInv'
    BY <1>3, AfterSyncWal DEF PairInv, HistoryInv
  <1>5. PICK b \in LogBatch :
          /\ b.seq = h.sequence + 1 /\ (h.sequence # 0 => b.time >= h.lastTime)
          /\ walCache = [walDisk EXCEPT !.frames = Append(@, [batch |-> b, state |-> "open"])]
    BY <1>2 DEF BodyWritten
  <1>6. /\ FullFrames(walDisk) = 1..h.end /\ Len(walDisk.frames) = h.end /\ FreshLog(walDisk, mD)
        /\ walDisk.header = "valid" /\ h.end < WalCapacity /\ h.end \in Nat
        /\ h.sequence = LastSequence(walDisk, mD)
    BY <1>2, Known, HandleFields DEF BodyWritten, Clean, Calling, Appending, TieLog
  <1>7. h.sequence = mD.last + h.end
    <2>1. FreshView(walDisk, mD, Cardinality(FullFrames(walDisk)))
      BY <1>6, Known, FreshCount
    <2>2. Cardinality(FullFrames(walDisk)) = h.end
      BY <1>6, FS_Interval
    <2> QED
      BY <1>6, <2>1, <2>2 DEF FreshView
  <1>8. /\ FreshLog(walCache, mD) /\ LogSame(walDisk, walCache, mD) /\ FreshView(walCache, mD, h.end)
        /\ Len(walCache.frames) = h.end + 1 /\ walCache.header = "valid"
        /\ walCache.frames[h.end + 1] = [batch |-> b, state |-> "open"]
        /\ \A i \in 1..h.end : walCache.frames[i] = walDisk.frames[i]
    <2>1. b.seq = mD.last + h.end + 1
      BY <1>5, <1>7
    <2>2. walDisk \in WalImage /\ walCache \in WalImage /\ mD.last \in Nat /\ Fits(walDisk, mD)
      BY Known
    <2>3. walCache = [walDisk EXCEPT !.frames = Append(@, [batch |-> b, state |-> "open"])]
      BY <1>5
    <2>6. b \in LogBatch
      BY <1>5
    <2>4. /\ FullFrames(walDisk) = 1..h.end /\ Len(walDisk.frames) = h.end /\ FreshLog(walDisk, mD)
          /\ walDisk.header = "valid" /\ h.end < WalCapacity /\ h.end \in Nat
      BY <1>6
    <2>5. /\ FreshLog(walCache, mD) /\ Fits(walCache, mD) /\ LogBridge(walDisk, walCache)
          /\ LogSame(walDisk, walCache, mD)
          /\ FreshView(walCache, mD, h.end) /\ Len(walCache.frames) = h.end + 1
          /\ walCache.header = "valid"
      BY <2>1, <2>2, <2>3, <2>4, <2>6, AppendedLog
    <2>7. walCache.frames = Append(walDisk.frames, [batch |-> b, state |-> "open"])
          /\ walDisk.frames \in Seq(WalFrame)
      BY <2>2, <2>3 DEF WalImage
    <2>8. /\ walCache.frames[h.end + 1] = [batch |-> b, state |-> "open"]
          /\ \A i \in 1..h.end : walCache.frames[i] = walDisk.frames[i]
      BY <2>4, <2>7
    <2> QED
      BY <2>5, <2>8
  <1>9. mD' = mD
    BY <1>3 DEF mD
  <1>10. TieLog(mD, walDisk)' /\ TieEnd(mD, walDisk)'
    <2>1. TieLog(mD, walDisk)'
      BY <1>2, <1>3, <1>8, <1>9 DEF Calling, TieLog, LogSame
    <2>2. h.end # 0 => IsMax(h.walMax, walCache, h.end)
      BY <1>2, <1>8 DEF Calling, TieEnd, IsMax
    <2>3. h.end = IF Stale(walCache, mD) THEN 0 ELSE Cardinality(FullFrames(walCache))
      BY <1>8 DEF FreshView
    <2> QED
      BY <1>3, <1>9, <2>1, <2>2, <2>3 DEF TieEnd
  <1>11. Calling'
    BY <1>2, <1>3, <1>8, <1>9, <1>10 DEF Calling, TieDb, TieKind
  <1>12. Appending' /\ SyncedWal'
    BY <1>2, <1>3, <1>8 DEF Appending, SyncedDb, SyncedWal
  <1>13. BodySynced'
    BY <1>3, <1>5, <1>8, <1>9 DEF BodySynced, FreshView
  <1>14. AppendInv'
    BY <1>1, <1>11, <1>12, <1>13 DEF AppendInv, Ready, CheckpointPcs, AppendPcs
  <1>15. OpenInv' /\ FailedInv'
    BY <1>1, <1>3 DEF OpenInv, FailedInv, PairInv
  <1>16. CheckpointInv' /\ RetentionInv'
    BY <1>1 DEF CheckpointInv, RetentionInv, CheckpointPcs, RetentionPcs
  <1> QED
    BY <1>4, <1>14, <1>15, <1>16 DEF PairInv

\* A commit record makes one batch the last of the view.
LEMMA CommitView ==
  ASSUME NEW d \in DbImage, NEW m \in Manifest, m = ReadManifests(d), m.last \in Nat,
         NEW w \in WalImage, NEW v \in WalImage, NEW n \in Nat,
         FreshView(w, m, n), FreshView(v, m, n + 1),
         \A i \in 1..(n + 1) : v.frames[i].batch = w.frames[i].batch,
         NEW b \in LogBatch, b = w.frames[n + 1].batch, b.seq = m.last + n + 1,
         m.last + n # 0 => b.time >= LastTime(w, m)
  PROVE  Commits(d, w, d, v)
  <1>1. High(d, w) = m.last + n /\ High(d, v) = b.seq
    <2>1. High(d, w) = m.last + n
      BY DEF High, FreshView
    <2>2. High(d, v) = m.last + (n + 1)
      BY DEF High, FreshView
    <2>3. m.last + (n + 1) = m.last + n + 1
      OBVIOUS
    <2> QED
      BY <2>1, <2>2, <2>3
  <1>2. Floor(d, v) = b.time
    <2>1. LastTime(v, m) = v.frames[n + 1].batch.time
      BY DEF FreshView
    <2>2. v.frames[n + 1].batch = b
      OBVIOUS
    <2> QED
      BY <2>1, <2>2 DEF Floor
  <1>3. WalData(v, m) = WalData(w, m) \cup {b}
    <2>1. \A i \in 1..(n + 1) : i \in 1..n \/ i = n + 1
      OBVIOUS
    <2>2. \A i \in 1..n : i \in 1..(n + 1)
      OBVIOUS
    <2>3. {v.frames[i].batch : i \in 1..(n + 1)} = {w.frames[i].batch : i \in 1..n} \cup {b}
      BY <2>1, <2>2
    <2> QED
      BY <2>3 DEF FreshView
  <1>4. Held(d, v) = Held(d, w) \cup {b}
    BY <1>3, HeldIs
  <1>5. b.seq = High(d, w) + 1 /\ (High(d, w) # 0 => b.time >= Floor(d, w))
    BY <1>1 DEF Floor
  <1> QED
    BY <1>1, <1>2, <1>4, <1>5 DEF Commits

\* The new batch is no expired one.
LEMMA RecordedCommits ==
  ASSUME NEW d, NEW w, NEW c, NEW v, NEW n \in Nat, NEW A, NEW D, NEW E,
         High(d, w) \in Nat, High(d, w) + 1 <= n, Recorded(d, w, n, A, D, E), Commits(d, w, c, v),
         ReadManifests(c).phase = ReadManifests(d).phase
  PROVE  Recorded(c, v, n, A, D, E)
  <1>1. PICK b \in LogBatch :
          /\ b.seq = High(d, w) + 1
          /\ Held(c, v) = Held(d, w) \cup {b} /\ High(c, v) = b.seq
    BY DEF Commits
  <1>2. PICK k \in Nat : k = High(d, w)
    OBVIOUS
  <1>3. \A a \in D : a.seq \in Nat /\ a.seq <= k
    BY <1>2 DEF Recorded
  <1>4. b \notin D
    <2>1. b.seq = k + 1
      BY <1>1, <1>2
    <2>2. ~ (k + 1 <= k)
      BY <1>2
    <2> QED
      BY <1>3, <2>1, <2>2
  <1>5. Held(c, v) \cap D = Held(d, w) \cap D
    BY <1>1, <1>4
  <1>6. \A a \in D : a.seq \in Nat /\ a.seq <= k + 1
    BY <1>2, <1>3
  <1>7. High(c, v) = k + 1 /\ k + 1 <= n
    BY <1>1, <1>2
  <1>8. A \ E \subseteq Held(c, v)
    BY <1>1 DEF Recorded
  <1> QED
    BY <1>5, <1>6, <1>7, <1>8 DEF Recorded

\* The commit record is written.
LEMMA StepWriteCommit ==
  ASSUME TypeInv, PairInv, TypeInv', WriteCommit
  PROVE  PairInv'
  <1>1. /\ dbDisk' = dbDisk /\ dbCache' = dbCache /\ walDisk' = walDisk /\ loc' = loc /\ h' = h
        /\ tries' = tries /\ acked' = acked /\ doom' = doom /\ doomed' = doomed
        /\ walCache' = [walCache EXCEPT !.frames[Len(walCache.frames)].state = "full"]
        /\ pc = "commit" /\ pc' = "syncCommit"
    BY DEF WriteCommit, Goto, db, counts, history
  <1>2. Calling /\ Appending /\ BodySynced /\ SyncedWal
    BY <1>1 DEF PairInv, AppendInv, AppendPcs
  <1>3. mC = mD /\ dbCache = dbDisk /\ walCache = walDisk
    BY <1>2 DEF Appending, SyncedDb, SyncedWal, mC, mD
  <1>4. walCache' \in WalImage
    BY DEF TypeInv, TypeOK
  <1>5. walDisk \in WalImage /\ mD.last \in Nat /\ mD \in Manifest /\ Fits(walDisk, mD)
        /\ h.end \in Nat /\ dbDisk \in DbImage /\ mD = ReadManifests(dbDisk)
    BY Known, HandleFields
  <1>6. walCache' = [walDisk EXCEPT !.frames[Len(walDisk.frames)].state = "full"]
    BY <1>1, <1>3
  <1>7. FreshLog(walDisk, mD) /\ FullFrames(walDisk) = 1..h.end /\ Len(walDisk.frames) = h.end + 1
    BY <1>2 DEF BodySynced
  <1>8. /\ FreshLog(walCache', mD) /\ Fits(walCache', mD) /\ LogBridge(walDisk, walCache')
        /\ walCache'.header = walDisk.header
        /\ FreshView(walDisk, mD, h.end) /\ FreshView(walCache', mD, h.end + 1)
        /\ Len(walCache'.frames) = h.end + 1
        /\ \A i \in 1..(h.end + 1) : walCache'.frames[i].batch = walDisk.frames[i].batch
        /\ walDisk.frames[h.end + 1].batch \in LogBatch
        /\ walDisk.frames[h.end + 1].batch.seq = mD.last + h.end + 1
    <2> DEFINE v == walCache'
               n == h.end
               m == mD
    <2>1. v \in WalImage /\ walDisk \in WalImage /\ m.last \in Nat /\ Fits(walDisk, m) /\ n \in Nat
      BY <1>4, <1>5
    <2>2. FreshLog(walDisk, m) /\ FullFrames(walDisk) = 1..n /\ Len(walDisk.frames) = n + 1
      BY <1>7
    <2>3. v = [walDisk EXCEPT !.frames[Len(walDisk.frames)].state = "full"]
      BY <1>6
    <2> HIDE DEF v, n, m
    <2>4. /\ FreshLog(v, m) /\ Fits(v, m) /\ LogBridge(walDisk, v) /\ v.header = walDisk.header
          /\ FreshView(walDisk, m, n) /\ FreshView(v, m, n + 1) /\ Len(v.frames) = n + 1
      BY <2>1, <2>2, <2>3, CommittedLog
    <2>5. \A i \in 1..(n + 1) : v.frames[i].batch = walDisk.frames[i].batch
      BY <2>1, <2>2, <2>3, CommittedLog
    <2>6. walDisk.frames[n + 1].batch \in LogBatch
      BY <2>1, <2>2, <2>3, CommittedLog
    <2>7. walDisk.frames[n + 1].batch.seq = m.last + n + 1
      <3>1. n + 1 \in 1..Len(walDisk.frames) /\ m.last + (n + 1) = m.last + n + 1
        BY <2>1, <2>2
      <3>2. WalSeq(walDisk, n + 1) = m.last + (n + 1)
        BY <2>2, <3>1 DEF FreshLog
      <3> QED
        BY <3>1, <3>2 DEF WalSeq
    <2> QED
      BY <2>4, <2>5, <2>6, <2>7 DEF v, n, m
  <1>9. Commits(dbDisk, walDisk, dbDisk, walCache')
    <2>1. mD.last + h.end # 0 => walDisk.frames[h.end + 1].batch.time >= LastTime(walDisk, mD)
      <3>1. h.sequence = mD.last + h.end /\ h.lastTime = LastTime(walDisk, mD)
        BY <1>2, <1>8 DEF Calling, TieLog, FreshView
      <3> QED
        BY <1>2, <3>1 DEF BodySynced
    <2>2. PICK b \in LogBatch : b = walDisk.frames[h.end + 1].batch
      BY <1>8
    <2>3. b.seq = mD.last + h.end + 1
          /\ (mD.last + h.end # 0 => b.time >= LastTime(walDisk, mD))
      BY <1>8, <2>1, <2>2
    <2>4. /\ FreshView(walDisk, mD, h.end) /\ FreshView(walCache', mD, h.end + 1)
          /\ \A i \in 1..(h.end + 1) : walCache'.frames[i].batch = walDisk.frames[i].batch
      BY <1>8
    <2> QED
      BY <1>4, <1>5, <2>2, <2>3, <2>4, CommitView
  <1>10. Files(dbDisk, dbCache, walDisk, walCache', doom)
    BY <1>3, <1>8, <1>9, Known DEF Files
  <1>11. HistoryInv'
    <2>1. Recorded(dbDisk, walDisk, tries, acked, doom, doomed)
      BY DEF PairInv, HistoryInv
    <2>2. High(dbDisk, walDisk) = h.sequence /\ h.sequence \in Nat /\ h.sequence + 1 <= tries
          /\ tries \in Nat
      BY <1>2, Known, HandleFields DEF Calling, TieLog, High, Appending, TypeInv, TypeOK
    <2>3. Recorded(dbDisk, walCache', tries, acked, doom, doomed)
      BY <1>9, <2>1, <2>2, RecordedCommits
    <2> QED
      BY <1>1, <1>3, <2>3 DEF HistoryInv, PairInv
  <1>12. mD' = mD
    BY <1>1 DEF mD
  <1>13. Calling' /\ BodySynced'
    BY <1>1, <1>2, <1>12 DEF Calling, TieLog, TieEnd, TieDb, TieKind, BodySynced
  <1>14. Appending' /\ CommitWritten'
    BY <1>1, <1>2, <1>3, <1>6 DEF Appending, SyncedDb, CommitWritten
  <1>15. AppendInv'
    BY <1>1, <1>13, <1>14 DEF AppendInv, Ready, CheckpointPcs, AppendPcs
  <1>16. OpenInv' /\ FailedInv'
    BY <1>1 DEF OpenInv, FailedInv, PairInv
  <1>17. CheckpointInv' /\ RetentionInv'
    BY <1>1 DEF CheckpointInv, RetentionInv, CheckpointPcs, RetentionPcs
  <1> QED
    BY <1>1, <1>10, <1>11, <1>15, <1>16, <1>17 DEF PairInv

\* The commit record becomes durable.
LEMMA StepSyncCommit ==
  ASSUME TypeInv, PairInv, SyncCommit
  PROVE  PairInv'
  <1>1. pc = "syncCommit" /\ pc' = "appendReturn"
    BY DEF SyncCommit, Goto
  <1>2. Calling /\ Appending /\ BodySynced /\ CommitWritten
    BY <1>1 DEF PairInv, AppendInv, AppendPcs
  <1>3. /\ dbDisk' = dbDisk /\ dbCache' = dbCache /\ walDisk' = walCache /\ h' = h /\ loc' = loc
        /\ walCache' = walCache
        /\ tries' = tries /\ acked' = acked /\ doom' = doom /\ doomed' = doomed
    BY <1>2 DEF SyncCommit, SyncWal, Calling, db, counts, history
  <1>4. Files(dbDisk, dbCache, walDisk, walCache, doom)' /\ HistoryInv'
    BY <1>3, AfterSyncWal DEF PairInv, HistoryInv
  <1>5. walDisk \in WalImage /\ walCache \in WalImage /\ mD.last \in Nat /\ Fits(walDisk, mD)
        /\ h.end \in Nat
    BY Known, HandleFields
  <1>6. /\ FreshLog(walDisk, mD) /\ FullFrames(walDisk) = 1..h.end /\ Len(walDisk.frames) = h.end + 1
        /\ walCache = [walDisk EXCEPT !.frames[Len(walDisk.frames)].state = "full"]
    BY <1>2 DEF BodySynced, CommitWritten
  <1>7. /\ FreshLog(walCache, mD) /\ walCache.header = walDisk.header
        /\ FreshView(walDisk, mD, h.end) /\ FreshView(walCache, mD, h.end + 1)
        /\ Len(walCache.frames) = h.end + 1
        /\ \A i \in 1..(h.end + 1) : walCache.frames[i].batch = walDisk.frames[i].batch
    BY SMTT(30), <1>5, <1>6, CommittedLog
  <1>8. mD' = mD
    BY <1>3 DEF mD
  <1>9. Committed'
    <2>1. SyncedWal' /\ TieDb(mD)' /\ TieKind(mD)'
      BY <1>2, <1>3, <1>7, <1>8 DEF SyncedWal, Calling, TieDb, TieKind
    <2>2. h.sequence = mD.last + h.end /\ h.installed = mD.last /\ h.installedTime = mD.time
      BY <1>2, <1>7 DEF Calling, TieLog, FreshView
    <2>3. h.end # 0 => IsMax(h.walMax, walCache, h.end)
      <3>1. \A i \in 1..h.end : i \in 1..(h.end + 1)
        BY <1>5
      <3>2. h.end # 0 => IsMax(h.walMax, walDisk, h.end)
        BY <1>2 DEF Calling, TieEnd
      <3> QED
        BY <1>7, <3>1, <3>2 DEF IsMax
    <2>4. FullFrames(walCache) = 1..(h.end + 1)
      BY <1>7 DEF FreshView
    <2> QED
      BY <1>3, <1>7, <1>8, <2>1, <2>2, <2>3, <2>4 DEF Committed
  <1>10. Appending'
    BY <1>2, <1>3, <1>7 DEF Appending, SyncedDb
  <1>11. AppendInv'
    BY <1>1, <1>9, <1>10 DEF AppendInv, Ready, CheckpointPcs, AppendPcs
  <1>12. OpenInv' /\ FailedInv'
    BY <1>1, <1>3 DEF OpenInv, FailedInv, PairInv
  <1>13. CheckpointInv' /\ RetentionInv'
    BY <1>1 DEF CheckpointInv, RetentionInv, CheckpointPcs, RetentionPcs
  <1> QED
    BY <1>4, <1>11, <1>12, <1>13 DEF PairInv

\* append returns: the handle counts the frame, the caller knows the batch.
LEMMA StepAppendReturn ==
  ASSUME TypeInv, PairInv, AppendReturn
  PROVE  PairInv'
  <1>1. /\ dbDisk' = dbDisk /\ dbCache' = dbCache /\ walDisk' = walDisk /\ walCache' = walCache
        /\ loc' = loc /\ tries' = tries /\ doom' = doom /\ doomed' = doomed
        /\ acked' = acked \cup {Written}
        /\ pc = "appendReturn" /\ pc' = "open"
    BY DEF AppendReturn, Goto, db, wal, counts
  <1>2. Committed /\ Appending
    BY <1>1 DEF PairInv, AppendInv, AppendPcs
  <1>3. walCache = walDisk /\ walDisk.header = "valid" /\ dbDisk = dbCache /\ dbDisk.header = "valid"
        /\ h.open
    BY <1>2 DEF Committed, Appending, SyncedDb, SyncedWal
  <1>4. walDisk \in WalImage /\ mD.last \in Nat /\ h.end \in Nat /\ h \in Handle
    BY Known, HandleFields
  <1>5. PICK n \in Nat : n = h.end
    BY <1>4
  <1>6. /\ FreshLog(walDisk, mD) /\ FullFrames(walDisk) = 1..(n + 1) /\ Len(walDisk.frames) = n + 1
        /\ n # 0 => IsMax(h.walMax, walDisk, n)
    BY <1>2, <1>5 DEF Committed
  <1>7. FreshView(walDisk, mD, n + 1)
    <2>1. Cardinality(1..(n + 1)) = n + 1
      BY <1>5, FS_Interval
    <2> QED
      BY <1>4, <1>6, <2>1, FreshCount
  <1>8. Written = walDisk.frames[n + 1].batch
    BY <1>3, <1>6 DEF Written
  <1>9. n + 1 \in 1..Len(walDisk.frames)
    BY <1>5, <1>6
  <1>10. Written.seq = mD.last + (n + 1) /\ Written.time \in Nat
    <2>1. WalSeq(walDisk, n + 1) = mD.last + (n + 1)
      BY <1>6, <1>9 DEF FreshLog
    <2> QED
      BY <1>4, <1>8, <1>9, <2>1, WalBatchType DEF WalSeq
  <1>11. /\ h'.open = h.open /\ h'.failed = FALSE /\ h'.end = n + 1 /\ h'.sequence = Written.seq
         /\ h'.dataEnd = h.dataEnd /\ h'.installed = h.installed /\ h'.generation = h.generation
         /\ h'.revision = h.revision /\ h'.retention = h.retention /\ h'.lastTime = Written.time
         /\ h'.installedTime = h.installedTime /\ h'.lastSegment = h.lastSegment
         /\ h'.legacy = h.legacy
         /\ h'.walMax = IF n = 0 \/ Written.time > h.walMax THEN Written.time ELSE h.walMax
    BY <1>4, <1>5 DEF AppendReturn, Handle
  <1>12. mD' = mD
    BY <1>1 DEF mD
  <1>13. IsMax(h'.walMax, walDisk, n + 1)
    <2>1. \A i \in 1..(n + 1) : i \in 1..n \/ i = n + 1
      BY <1>5
    <2>2. \A i \in 1..n : i \in 1..(n + 1)
      BY <1>5
    <2>3. n + 1 \in 1..(n + 1)
      BY <1>5
    <2>4. \A i \in 1..(n + 1) : walDisk.frames[i].batch.time \in Nat
      BY <1>4, <1>6, WalBatchType
    <2>5. h.walMax \in Nat /\ h'.walMax \in Nat
      BY <1>4, <1>10, <1>11, HandleFields
    <2>6. PICK t \in Nat : t = Written.time /\ t = walDisk.frames[n + 1].batch.time
      BY <1>8, <1>10
    <2>7. PICK x \in Nat : x = h.walMax
      BY <2>5
    <2>8. CASE n = 0 \/ t > x
      <3>1. h'.walMax = t
        BY <1>11, <2>6, <2>7, <2>8
      <3>2. \A i \in 1..n : walDisk.frames[i].batch.time <= t
        <4>1. CASE n = 0
          BY <4>1
        <4>2. CASE n # 0 /\ t > x
          BY <1>6, <2>2, <2>4, <2>7, <4>2 DEF IsMax
        <4> QED
          BY <2>8, <4>1, <4>2
      <3>3. \A i \in 1..(n + 1) : walDisk.frames[i].batch.time <= t
        BY <2>1, <2>6, <3>2
      <3> QED
        BY <2>3, <2>6, <3>1, <3>3 DEF IsMax
    <2>9. CASE n # 0 /\ ~ (t > x)
      <3>1. h'.walMax = x /\ t <= x
        BY <1>11, <2>6, <2>7, <2>9
      <3>2. IsMax(x, walDisk, n)
        BY <1>6, <2>7, <2>9
      <3>3. \A i \in 1..(n + 1) : walDisk.frames[i].batch.time <= x
        BY <2>1, <2>6, <3>1, <3>2 DEF IsMax
      <3> QED
        BY <2>2, <3>1, <3>2, <3>3 DEF IsMax
    <2> QED
      BY <2>8, <2>9
  <1>14. Clean(walDisk)'
    BY <1>1, <1>6, <1>11, <1>12 DEF Clean
  <1>15. Idle'
    BY <1>1, <1>3, <1>14 DEF Idle, SyncedDb, SyncedWal
  <1>16. TieLog(mD, walDisk)'
    <2>1. LastSequence(walDisk, mD) = mD.last + (n + 1)
      BY <1>7 DEF FreshView
    <2>2. LastTime(walDisk, mD) = Written.time
      <3>1. n + 1 # 0
        BY <1>5
      <3> QED
        BY <1>7, <1>8, <3>1 DEF FreshView
    <2>3. h.installed = mD.last /\ h.installedTime = mD.time
      BY <1>2 DEF Committed
    <2> QED
      BY <1>1, <1>10, <1>11, <1>12, <2>1, <2>2, <2>3 DEF TieLog
  <1>17. TieEnd(mD, walDisk)'
    <2>1. ~ Stale(walDisk, mD) /\ Cardinality(FullFrames(walDisk)) = n + 1
      BY <1>7 DEF FreshView
    <2> QED
      BY <1>1, <1>11, <1>12, <1>13, <2>1 DEF TieEnd
  <1>18. Calling'
    BY <1>1, <1>2, <1>3, <1>11, <1>12, <1>16, <1>17 DEF Calling, Committed, TieDb, TieKind
  <1>19. Written \in Held(dbDisk, walDisk)
    <2>1. Written \in WalData(walDisk, mD)
      BY <1>6, <1>7, <1>8, <1>9 DEF FreshView
    <2> QED
      BY <2>1, HeldIs DEF mD
  <1>20. HistoryInv'
    BY <1>1, <1>3, <1>19 DEF HistoryInv, PairInv, Recorded
  <1>21. AppendInv'
    BY <1>1, <1>15, <1>18 DEF AppendInv, AppendPcs, CheckpointPcs
  <1>22. OpenInv' /\ FailedInv'
    BY <1>1 DEF OpenInv, FailedInv
  <1>23. CheckpointInv' /\ RetentionInv'
    BY <1>1 DEF CheckpointInv, RetentionInv, CheckpointPcs, RetentionPcs
  <1> QED
    BY <1>1, <1>20, <1>21, <1>22, <1>23 DEF PairInv

------------------------------------------------------------------------------
(* The steps of checkpoint. *)

\* The call is decided; only the failed flag is set.
LEMMA StepCheckpoint ==
  ASSUME TypeInv, PairInv, Checkpoint
  PROVE  PairInv'
  <1>1. /\ dbDisk' = dbDisk /\ dbCache' = dbCache /\ walDisk' = walDisk /\ walCache' = walCache
        /\ loc' = loc /\ tries' = tries /\ doom' = doom /\ doomed' = doomed /\ acked' = acked
        /\ pc' \in {"upgrade", "segment"} /\ (pc' = "segment" => ~h.legacy)
        /\ pc' = "upgrade" => h.legacy
        /\ h.end # 0 /\ NewEnd <= DbCapacity
    BY DEF Checkpoint, db, wal, counts, history
  <1>2. /\ pc = "open" /\ Calling /\ SyncedDb /\ SyncedWal /\ Clean(walDisk)
    BY AtReady DEF Checkpoint
  <1>3. HandleSame /\ h'.failed = TRUE
    BY DEF Checkpoint, TypeInv, TypeOK, Handle, HandleSame
  <1>4. mD' = mD /\ mC' = mC
    BY <1>1 DEF mD, mC
  <1>5. Calling'
    BY <1>1, <1>2, <1>3, <1>4 DEF Calling, TieLog, TieEnd, TieDb, TieKind, HandleSame
  <1>6. SyncedDb' /\ SyncedWal' /\ Clean(walDisk)'
    BY <1>1, <1>2, <1>3, <1>4 DEF SyncedDb, SyncedWal, Clean, HandleSame
  <1>7. Checkpointing'
    BY <1>1, <1>3, <1>6 DEF Checkpointing, NewEnd, HandleSame
  <1>8. AppendInv'
    BY <1>1, <1>5 DEF AppendInv, AppendPcs, Ready
  <1>9. CheckpointInv'
    BY <1>1, <1>3, <1>6, <1>7 DEF CheckpointInv, HandleSame
  <1>10. FailedInv' /\ OpenInv' /\ RetentionInv'
    BY <1>1, <1>3 DEF FailedInv, OpenInv, RetentionInv, RetentionPcs
  <1>11. HistoryInv'
    BY <1>1 DEF HistoryInv, PairInv
  <1> QED
    BY <1>1, <1>8, <1>9, <1>10, <1>11 DEF PairInv

\* A step of the call that changes the database file alone.
LEMMA CheckpointKept ==
  ASSUME Calling, Checkpointing, mD' = mD, walDisk' = walDisk, walCache' = walCache, h' = h,
         dbDisk'.header = "valid"
  PROVE  Calling' /\ Checkpointing'
  <1>1. Calling'
    BY DEF Calling, TieLog, TieEnd, TieDb, TieKind
  <1>2. Checkpointing'
    BY DEF Checkpointing, SyncedWal, Clean, NewEnd
  <1> QED
    BY <1>1, <1>2

\* The log that a checkpoint installs.
LEMMA CheckpointLog ==
  ASSUME TypeInv, PairInv, Calling, Checkpointing
  PROVE  /\ walDisk \in WalImage /\ walCache = walDisk /\ mD \in Manifest /\ mD.last \in Nat
         /\ h.end \in Nat /\ h.end # 0
         /\ FreshLog(walDisk, mD) /\ Fits(walDisk, mD) /\ FullFrames(walDisk) = 1..h.end
         /\ Len(walDisk.frames) = h.end /\ h.end <= WalCapacity
         /\ FreshView(walDisk, mD, h.end) /\ h.sequence = mD.last + h.end
         /\ h.installed = mD.last /\ h.lastTime = LastTime(walDisk, mD)
         /\ IsMax(h.walMax, walDisk, h.end)
  <1>1. /\ walDisk \in WalImage /\ mD \in Manifest /\ mD.last \in Nat /\ h.end \in Nat
        /\ Fits(walDisk, mD)
    BY Known, HandleFields
  <1>2. /\ walCache = walDisk /\ FreshLog(walDisk, mD) /\ FullFrames(walDisk) = 1..h.end
        /\ Len(walDisk.frames) = h.end /\ h.end # 0
    BY DEF Checkpointing, SyncedWal, Clean
  <1>3. h.end <= WalCapacity
    BY <1>2 DEF FreshLog
  <1>4. FreshView(walDisk, mD, h.end)
    <2>1. Cardinality(1..h.end) = h.end
      BY <1>1, FS_Interval
    <2> QED
      BY <1>1, <1>2, <2>1, FreshCount
  <1>5. /\ h.sequence = mD.last + h.end /\ h.installed = mD.last
        /\ h.lastTime = LastTime(walDisk, mD)
    BY <1>4 DEF Calling, TieLog, FreshView
  <1>6. IsMax(h.walMax, walDisk, h.end)
    BY <1>2 DEF Calling, TieEnd
  <1> QED
    BY <1>1, <1>2, <1>3, <1>4, <1>5, <1>6

\* The manifest that a checkpoint publishes.
LEMMA InstallFacts ==
  ASSUME TypeInv, PairInv, Calling, Checkpointing
  PROVE  /\ InstallRecord \in Manifest /\ Bounds(InstallRecord) /\ Bounds(mD)
         /\ InstallRecord.revision = h.revision + 1 /\ InstallRecord.revision = mD.revision + 1
         /\ InstallRecord.count = mD.count + 1 /\ mD.count \in Nat /\ mD.revision \in Nat
         /\ InstallRecord.end = NewEnd /\ NewEnd \in Nat /\ NewEnd = mD.end + 2 + h.end
         /\ InstallRecord.last = h.sequence /\ InstallRecord.last = mD.last + h.end
         /\ InstallRecord.time = h.lastTime /\ InstallRecord.tail = mD.end
         /\ InstallRecord.root = DataStart /\ mD.root = DataStart /\ InstallRecord.phase = 0
         /\ InstallRecord.kind = (IF h.retention THEN "retain" ELSE "install")
         /\ h.dataEnd = mD.end /\ mD.end \in Nat /\ mD.end >= 2 /\ NewEnd <= DbCapacity
         /\ InstallRecord.count = h.generation + 1
         /\ InstallRecord.kind = "install" => InstallRecord.revision = InstallRecord.count
  <1>1. /\ mD \in Manifest /\ Valid(mD) /\ h \in Handle
    BY Known
  <1>2. /\ Bounds(mD) /\ mD.revision \in Nat /\ mD.count \in Nat /\ mD.end \in Nat
        /\ mD.kind \in {"install", "retain"} /\ mD.end >= 2
        /\ mD.phase # 2 => mD.root = DataStart
    BY <1>1, ValidFields
  <1>3. /\ h.dataEnd = mD.end /\ h.generation = mD.count /\ h.revision = mD.revision
        /\ h.retention <=> mD.kind = "retain"
        /\ mD.phase = 0
    BY DEF Calling, TieDb, TieKind
  <1>4. h.end \in Nat /\ h.sequence = mD.last + h.end /\ mD.last \in Nat
    BY CheckpointLog
  <1>5. NewEnd \in Nat /\ NewEnd = mD.end + 2 + h.end /\ NewEnd <= DbCapacity
    BY <1>2, <1>3, <1>4, NewEndType DEF NewEnd, HeaderSize, Checkpointing
  <1>6. ~ h.retention => mD.revision = mD.count
    BY <1>1, <1>2, <1>3 DEF Valid
  <1>7. /\ InstallRecord.end = NewEnd /\ InstallRecord.last = h.sequence
        /\ InstallRecord.time = h.lastTime /\ InstallRecord.tail = h.dataEnd
        /\ InstallRecord.root = DataStart /\ InstallRecord.phase = 0
        /\ InstallRecord.kind = (IF h.retention THEN "retain" ELSE "install")
        /\ InstallRecord.count = h.generation + 1
    BY DEF InstallRecord, EncodeManifest, EncodeRetention
  <1>8. InstallRecord.revision = IF h.retention THEN h.revision + 1 ELSE h.generation + 1
    BY DEF InstallRecord, EncodeManifest, EncodeRetention
  <1>9. Bounds(InstallRecord)
    BY <1>2, <1>3, <1>4, <1>5, <1>7 DEF Bounds, DataStart
  <1>10. mD.root = DataStart
    BY <1>2, <1>3
  <1>11. InstallRecord.revision = mD.revision + 1
    BY <1>3, <1>6, <1>8
  <1>12. InstallRecord.kind = "install" => InstallRecord.revision = InstallRecord.count
    BY <1>7, <1>8
  <1> QED
    BY <1>2, <1>3, <1>4, <1>5, <1>7, <1>9, <1>10, <1>11, <1>12, InstallRecordType

\* The prefix of an old database file gets its slots.
LEMMA StepUpgradePrefix ==
  ASSUME TypeInv, PairInv, TypeInv', UpgradePrefix
  PROVE  PairInv'
  <1>1. /\ dbDisk' = dbDisk /\ walDisk' = walDisk /\ walCache' = walCache /\ h' = h
        /\ loc' = loc /\ tries' = tries /\ doom' = doom /\ doomed' = doomed /\ acked' = acked
        /\ dbCache' = [NewDb EXCEPT !.cell = dbCache.cell]
        /\ pc = "upgrade" /\ pc' = "syncUpgrade"
    BY DEF UpgradePrefix, Goto, wal, counts, history
  <1>2. Calling /\ Checkpointing /\ SyncedDb /\ h.legacy
    BY <1>1 DEF PairInv, AppendInv, CheckpointInv, CheckpointPcs
  <1>3. mD = EmptyManifest /\ dbCache = dbDisk /\ walCache = walDisk /\ dbDisk.header = "valid"
    BY <1>2 DEF Calling, TieDb, SyncedDb, Checkpointing, SyncedWal
  <1>4. dbCache' \in DbImage /\ dbDisk \in DbImage /\ walDisk \in WalImage
        /\ mD = ReadManifests(dbDisk)
    BY Known DEF TypeInv, TypeOK
  <1>5. dbCache'.header = "valid" /\ dbCache'.slot = [NoSlots EXCEPT ![0] = EmptyManifest]
    BY <1>1 DEF NewDb, LegacyDb, BareDb
  <1>6. Presents(dbCache', mD)
    <2>1. \A i \in {0, 1} : dbCache'.slot[i] = EmptyManifest \/ dbCache'.slot[i].kind = "none"
      BY <1>5 DEF NoSlots, NoManifest, EmptyManifest, EncodeManifest
    <2> QED
      BY <1>3, <2>1, PresentsEmpty
  <1>7. Agree(dbDisk, dbCache', mD)
    BY <1>3, EmptyWhole
  <1>8. Files(dbDisk, dbDisk, walDisk, walDisk, doom)
    BY <1>3, Known
  <1>9. /\ Files(dbDisk, dbCache', walDisk, walDisk, doom) /\ ReadManifests(dbCache') = mD
        /\ Same(dbDisk, walDisk, dbCache', walDisk)
    BY <1>4, <1>6, <1>7, <1>8, FilesKept
  <1>10. HistoryInv'
    <2>1. Recorded(dbDisk, walDisk, tries, acked, doom, doomed)
      BY DEF PairInv, HistoryInv
    <2>2. Recorded(dbCache', walDisk, tries, acked, doom, doomed)
      BY <1>4, <1>9, <2>1, RecordedSame
    <2> QED
      BY <1>1, <1>3, <2>1, <2>2 DEF HistoryInv, PairInv
  <1>11. mD' = mD /\ mC' = mD
    BY <1>1, <1>9 DEF mD, mC
  <1>12. Calling' /\ Checkpointing'
    BY <1>1, <1>2, <1>3, <1>11, CheckpointKept
  <1>13. CheckpointInv'
    BY <1>1, <1>5, <1>11, <1>12 DEF CheckpointInv, SameManifest
  <1>14. AppendInv'
    BY <1>1, <1>12 DEF AppendInv, AppendPcs, Ready
  <1>15. FailedInv' /\ OpenInv' /\ RetentionInv'
    BY <1>1 DEF FailedInv, OpenInv, RetentionInv, RetentionPcs, PairInv
  <1> QED
    BY <1>1, <1>3, <1>9, <1>10, <1>13, <1>14, <1>15 DEF PairInv

\* The new prefix becomes durable.
LEMMA StepSyncUpgrade ==
  ASSUME TypeInv, PairInv, SyncUpgrade
  PROVE  PairInv'
  <1>1. pc = "syncUpgrade" /\ pc' = "segment"
    BY DEF SyncUpgrade, Goto
  <1>2. Calling /\ Checkpointing /\ SameManifest
    BY <1>1 DEF PairInv, AppendInv, CheckpointInv, CheckpointPcs
  <1>3. /\ dbDisk' = dbCache /\ dbCache' = dbCache /\ walDisk' = walDisk /\ walCache' = walCache
        /\ loc' = loc /\ tries' = tries /\ doom' = doom /\ doomed' = doomed /\ acked' = acked
    BY <1>2 DEF SyncUpgrade, SyncDb, Calling, wal, counts, history
  <1>4. /\ h'.open = h.open /\ h'.failed = h.failed /\ h'.end = h.end /\ h'.sequence = h.sequence
        /\ h'.dataEnd = h.dataEnd /\ h'.installed = h.installed /\ h'.generation = h.generation
        /\ h'.revision = h.revision /\ h'.retention = h.retention /\ h'.lastTime = h.lastTime
        /\ h'.installedTime = h.installedTime /\ h'.walMax = h.walMax
        /\ h'.lastSegment = h.lastSegment /\ h'.legacy = FALSE
    BY DEF SyncUpgrade, TypeInv, TypeOK, Handle
  <1>5. mD' = mD
    BY <1>2, <1>3 DEF SameManifest, mC, mD
  <1>6. Files(dbDisk, dbCache, walDisk, walCache, doom)' /\ HistoryInv'
    BY <1>3, AfterSyncDb DEF PairInv, HistoryInv
  <1>7. Calling' /\ SyncedDb'
    BY <1>2, <1>3, <1>4, <1>5 DEF Calling, TieLog, TieEnd, TieDb, TieKind, SameManifest, SyncedDb
  <1>8. Checkpointing'
    BY <1>2, <1>3, <1>4, <1>5 DEF Checkpointing, SyncedWal, Clean, NewEnd
  <1>9. CheckpointInv'
    BY <1>1, <1>4, <1>7, <1>8 DEF CheckpointInv
  <1>10. AppendInv'
    BY <1>1, <1>7 DEF AppendInv, AppendPcs, Ready
  <1>11. FailedInv' /\ OpenInv' /\ RetentionInv'
    BY <1>1, <1>4 DEF FailedInv, OpenInv, RetentionInv, RetentionPcs, PairInv
  <1> QED
    BY <1>6, <1>9, <1>10, <1>11 DEF PairInv

\* What a write of units leaves: the header, the slots, the units outside.
LEMMA WriteCellsFacts ==
  ASSUME NEW d \in DbImage, NEW end \in Nat, NEW image, NEW c, c = WriteCells(d, end, image)
  PROVE  /\ c.slot = d.slot /\ c.header = d.header
         /\ d.size <= c.size /\ end <= c.size
         /\ \A o \in Offsets : c.cell[o] = IF o \in DOMAIN image THEN image[o] ELSE d.cell[o]
  <1>1. d.size \in Nat
    BY DEF DbImage
  <1>2. /\ c.slot = d.slot /\ c.header = d.header
        /\ c.size = (IF end > d.size THEN end ELSE d.size)
        /\ c.cell = [o \in Offsets |-> IF o \in DOMAIN image THEN image[o] ELSE d.cell[o]]
    BY DEF WriteCells, DbImage
  <1> QED
    BY <1>1, <1>2

\* The units of the segment that a checkpoint writes.
LEMMA SegmentCells ==
  ASSUME TypeInv, PairInv, Calling, Checkpointing, NEW c \in DbImage,
         c = WriteCells(dbCache, NewEnd, SegmentImage)
  PROVE  /\ c.cell[mD.end] = Header(mD.last + 1, mD.last + h.end, h.walMax)
         /\ c.cell[mD.end + 1] = HeaderRest
         /\ \A i \in 1..h.end : c.cell[mD.end + 1 + i] = Frame(walDisk.frames[i].batch)
         /\ \A o \in Offsets : o < mD.end => c.cell[o] = dbCache.cell[o]
  <1>1. PICK e \in Nat : e = mD.end /\ e = h.dataEnd
    BY InstallFacts
  <1>2. PICK n \in Nat : n = h.end /\ n # 0
    BY CheckpointLog
  <1>3. e >= 2 /\ NewEnd = e + 2 + n /\ e + 2 + n <= DbCapacity /\ NewEnd \in Nat
    BY <1>1, <1>2, InstallFacts
  <1>4. DbCapacity \in Nat
    BY CapacityAssumption
  <1>5. \A o \in Offsets : c.cell[o] = IF o \in DOMAIN SegmentImage THEN SegmentImage[o]
                                       ELSE dbCache.cell[o]
    BY <1>3, Known, WriteCellsFacts
  <1>6. DOMAIN SegmentImage = e..(e + 2 + n - 1)
    BY <1>1, <1>3 DEF SegmentImage
  <1>7. \A o \in e..(e + 2 + n - 1) : o \in Offsets
    BY <1>3, <1>4 DEF Offsets, DataStart
  <1>8. \A o \in e..(e + 2 + n - 1) : c.cell[o] = SegmentImage[o]
    BY <1>5, <1>6, <1>7
  <1>9. \A o \in e..(e + 2 + n - 1) :
           SegmentImage[o] = CASE o = e     -> Header(h.installed + 1, h.sequence, h.walMax)
                               [] o = e + 1 -> HeaderRest
                               [] OTHER -> Frame(walCache.frames[o - e - 1].batch)
    BY <1>1, <1>3 DEF SegmentImage
  <1>10. c.cell[e] = Header(mD.last + 1, mD.last + h.end, h.walMax)
    <2>1. e \in e..(e + 2 + n - 1)
      BY <1>1, <1>2
    <2>2. h.installed = mD.last /\ h.sequence = mD.last + h.end
      BY CheckpointLog
    <2> QED
      BY <1>8, <1>9, <2>1, <2>2
  <1>11. c.cell[e + 1] = HeaderRest
    <2>1. e + 1 \in e..(e + 2 + n - 1) /\ e + 1 # e
      BY <1>1, <1>2
    <2> QED
      BY <1>8, <1>9, <2>1
  <1>12. ASSUME NEW i \in 1..n
         PROVE  c.cell[e + 1 + i] = Frame(walDisk.frames[i].batch)
    <2>1. PICK o \in Nat : o = e + 1 + i
      OBVIOUS
    <2>2. o \in e..(e + 2 + n - 1) /\ o # e /\ o # e + 1 /\ o - e - 1 = i
      BY <1>1, <1>2, <2>1
    <2>3. walCache = walDisk
      BY CheckpointLog
    <2>4. SegmentImage[o] = Frame(walCache.frames[o - e - 1].batch)
      BY <1>9, <2>2
    <2> QED
      BY <1>8, <2>1, <2>2, <2>3, <2>4
  <1>13. ASSUME NEW o \in Offsets, o < e
         PROVE  c.cell[o] = dbCache.cell[o]
    <2>1. o \notin e..(e + 2 + n - 1)
      BY <1>1, <1>13, OffsetsFinite
    <2> QED
      BY <1>5, <1>6, <2>1
  <1> QED
    BY <1>1, <1>2, <1>10, <1>11, <1>12, <1>13

\* The segment behind the data makes the next manifest whole.
LEMMA SegmentMade ==
  ASSUME TypeInv, PairInv, Calling, Checkpointing, NEW c \in DbImage,
         c = WriteCells(dbCache, NewEnd, SegmentImage), Whole(c, mD)
  PROVE  /\ Whole(c, InstallRecord)
         /\ Data(c, InstallRecord) = Data(c, mD) \cup {walDisk.frames[i].batch : i \in 1..h.end}
  <1>1. PICK e \in Nat : e = mD.end
    BY InstallFacts
  <1>2. PICK n \in Nat : n = h.end /\ n # 0 /\ n <= WalCapacity
    BY CheckpointLog
  <1>3. PICK a \in Nat : a = mD.last
    BY CheckpointLog
  <1>4. PICK x \in Nat : x = h.walMax
    BY Known, HandleFields
  <1>5. e >= DataStart /\ e + 2 + n <= DbCapacity /\ InstallRecord.end = e + 2 + n
        /\ InstallRecord.last = a + n
    BY <1>1, <1>2, <1>3, InstallFacts DEF DataStart
  <1> DEFINE b == [i \in 1..n |-> walDisk.frames[i].batch]
  <1>6. c.cell[e] = Header(a + 1, a + n, x) /\ c.cell[e + 1] = HeaderRest
    BY <1>1, <1>2, <1>3, <1>4, SegmentCells
  <1>7. \A i \in 1..n : c.cell[e + 1 + i] = Frame(b[i]) /\ b[i].seq = a + i
    <2>1. \A i \in 1..n : c.cell[e + 1 + i] = Frame(walDisk.frames[i].batch)
      BY <1>1, <1>2, SegmentCells
    <2>2. \A i \in 1..n : WalSeq(walDisk, i) = a + i
      BY <1>2, <1>3, CheckpointLog DEF FreshLog
    <2> QED
      BY <2>1, <2>2 DEF WalSeq
  <1>8. (\E i \in 1..n : b[i].time = x) /\ (\A i \in 1..n : b[i].time <= x)
    BY <1>2, <1>4, CheckpointLog DEF IsMax
  <1>9. {b[i] : i \in 1..n} = {walDisk.frames[i].batch : i \in 1..n}
    OBVIOUS
  <1>10. PICK r : r = InstallRecord
    OBVIOUS
  <1>11. r.last = a + n
    BY <1>5, <1>10
  <1> HIDE DEF b
  <1>12. e \in Nat /\ n \in Nat /\ a \in Nat /\ x \in Nat
    BY <1>1, <1>2, <1>3, <1>4
  <1>13. SegmentAt(c, e, a, n, x, b)
    BY <1>2, <1>5, <1>6, <1>7, <1>8 DEF SegmentAt
  <1>14. /\ SegmentOK(c, e, e + 2 + n) /\ SegmentSize(c, e) = 2 + n /\ c.cell[e].first = a + 1
         /\ SegmentGood(c, e, r)
    BY <1>11, <1>12, <1>13, FreshSegment
  <1>15. SegmentBatches(c, e) = {b[i] : i \in 1..n}
    BY <1>11, <1>12, <1>13, FreshSegment
  <1>16. /\ Bounds(mD) /\ Bounds(r) /\ r.root = mD.root /\ r.count = mD.count + 1
    BY <1>10, InstallFacts
  <1>17. r.end = e + 2 + n /\ r.end = e + SegmentSize(c, e)
    BY <1>5, <1>10, <1>14
  <1>18. mD.last <= r.last /\ mD.last < c.cell[e].first
    BY <1>3, <1>11, <1>14
  <1>19. Whole(c, r) /\ Data(c, r) = Data(c, mD) \cup SegmentBatches(c, e)
    BY <1>1, <1>14, <1>16, <1>17, <1>18, WholeExtend
  <1> QED
    BY <1>2, <1>9, <1>10, <1>15, <1>19

\* The segment is written behind the data.
LEMMA StepWriteSegment ==
  ASSUME TypeInv, PairInv, TypeInv', WriteSegment
  PROVE  PairInv'
  <1>1. /\ dbDisk' = dbDisk /\ walDisk' = walDisk /\ walCache' = walCache /\ h' = h
        /\ loc' = loc /\ tries' = tries /\ doom' = doom /\ doomed' = doomed /\ acked' = acked
        /\ dbCache' = WriteCells(dbCache, NewEnd, SegmentImage)
        /\ pc = "segment" /\ pc' = "syncSegment"
    BY DEF WriteSegment, Goto, wal, counts, history
  <1>2. Calling /\ Checkpointing /\ SyncedDb /\ ~h.legacy
    BY <1>1 DEF PairInv, AppendInv, CheckpointInv, CheckpointPcs
  <1>3. dbCache = dbDisk /\ walCache = walDisk /\ dbDisk.header = "valid"
    BY <1>2 DEF SyncedDb, Checkpointing, SyncedWal
  <1>4. dbCache' \in DbImage /\ dbDisk \in DbImage /\ walDisk \in WalImage
        /\ mD = ReadManifests(dbDisk) /\ Presents(dbDisk, mD)
    BY Known DEF TypeInv, TypeOK
  <1>5. /\ dbCache'.slot = dbDisk.slot /\ dbCache'.header = dbDisk.header
        /\ dbDisk.size <= dbCache'.size /\ NewEnd <= dbCache'.size /\ NewEnd \in Nat
    BY <1>1, <1>2, <1>3, <1>4, InstallFacts, WriteCellsFacts
  <1>6. Agree(dbDisk, dbCache', mD)
    BY <1>1, <1>2, <1>3, <1>4, SegmentCells DEF Agree
  <1>7. mD.end <= dbCache'.size \/ mD = EmptyManifest
    <2>1. mD.end \in Nat /\ dbDisk.size \in Nat /\ dbCache'.size \in Nat
      BY <1>2, <1>4, InstallFacts DEF DbImage
    <2> QED
      BY <1>4, <1>5, <2>1 DEF Presents
  <1>8. Files(dbDisk, dbDisk, walDisk, walDisk, doom)
    BY <1>3, Known
  <1>9. /\ Files(dbDisk, dbCache', walDisk, walDisk, doom) /\ ReadManifests(dbCache') = mD
        /\ Same(dbDisk, walDisk, dbCache', walDisk) /\ Whole(dbCache', mD)
    BY <1>4, <1>5, <1>6, <1>7, <1>8, FilesData
  <1>10. HistoryInv'
    <2>1. Recorded(dbDisk, walDisk, tries, acked, doom, doomed)
      BY DEF PairInv, HistoryInv
    <2>2. Recorded(dbCache', walDisk, tries, acked, doom, doomed)
      BY <1>4, <1>9, <2>1, RecordedSame
    <2> QED
      BY <1>1, <1>3, <2>1, <2>2 DEF HistoryInv, PairInv
  <1>11. mD' = mD /\ mC' = mD
    BY <1>1, <1>9 DEF mD, mC
  <1>12. Calling' /\ Checkpointing'
    BY <1>1, <1>2, <1>3, <1>11, CheckpointKept
  <1>13. InstallRecord' = InstallRecord /\ NewEnd' = NewEnd
    BY <1>1 DEF InstallRecord, NewEnd
  <1>14. SegmentWritten'
    <2>1. /\ Whole(dbCache', InstallRecord)
          /\ Data(dbCache', InstallRecord)
                = Data(dbCache', mD) \cup {walDisk.frames[i].batch : i \in 1..h.end}
      BY <1>1, <1>2, <1>4, <1>9, SegmentMade
    <2> QED
      BY <1>1, <1>5, <1>11, <1>13, <2>1 DEF SegmentWritten
  <1>15. CheckpointInv'
    BY <1>1, <1>2, <1>3, <1>5, <1>11, <1>12, <1>14 DEF CheckpointInv, SameManifest
  <1>16. AppendInv'
    BY <1>1, <1>12 DEF AppendInv, AppendPcs, Ready
  <1>17. FailedInv' /\ OpenInv' /\ RetentionInv'
    BY <1>1 DEF FailedInv, OpenInv, RetentionInv, RetentionPcs, PairInv
  <1> QED
    BY <1>1, <1>3, <1>9, <1>10, <1>15, <1>16, <1>17 DEF PairInv

\* The segment becomes durable before any manifest lists it.
LEMMA StepSyncSegment ==
  ASSUME TypeInv, PairInv, SyncSegment
  PROVE  PairInv'
  <1>1. pc = "syncSegment" /\ pc' = "manifest"
    BY DEF SyncSegment, Goto
  <1>2. Calling /\ Checkpointing /\ SameManifest /\ SegmentWritten /\ ~h.legacy
    BY <1>1 DEF PairInv, AppendInv, CheckpointInv, CheckpointPcs
  <1>3. /\ dbDisk' = dbCache /\ dbCache' = dbCache /\ walDisk' = walDisk /\ walCache' = walCache
        /\ loc' = loc /\ tries' = tries /\ doom' = doom /\ doomed' = doomed /\ acked' = acked
        /\ h' = h
    BY <1>2 DEF SyncSegment, SyncDb, Calling, wal, counts, history
  <1>4. mD' = mD
    BY <1>2, <1>3 DEF SameManifest, mC, mD
  <1>5. Files(dbDisk, dbCache, walDisk, walCache, doom)' /\ HistoryInv'
    BY <1>3, AfterSyncDb DEF PairInv, HistoryInv
  <1>6. SyncedDb'
    BY <1>2, <1>3 DEF SameManifest, SyncedDb
  <1>7. Calling' /\ Checkpointing'
    BY <1>2, <1>3, <1>4, CheckpointKept DEF SameManifest
  <1>8. SegmentWritten'
    BY <1>2, <1>3, <1>4 DEF SegmentWritten, InstallRecord, NewEnd
  <1>9. CheckpointInv'
    BY <1>1, <1>2, <1>3, <1>6, <1>7, <1>8 DEF CheckpointInv
  <1>10. AppendInv'
    BY <1>1, <1>7 DEF AppendInv, AppendPcs, Ready
  <1>11. FailedInv' /\ OpenInv' /\ RetentionInv'
    BY <1>1, <1>3 DEF FailedInv, OpenInv, RetentionInv, RetentionPcs, PairInv
  <1> QED
    BY <1>5, <1>9, <1>10, <1>11 DEF PairInv

\* The manifest that a checkpoint publishes is one that read_manifests accepts.
LEMMA InstallValid ==
  ASSUME TypeInv, PairInv, Calling, Checkpointing, NEW d \in DbImage, Whole(d, InstallRecord)
  PROVE  Valid(InstallRecord)
  <1>1. PICK r : r = InstallRecord
    OBVIOUS
  <1>2. /\ r \in Manifest /\ Bounds(r) /\ r.root = DataStart /\ r.phase = 0
        /\ r.kind \in {"install", "retain"}
        /\ r.kind = "install" => r.revision = r.count
    BY <1>1, InstallFacts
  <1>3. r.count * SegmentMin <= r.end - r.root /\ r.count <= r.last
    BY <1>1, <1>2, WholeCounts
  <1>4. PICK k \in Nat : k = mD.count /\ r.count = k + 1
    BY <1>1, InstallFacts
  <1>5. PICK e \in Nat : e = r.end /\ e <= DbCapacity /\ e >= 2
    BY <1>2 DEF Bounds, DataStart
  <1>6. PICK t \in Nat : t = r.tail /\ t >= 2 /\ t < e
    <2>1. PICK x \in Nat : x = mD.end /\ x >= 2
      BY InstallFacts
    <2>2. PICK n \in Nat : n = h.end
      BY CheckpointLog
    <2>3. r.tail = x /\ r.end = x + 2 + n
      BY <1>1, <2>1, <2>2, InstallFacts
    <2> QED
      BY <1>5, <2>1, <2>2, <2>3
  <1>7. PICK q \in Nat : q = mD.revision /\ r.revision = q + 1
    BY <1>1, InstallFacts
  <1>8. (k + 1) * 3 <= e - 2
    BY <1>2, <1>3, <1>4, <1>5 DEF SegmentMin, HeaderSize, DataStart
  <1>9. r.last \in Nat /\ k + 1 <= r.last /\ k + 1 # 0 /\ q + 1 # 0
    BY <1>2, <1>3, <1>4, <1>7 DEF Bounds
  <1>10. r.kind = "install" => CheckManifest(r, r.end)
    <2>1. e >= 2 + (k + 1) * 3
      BY <1>4, <1>5, <1>8
    <2> QED
      BY <1>4, <1>5, <1>9, <2>1 DEF CheckManifest, DataStart, SegmentMin, HeaderSize
  <1>11. r.kind = "retain" => RetentionManifest(r, r.end)
    BY <1>2, <1>4, <1>5, <1>6, <1>7, <1>8, <1>9
       DEF RetentionManifest, DataStart, SegmentMin, HeaderSize
  <1>12. r.tail >= r.root /\ r.tail < r.end
    BY <1>2, <1>5, <1>6 DEF DataStart
  <1>13. r.count # 0
    BY <1>4, <1>9
  <1> QED
    BY <1>1, <1>2, <1>10, <1>11, <1>12, <1>13 DEF Valid

\* What a write of a slot leaves.
LEMMA WriteSlotFacts ==
  ASSUME NEW d \in DbImage, NEW r \in Nat, NEW m, NEW c, c = WriteSlot(d, r, m)
  PROVE  c.cell = d.cell /\ c.size = d.size /\ c.header = d.header
  BY DEF WriteSlot, DbImage

\* A file with the same units, read after the same manifest.
LEMMA WholeCells ==
  ASSUME NEW d \in DbImage, NEW c \in DbImage, c.cell = d.cell, NEW m, Bounds(m), Whole(d, m)
  PROVE  Whole(c, m) /\ Data(c, m) = Data(d, m)
  BY WholeAgree DEF Agree, Alike

\* The new manifest and the log it installs hold what the old ones held.
LEMMA InstallView ==
  ASSUME TypeInv, PairInv, Calling, Checkpointing, NEW c \in DbImage, c.cell = dbDisk.cell,
         ReadManifests(c) = InstallRecord, Whole(dbDisk, InstallRecord),
         Data(dbDisk, InstallRecord) = Data(dbDisk, mD) \cup {walDisk.frames[i].batch : i \in 1..h.end}
  PROVE  Same(dbDisk, walDisk, c, walDisk)
  <1>1. PICK r : r = InstallRecord
    OBVIOUS
  <1>2. Bounds(r) /\ r.last = mD.last + h.end /\ r.time = h.lastTime
    BY <1>1, InstallFacts
  <1>3. Data(c, r) = Data(dbDisk, r)
    BY <1>1, <1>2, Known, WholeCells
  <1>4. /\ walDisk \in WalImage /\ mD.last \in Nat /\ FreshLog(walDisk, mD) /\ Fits(walDisk, mD)
        /\ h.end \in Nat /\ h.end # 0 /\ FullFrames(walDisk) = 1..h.end
        /\ Len(walDisk.frames) = h.end
    BY CheckpointLog
  <1>5. /\ LastSequence(walDisk, r) = r.last /\ LastTime(walDisk, r) = r.time
        /\ WalData(walDisk, r) = {}
    BY <1>2, <1>4, InstalledLog
  <1>6. FreshView(walDisk, mD, h.end) /\ h.lastTime = LastTime(walDisk, mD)
    BY CheckpointLog
  <1>7. Held(c, walDisk) = Held(dbDisk, walDisk)
    BY <1>1, <1>3, <1>5, <1>6, HeldIs DEF FreshView, mD
  <1>8. High(c, walDisk) = High(dbDisk, walDisk) /\ Floor(c, walDisk) = Floor(dbDisk, walDisk)
    BY <1>1, <1>2, <1>5, <1>6 DEF High, Floor, FreshView, mD
  <1> QED
    BY <1>7, <1>8 DEF Same

\* The manifest that installs the segment is written.
LEMMA StepWriteManifest ==
  ASSUME TypeInv, PairInv, TypeInv', WriteManifest
  PROVE  PairInv'
  <1>1. /\ dbDisk' = dbDisk /\ walDisk' = walDisk /\ walCache' = walCache /\ h' = h
        /\ loc' = loc /\ tries' = tries /\ doom' = doom /\ doomed' = doomed /\ acked' = acked
        /\ dbCache' = WriteSlot(dbCache, h.revision + 1, InstallRecord)
        /\ pc = "manifest" /\ pc' = "syncManifest"
    BY DEF WriteManifest, Goto, wal, counts, history
  <1>2. Calling /\ Checkpointing /\ SyncedDb /\ ~h.legacy /\ SegmentWritten
    BY <1>1 DEF PairInv, AppendInv, CheckpointInv, CheckpointPcs
  <1>3. dbCache = dbDisk /\ walCache = walDisk /\ dbDisk.header = "valid"
    BY <1>2 DEF SyncedDb, Checkpointing, SyncedWal
  <1>4. dbCache' \in DbImage /\ dbDisk \in DbImage /\ walDisk \in WalImage
        /\ mD = ReadManifests(dbDisk) /\ Whole(dbDisk, mD) /\ mD \in Manifest
    BY Known DEF TypeInv, TypeOK
  <1>5. /\ InstallRecord \in Manifest /\ InstallRecord.revision = mD.revision + 1
        /\ InstallRecord.revision = h.revision + 1 /\ InstallRecord.end = NewEnd
        /\ Bounds(InstallRecord) /\ Bounds(mD) /\ InstallRecord.last = mD.last + h.end
        /\ InstallRecord.revision \in Nat /\ InstallRecord.phase = 0
    BY <1>2, InstallFacts
  <1>6. /\ Whole(dbDisk, InstallRecord) /\ NewEnd <= dbDisk.size
        /\ Data(dbDisk, InstallRecord)
              = Data(dbDisk, mD) \cup {walDisk.frames[i].batch : i \in 1..h.end}
    BY <1>2, <1>3 DEF SegmentWritten
  <1>7. Valid(InstallRecord)
    BY <1>2, <1>4, <1>6, InstallValid
  <1>8. Fits(walDisk, InstallRecord)
    BY <1>2, <1>5, CheckpointLog, InstalledLog
  <1>9. dbCache' = WriteSlot(dbDisk, InstallRecord.revision, InstallRecord)
    BY <1>1, <1>3, <1>5
  <1>10. dbCache'.cell = dbDisk.cell /\ dbCache'.size = dbDisk.size
    BY <1>4, <1>5, <1>9, WriteSlotFacts
  <1>11. ReadManifests(dbCache') = InstallRecord => Same(dbDisk, walDisk, dbCache', walDisk)
    BY <1>2, <1>4, <1>6, <1>10, InstallView
  <1>12. Files(dbDisk, dbDisk, walDisk, walDisk, doom)
    BY <1>3, Known
  <1>13. /\ Files(dbDisk, dbCache', walDisk, walDisk, doom) /\ ReadManifests(dbCache') = InstallRecord
    <2>1. InstallRecord.end <= dbDisk.size
      BY <1>5, <1>6
    <2>2. InstallRecord \in Manifest /\ InstallRecord.revision = mD.revision + 1
          /\ Whole(dbDisk, InstallRecord)
      BY <1>5, <1>6
    <2>3. dbCache' \in DbImage /\ dbDisk \in DbImage /\ walDisk \in WalImage
          /\ mD = ReadManifests(dbDisk)
      BY <1>4
    <2> QED
      BY <1>3, <1>7, <1>8, <1>9, <1>11, <1>12, <2>1, <2>2, <2>3, FilesSlot
  <1>14. HistoryInv'
    <2>1. Recorded(dbDisk, walDisk, tries, acked, doom, doomed)
      BY DEF PairInv, HistoryInv
    <2>2. Recorded(dbCache', walDisk, tries, acked, doom, doomed)
      BY <1>5, <1>11, <1>13, <2>1, RecordedSame
    <2> QED
      BY <1>1, <1>3, <2>1, <2>2 DEF HistoryInv, PairInv
  <1>15. InstallRecord' = InstallRecord /\ NewEnd' = NewEnd
    BY <1>1 DEF InstallRecord, NewEnd
  <1>16. mD' = mD /\ mC' = InstallRecord
    BY <1>1, <1>13 DEF mD, mC
  <1>17. Calling' /\ Checkpointing'
    BY <1>1, <1>2, <1>3, <1>16, CheckpointKept
  <1>18. SegmentWritten'
    <2>1. Whole(dbCache', InstallRecord) /\ Data(dbCache', InstallRecord) = Data(dbDisk, InstallRecord)
      BY <1>4, <1>5, <1>6, <1>10, WholeCells
    <2>2. Data(dbCache', mD) = Data(dbDisk, mD)
      BY <1>4, <1>5, <1>10, WholeCells
    <2> QED
      BY <1>1, <1>6, <1>10, <1>15, <1>16, <2>1, <2>2 DEF SegmentWritten
  <1>19. InstallWritten'
    BY <1>15, <1>16 DEF InstallWritten
  <1>20. CheckpointInv'
    BY <1>1, <1>2, <1>17, <1>18, <1>19 DEF CheckpointInv
  <1>21. AppendInv'
    BY <1>1, <1>17 DEF AppendInv, AppendPcs, Ready
  <1>22. FailedInv' /\ OpenInv' /\ RetentionInv'
    BY <1>1 DEF FailedInv, OpenInv, RetentionInv, RetentionPcs, PairInv
  <1> QED
    BY <1>1, <1>3, <1>13, <1>14, <1>20, <1>21, <1>22 DEF PairInv

\* The install point: the manifest becomes durable and the handle counts it.
LEMMA StepSyncManifest ==
  ASSUME TypeInv, PairInv, SyncManifest
  PROVE  PairInv'
  <1>1. pc = "syncManifest" /\ pc' = "reclaim"
    BY DEF SyncManifest, Goto
  <1>2. Calling /\ Checkpointing /\ SegmentWritten /\ InstallWritten /\ ~h.legacy
    BY <1>1 DEF PairInv, AppendInv, CheckpointInv, CheckpointPcs
  <1>3. /\ dbDisk' = dbCache /\ dbCache' = dbCache /\ walDisk' = walDisk /\ walCache' = walCache
        /\ loc' = loc /\ tries' = tries /\ doom' = doom /\ doomed' = doomed /\ acked' = acked
        /\ h' = Installed(h)
    BY <1>2 DEF SyncManifest, SyncDb, Calling, wal, counts, history
  <1>4. mD' = InstallRecord
    BY <1>2, <1>3 DEF InstallWritten, mC, mD
  <1>5. Files(dbDisk, dbCache, walDisk, walCache, doom)' /\ HistoryInv'
    BY <1>3, AfterSyncDb DEF PairInv, HistoryInv
  <1>6. /\ InstallRecord.revision = h.revision + 1 /\ InstallRecord.count = h.generation + 1
        /\ InstallRecord.end = NewEnd /\ InstallRecord.last = h.sequence
        /\ InstallRecord.last = mD.last + h.end
        /\ InstallRecord.time = h.lastTime /\ InstallRecord.tail = h.dataEnd
        /\ InstallRecord.phase = 0
        /\ InstallRecord.kind = (IF h.retention THEN "retain" ELSE "install")
        /\ InstallRecord.count = mD.count + 1 /\ mD.count \in Nat
    BY <1>2, InstallFacts
  <1>7. /\ h'.open = h.open /\ h'.failed = h.failed /\ h'.end = h.end /\ h'.sequence = h.sequence
        /\ h'.dataEnd = NewEnd /\ h'.installed = h.sequence /\ h'.generation = h.generation + 1
        /\ h'.revision = h.revision + 1 /\ h'.retention = h.retention /\ h'.lastTime = h.lastTime
        /\ h'.installedTime = h.lastTime
        /\ h'.lastSegment = h.dataEnd /\ h'.legacy = h.legacy
    BY <1>3 DEF Installed, TypeInv, TypeOK, Handle
  <1>8. /\ walDisk = walCache /\ walDisk.header = "valid" /\ h.open
    BY <1>2 DEF Checkpointing, SyncedWal, Calling
  <1>9. SyncedDb'
    <2>1. mC # EmptyManifest
      BY <1>2, <1>6, EmptyWhole DEF InstallWritten
    <2>2. dbCache.header = "valid"
      BY <2>1, Known DEF Presents
    <2> QED
      BY <1>3, <2>2 DEF SyncedDb
  <1>10. PICK r : r = InstallRecord
    OBVIOUS
  <1>11. /\ StaleLog(walDisk, r) /\ LastSequence(walDisk, r) = r.last /\ LastTime(walDisk, r) = r.time
    <2>1. r.last = mD.last + h.end
      BY <1>6, <1>10
    <2>2. /\ walDisk \in WalImage /\ mD.last \in Nat /\ FreshLog(walDisk, mD) /\ Fits(walDisk, mD)
          /\ h.end \in Nat /\ h.end # 0 /\ FullFrames(walDisk) = 1..h.end
          /\ Len(walDisk.frames) = h.end
      BY <1>2, CheckpointLog
    <2> QED
      BY <2>1, <2>2, InstalledLog
  <1>12. TieLog(mD, walDisk)'
    BY <1>3, <1>4, <1>6, <1>7, <1>10, <1>11 DEF TieLog
  <1>13. TieDb(mD)' /\ TieKind(mD)'
    BY <1>2, <1>4, <1>6, <1>7 DEF TieDb, TieKind
  <1>14. Reclaiming'
    BY <1>3, <1>4, <1>7, <1>8, <1>9, <1>10, <1>11, <1>12, <1>13 DEF Reclaiming
  <1>15. CheckpointInv'
    BY <1>1, <1>3, <1>8, <1>14 DEF CheckpointInv, CheckpointPcs, SyncedWal
  <1>16. AppendInv'
    BY <1>1 DEF AppendInv, AppendPcs, Ready, CheckpointPcs
  <1>17. FailedInv' /\ OpenInv' /\ RetentionInv'
    BY <1>1, <1>7 DEF FailedInv, OpenInv, RetentionInv, RetentionPcs, PairInv
  <1> QED
    BY <1>5, <1>15, <1>16, <1>17 DEF PairInv

\* The installed log is emptied.
LEMMA StepReclaim ==
  ASSUME TypeInv, PairInv, TypeInv', Reclaim
  PROVE  PairInv'
  <1>1. /\ dbDisk' = dbDisk /\ dbCache' = dbCache /\ walDisk' = walDisk /\ h' = h
        /\ loc' = loc /\ tries' = tries /\ doom' = doom /\ doomed' = doomed /\ acked' = acked
        /\ walCache' = NewWal("valid")
        /\ pc = "reclaim" /\ pc' = "syncReclaim"
    BY DEF Reclaim, Goto, db, counts, history
  <1>2. Reclaiming /\ SyncedWal
    BY <1>1 DEF PairInv, CheckpointInv
  <1>3. dbCache = dbDisk /\ walCache = walDisk /\ walDisk.header = "valid" /\ StaleLog(walDisk, mD)
    BY <1>2 DEF Reclaiming, SyncedDb, SyncedWal
  <1>4. /\ walCache' \in WalImage /\ walDisk \in WalImage /\ mD.last \in Nat /\ mD \in Manifest
        /\ mD = ReadManifests(dbDisk)
    BY Known DEF TypeInv, TypeOK
  <1>5. walCache'.frames = <<>> /\ walCache'.header = "valid"
    BY <1>1 DEF NewWal
  <1>6. /\ Fits(walCache', mD) /\ Len(walCache'.frames) = 0 /\ WalData(walCache', mD) = {}
        /\ LastSequence(walCache', mD) = mD.last /\ LastTime(walCache', mD) = mD.time
    BY <1>4, <1>5, EmptyLog
  <1>7. /\ LastSequence(walDisk, mD) = mD.last /\ LastTime(walDisk, mD) = mD.time
        /\ WalData(walDisk, mD) = {}
    BY <1>3, <1>4, StaleFacts
  <1>8. LogBridge(walDisk, walCache')
    <2>1. Len(walDisk.frames) \in Nat
      BY <1>4, StaleFacts DEF WalImage
    <2>2. \A k \in Nat : 0 # k + 1
      OBVIOUS
    <2> QED
      BY <1>3, <1>5, <1>6, <2>1, <2>2 DEF LogBridge
  <1>9. Same(dbDisk, walDisk, dbDisk, walCache')
    BY <1>4, <1>6, <1>7, SameIf DEF LogSame
  <1>10. Files(dbDisk, dbDisk, walDisk, walCache', doom)
    <2>1. Bridge(dbDisk, dbDisk, mD, mD) /\ Fits(walDisk, mD)
      BY <1>3, Known DEF mC, mD
    <2> QED
      BY <1>4, <1>6, <1>8, <1>9, <2>1 DEF Files
  <1>11. HistoryInv'
    <2>1. Recorded(dbDisk, walDisk, tries, acked, doom, doomed)
      BY DEF PairInv, HistoryInv
    <2>2. Recorded(dbDisk, walCache', tries, acked, doom, doomed)
      BY <1>9, <2>1, RecordedSame
    <2> QED
      BY <1>1, <1>3, <2>1, <2>2 DEF HistoryInv, PairInv
  <1>12. mD' = mD
    BY <1>1 DEF mD
  <1>13. Reclaiming'
    BY <1>1, <1>2, <1>12 DEF Reclaiming, SyncedDb, TieLog, TieDb, TieKind
  <1>14. CheckpointInv'
    BY <1>1, <1>13 DEF CheckpointInv, CheckpointPcs
  <1>15. AppendInv'
    BY <1>1 DEF AppendInv, AppendPcs, Ready, CheckpointPcs
  <1>16. FailedInv' /\ OpenInv' /\ RetentionInv'
    BY <1>1 DEF FailedInv, OpenInv, RetentionInv, RetentionPcs, PairInv
  <1> QED
    BY <1>1, <1>3, <1>10, <1>11, <1>14, <1>15, <1>16 DEF PairInv

\* The empty log becomes durable and the call returns.
LEMMA StepSyncReclaim ==
  ASSUME TypeInv, PairInv, SyncReclaim
  PROVE  PairInv'
  <1>1. pc = "syncReclaim" /\ pc' = "open"
    BY DEF SyncReclaim, Goto
  <1>2. Reclaiming /\ walCache = NewWal("valid")
    BY <1>1 DEF PairInv, CheckpointInv
  <1>3. /\ dbDisk' = dbDisk /\ dbCache' = dbCache /\ walDisk' = walCache /\ walCache' = walCache
        /\ loc' = loc /\ tries' = tries /\ doom' = doom /\ doomed' = doomed /\ acked' = acked
    BY <1>2 DEF SyncReclaim, SyncWal, Reclaiming, db, counts, history
  <1>4. /\ h'.open = h.open /\ h'.end = 0 /\ h'.sequence = h.sequence
        /\ h'.dataEnd = h.dataEnd /\ h'.installed = h.installed /\ h'.generation = h.generation
        /\ h'.revision = h.revision /\ h'.retention = h.retention /\ h'.lastTime = h.lastTime
        /\ h'.installedTime = h.installedTime
        /\ h'.lastSegment = h.lastSegment /\ h'.legacy = h.legacy
    BY DEF SyncReclaim, TypeInv, TypeOK, Handle
  <1>5. Files(dbDisk, dbCache, walDisk, walCache, doom)' /\ HistoryInv'
    BY <1>3, AfterSyncWal DEF PairInv, HistoryInv
  <1>6. mD' = mD
    BY <1>3 DEF mD
  <1>7. /\ walCache \in WalImage /\ walDisk \in WalImage /\ mD.last \in Nat /\ StaleLog(walDisk, mD)
        /\ walCache.frames = <<>> /\ walCache.header = "valid"
    BY <1>2, Known DEF NewWal, Reclaiming
  <1>8. FreshView(walCache, mD, 0) /\ FreshLog(walCache, mD) /\ Len(walCache.frames) = 0
    BY <1>7, EmptyLog
  <1>9. LastSequence(walCache, mD) = mD.last /\ LastTime(walCache, mD) = mD.time
    BY <1>7, EmptyLog
  <1>10. LastSequence(walDisk, mD) = mD.last /\ LastTime(walDisk, mD) = mD.time
    BY <1>7, StaleFacts
  <1>11. TieLog(mD, walDisk)'
    BY <1>2, <1>3, <1>4, <1>6, <1>9, <1>10 DEF TieLog, Reclaiming
  <1>12. TieEnd(mD, walDisk)'
    BY <1>3, <1>4, <1>6, <1>8 DEF TieEnd, FreshView
  <1>13. Calling'
    BY <1>2, <1>3, <1>4, <1>6, <1>7, <1>11, <1>12 DEF Calling, Reclaiming, SyncedDb, TieDb, TieKind
  <1>14. Idle'
    BY <1>2, <1>3, <1>4, <1>6, <1>7, <1>8 DEF Idle, Reclaiming, SyncedDb, SyncedWal, Clean, FreshView
  <1>15. AppendInv'
    BY <1>1, <1>13, <1>14 DEF AppendInv, AppendPcs, CheckpointPcs
  <1>16. OpenInv' /\ FailedInv' /\ CheckpointInv' /\ RetentionInv'
    BY <1>1 DEF OpenInv, FailedInv, CheckpointInv, RetentionInv, CheckpointPcs, RetentionPcs
  <1> QED
    BY <1>5, <1>15, <1>16 DEF PairInv

------------------------------------------------------------------------------
(* The steps of retention. *)

\* What the walk over the segments sees depends on the units alone.
LEMMA SegmentsCells ==
  ASSUME NEW d \in DbImage, NEW c \in DbImage, c.cell = d.cell, NEW m, Bounds(m), Whole(d, m)
  PROVE  Segments(c, m) = Segments(d, m)
  <1>1. PICK f : f = Walk(d, m.root, m.count, m.end)
    OBVIOUS
  <1>2. Laid(d, m, f)
    BY <1>1 DEF Whole
  <1>3. /\ \A o, end : SegmentOK(c, o, end) <=> SegmentOK(d, o, end)
        /\ \A o : SegmentSize(c, o) = SegmentSize(d, o)
    BY DEF SegmentOK, SegmentSize
  <1>4. \A k \in 0..(m.count - 1) : f[k + 1] = Successor(c, m.end, f[k])
    <2>1. ASSUME NEW k \in 0..(m.count - 1) PROVE f[k + 1] = Successor(c, m.end, f[k])
      <3>1. /\ f[k] \in Nat /\ f[k] >= DataStart /\ SegmentOK(d, f[k], m.end)
            /\ f[k + 1] = f[k] + SegmentSize(d, f[k])
        BY <1>2, LaidSegment
      <3>2. f[k] # 0
        BY <3>1 DEF DataStart
      <3> QED
        BY <1>3, <3>1, <3>2 DEF Successor
    <2> QED
      BY <2>1
  <1>5. DOMAIN f = 0..m.count /\ f = [k \in DOMAIN f |-> f[k]] /\ f[0] = m.root /\ m.count \in Nat
    BY <1>2 DEF Laid, Bounds
  <1>6. Walk(c, m.root, m.count, m.end) = f
    BY <1>4, <1>5, WalkIs
  <1> QED
    BY <1>1, <1>3, <1>6 DEF Segments

LEMMA BatchesCells ==
  ASSUME NEW d, NEW c, c.cell = d.cell, NEW o
  PROVE  SegmentBatches(c, o) = SegmentBatches(d, o) /\ Units(c, o) = Units(d, o)
  <1>1. SegmentSize(c, o) = SegmentSize(d, o)
    BY DEF SegmentSize
  <1>2. Units(c, o) = Units(d, o)
    BY <1>1 DEF Units
  <1>3. Body(c, o) = Body(d, o)
    BY <1>2 DEF Body
  <1>4. \A x : FrameOK(c, o, x) <=> FrameOK(d, o, x)
    BY DEF FrameOK
  <1>5. SegmentBatches(c, o) = SegmentBatches(d, o)
    BY <1>3, <1>4 DEF SegmentBatches
  <1> QED
    BY <1>2, <1>5

\* A retention record whose data are whole is one that read_manifests accepts.
LEMMA ValidRetention ==
  ASSUME NEW r \in Manifest, r.kind = "retain", r.revision # 0, Bounds(r),
         NEW d \in DbImage, Whole(d, r),
         IF r.count # 0 THEN r.tail >= r.root /\ r.tail < r.end ELSE r.tail = 0 /\ r.root = r.end,
         IF r.phase = 2 THEN r.end - r.root <= r.root - DataStart ELSE r.root = DataStart
  PROVE  Valid(r)
  <1>1. r.count * SegmentMin <= r.end - r.root /\ r.count <= r.last
    BY WholeCounts
  <1>2. r.end \in Nat /\ r.end <= DbCapacity /\ r.root >= DataStart /\ r.root <= r.end /\ r.end <= r.end
        /\ r.root \in Nat
    BY DEF Bounds, DataStart
  <1>3. RetentionManifest(r, r.end)
    BY <1>1, <1>2 DEF RetentionManifest
  <1> QED
    BY <1>3 DEF Valid

\* What a manifest that read_manifests accepts says of its tail.
LEMMA ValidTail ==
  ASSUME NEW m \in Manifest, Valid(m)
  PROVE  /\ IF m.count # 0 THEN m.tail >= m.root /\ m.tail < m.end ELSE m.tail = 0 /\ m.root = m.end
         /\ m.phase = 2 => m.end - m.root <= m.root - DataStart
  <1>1. CASE CheckManifest(m, m.end)
    <2>1. m.kind = "install" /\ (m.count = 0 => m.end = DataStart)
      BY <1>1 DEF CheckManifest
    <2>2. m.root = DataStart /\ m.phase = 0
      BY <2>1 DEF Manifest
    <2> QED
      BY <2>1, <2>2 DEF Valid
  <1>2. CASE RetentionManifest(m, m.end)
    BY <1>2 DEF RetentionManifest, Valid
  <1> QED
    BY <1>1, <1>2 DEF Valid

\* The manifest that a retention publishes next.
RecordOf(x, y) == EncodeRetention(x.revision + 1, x.count, x.end, y.installed,
                                  y.installedTime, x.tail, x.root, x.phase)

LEMMA RecordFields ==
  ASSUME NEW x \in Locals, NEW y \in Handle
  PROVE  /\ RecordOf(x, y) \in Manifest /\ RecordOf(x, y).kind = "retain"
         /\ RecordOf(x, y).revision = x.revision + 1 /\ RecordOf(x, y).count = x.count
         /\ RecordOf(x, y).end = x.end /\ RecordOf(x, y).last = y.installed
         /\ RecordOf(x, y).time = y.installedTime /\ RecordOf(x, y).tail = x.tail
         /\ RecordOf(x, y).root = x.root /\ RecordOf(x, y).phase = x.phase
         /\ RecordOf(x, y).revision \in Nat /\ RecordOf(x, y).revision # 0
  <1>1. /\ x.revision \in Nat /\ x.count \in Nat /\ x.end \in Nat /\ x.tail \in Nat
        /\ x.root \in Nat /\ x.phase \in 0..3
    BY LocalsFields
  <1>2. y.installed \in Nat /\ y.installedTime \in Nat
    BY HandleFields
  <1>3. x.revision + 1 \in Nat /\ x.revision + 1 # 0
    BY <1>1
  <1> QED
    BY <1>1, <1>2, <1>3 DEF RecordOf, EncodeRetention, Manifest

LEMMA RecordIs == RetentionRecord = RecordOf(loc, h)
  BY DEF RetentionRecord, RecordOf

\* The segments that the handle knows are those of the manifest, and an expiry
\* removes the batches of those it does not keep.
LEMMA HandleLists ==
  ASSUME TypeInv, PairInv, SyncedDb, TieDb(mD), h.installed = mD.last, mD.root = DataStart,
         NEW c \in Nat
  PROVE  /\ Bounds(HandleManifest) /\ Whole(dbCache, HandleManifest)
         /\ HandleManifest.root = mD.root /\ HandleManifest.end = mD.end
         /\ HandleManifest.count = mD.count /\ HandleManifest.last = mD.last
         /\ Kept(c) \subseteq Segments(dbCache, HandleManifest)
         /\ Entitled(c) \subseteq Data(dbCache, mD)
         /\ \A b : b \in Data(dbCache, mD) \ Entitled(c)
                      <=> \E o \in Kept(c) : b \in SegmentBatches(dbCache, o)
  <1>1. dbCache \in DbImage /\ mD \in Manifest /\ Valid(mD) /\ Whole(dbCache, mD)
    BY Known DEF SyncedDb
  <1>2. Bounds(mD)
    BY <1>1, ValidFields
  <1>3. PICK m : m = HandleManifest
    OBVIOUS
  <1>4. m.root = mD.root /\ m.end = mD.end /\ m.count = mD.count /\ m.last = mD.last
    BY <1>3 DEF HandleManifest, EncodeRetention, TieDb
  <1>5. Bounds(m)
    BY <1>2, <1>4 DEF Bounds
  <1>6. Whole(dbCache, m) /\ Data(dbCache, m) = Data(dbCache, mD)
    BY <1>1, <1>2, <1>4, WholeAgree DEF Agree, Alike
  <1>7. Kept(c) = KeptOf(dbCache, m, c)
    BY <1>3 DEF Kept, InstalledSegments, SegmentExpires, KeptOf
  <1>8. Entitled(c) = EntitledOf(dbCache, m, c)
    BY <1>3, Zenon DEF Entitled, InstalledSegments, EntitledOf
  <1>9. /\ EntitledOf(dbCache, m, c) \subseteq Data(dbCache, m)
        /\ \A b : b \in Data(dbCache, m) \ EntitledOf(dbCache, m, c)
                     <=> \E o \in KeptOf(dbCache, m, c) : b \in SegmentBatches(dbCache, o)
    BY <1>1, <1>5, <1>6, Expired
  <1>10. KeptOf(dbCache, m, c) \subseteq Segments(dbCache, m)
    BY DEF KeptOf
  <1> QED
    BY <1>3, <1>4, <1>5, <1>6, <1>7, <1>8, <1>9, <1>10

\* An expiry that removes something begins with a database that has segments.
LEMMA ExpireSome ==
  ASSUME TypeInv, NEW c, Cardinality(Kept(c)) # h.generation
  PROVE  h.generation # 0
  <1>1. SUFFICES ASSUME h.generation = 0 PROVE FALSE
    OBVIOUS
  <1>2. HandleManifest.count = 0
    BY <1>1 DEF HandleManifest, EncodeRetention
  <1>3. 0..(0 - 1) = {}
    OBVIOUS
  <1>4. Segments(dbCache, HandleManifest) = {}
    BY <1>2, <1>3 DEF Segments
  <1>5. Kept(c) = {}
    BY <1>4 DEF Kept, InstalledSegments
  <1> QED
    BY <1>1, <1>5, FS_EmptySet

\* The call decides what goes.
LEMMA StepExpire ==
  ASSUME TypeInv, PairInv, TypeInv', NEW c \in Cutoffs, Expire(c)
  PROVE  PairInv'
  <1>1. /\ dbDisk' = dbDisk /\ dbCache' = dbCache /\ walDisk' = walDisk /\ walCache' = walCache
        /\ tries' = tries /\ acked' = acked /\ doom' = Entitled(c)
        /\ doomed' = doomed \cup Entitled(c) /\ pc' = "publish"
        /\ Cardinality(Kept(c)) # h.generation
        /\ h.dataEnd + Cardinality(KeptUnits(c)) <= DbCapacity
    BY DEF Expire, db, wal, counts
  <1>2. loc' = [revision |-> h.revision, count |-> h.generation, end |-> h.dataEnd,
                tail |-> h.lastSegment, root |-> DataStart, phase |-> 1,
                live |-> LiveBatches(dbCache, HandleManifest, Kept(c)), cutoff |-> c]
    BY DEF Expire
  <1>3. /\ loc'.revision = h.revision /\ loc'.count = h.generation /\ loc'.end = h.dataEnd
        /\ loc'.tail = h.lastSegment /\ loc'.root = DataStart /\ loc'.phase = 1 /\ loc'.cutoff = c
    BY <1>2
  <1>4. /\ pc = "open" /\ Calling /\ SyncedDb /\ SyncedWal /\ Clean(walDisk) /\ dbCache = dbDisk
        /\ walCache = walDisk /\ h.open /\ h.installed = mD.last /\ h.sequence = High(dbDisk, walDisk)
        /\ h.sequence = mD.last + h.end /\ h.end \in Nat
    BY AtReady DEF Expire
  <1>5. HandleSame /\ h'.failed = TRUE
    BY DEF Expire, TypeInv, TypeOK, Handle, HandleSame
  <1>6. mD' = mD /\ mC' = mC
    BY <1>1 DEF mD, mC
  <1>7. /\ dbDisk \in DbImage /\ walDisk \in WalImage /\ mD \in Manifest /\ Valid(mD)
        /\ Presents(dbDisk, mD) /\ Whole(dbDisk, mD) /\ Fits(walDisk, mD) /\ mD.last \in Nat
        /\ loc' \in Locals /\ h' \in Handle
    BY Known DEF TypeInv, TypeOK
  <1>8. /\ h.dataEnd = mD.end /\ h.generation = mD.count /\ h.lastSegment = mD.tail
        /\ h.revision = mD.revision /\ mD.phase = 0 /\ h.installedTime = mD.time
        /\ h.legacy => mD = EmptyManifest
    BY <1>4 DEF Calling, TieDb, TieKind, TieLog
  <1>9. mD # EmptyManifest /\ ~ h.legacy
    BY <1>1, <1>8, ExpireSome, EmptyWhole
  <1>10. Bounds(mD) /\ mD.root = DataStart
    BY <1>7, <1>8, ValidFields
  <1>11. c \in Nat
    BY TimesAssumption
  <1>12. Entitled(c) \subseteq Data(dbCache, mD)
    BY <1>4, <1>10, <1>11, HandleLists DEF Calling
  <1>13. Files(dbDisk, dbDisk, walDisk, walDisk, Entitled(c))
    BY <1>7, FilesSelf
  <1>14. HistoryInv'
    <2>1. Recorded(dbDisk, walDisk, tries, acked, doom, doomed) /\ tries <= MaxAppends
      BY DEF PairInv, HistoryInv
    <2>2. Entitled(c) \subseteq Held(dbDisk, walDisk)
      BY <1>4, <1>12, HeldIs DEF mD
    <2>3. \A b \in Entitled(c) : b.seq \in Nat /\ b.seq <= High(dbDisk, walDisk)
      <3>1. ASSUME NEW b \in Entitled(c) PROVE b.seq \in Nat /\ b.seq <= High(dbDisk, walDisk)
        <4>1. b \in Data(dbDisk, mD)
          BY <1>4, <1>12
        <4>2. b.seq \in Nat /\ b.seq <= mD.last
          BY <1>7, <1>10, <4>1, DataSequences
        <4> QED
          BY <1>4, <1>7, <4>2
      <3> QED
        BY <3>1
    <2>4. Recorded(dbDisk, walDisk, tries, acked, Entitled(c), doomed \cup Entitled(c))
      BY <1>8, <2>1, <2>2, <2>3 DEF Recorded, mD
    <2> QED
      BY <1>1, <1>4, <2>1, <2>4 DEF HistoryInv
  <1>15. Publishing'
    <2>1. PICK r : r = RetentionRecord' /\ r = RecordOf(loc', h')
      BY DEF RetentionRecord, RecordOf
    <2>2. /\ r \in Manifest /\ r.kind = "retain" /\ r.revision # 0
          /\ r.count = loc'.count /\ r.end = loc'.end /\ r.last = h'.installed
          /\ r.tail = loc'.tail /\ r.root = loc'.root /\ r.phase = loc'.phase
      BY <1>7, <2>1, RecordFields
    <2>3. /\ r.count = mD.count /\ r.end = mD.end /\ r.last = mD.last /\ r.tail = mD.tail
          /\ r.root = mD.root /\ r.phase = 1
      BY <1>3, <1>4, <1>5, <1>8, <1>10, <2>2 DEF HandleSame
    <2>4. Bounds(r) /\ Whole(dbDisk, r) /\ Data(dbDisk, r) = Data(dbDisk, mD)
      BY <1>7, <1>10, <2>3, WholeAgree DEF Agree, Alike, Bounds
    <2>5. Valid(r)
      BY <1>7, <1>10, <2>2, <2>3, <2>4, ValidTail, ValidRetention
    <2>6. mD.end <= dbDisk.size
      BY <1>7, <1>9 DEF Presents
    <2> QED
      BY <1>1, <1>3, <1>4, <1>6, <1>8, <2>1, <2>4, <2>5, <2>6 DEF Publishing
  <1>16. Clean(walDisk)' /\ TieLog(mD, walDisk)' /\ TieEnd(mD, walDisk)' /\ TieDb(mD)'
    BY <1>1, <1>4, <1>5, <1>6 DEF Clean, Calling, TieLog, TieEnd, TieDb, HandleSame
  <1>17. SyncedDb' /\ SyncedWal'
    BY <1>1, <1>4 DEF SyncedDb, SyncedWal
  <1>18. Retaining'
    BY <1>3, <1>4, <1>5, <1>9, <1>16, <1>17 DEF Retaining, HandleSame, SyncedDb
  <1>19. Deciding'
    <2>1. HandleManifest' = HandleManifest
      BY <1>5 DEF HandleManifest, HandleSame
    <2>2. InstalledSegments' = InstalledSegments
      BY <1>1, <2>1 DEF InstalledSegments
    <2>3. Entitled(loc.cutoff)' = Entitled(c)
      BY <1>1, <1>3, <2>2 DEF Entitled
    <2>4. KeptUnits(loc.cutoff)' = KeptUnits(c)
      BY <1>1, <1>3, <2>2 DEF KeptUnits, Kept, SegmentExpires
    <2> QED
      BY <1>1, <1>3, <1>4, <1>5, <1>6, <1>10, <1>16, <2>3, <2>4 DEF Deciding, HandleSame
  <1>20. RetentionInv'
    BY <1>1, <1>15, <1>17, <1>18, <1>19 DEF RetentionInv
  <1>21. OpenInv' /\ FailedInv' /\ CheckpointInv'
    BY <1>1, <1>5 DEF OpenInv, FailedInv, CheckpointInv, CheckpointPcs
  <1>22. AppendInv'
    BY <1>1 DEF AppendInv, AppendPcs, CheckpointPcs, Ready
  <1> QED
    BY <1>1, <1>4, <1>13, <1>14, <1>20, <1>21, <1>22 DEF PairInv

\* A removal leaves nothing of what it removes, and no more is missing.
LEMMA RecordedRemoves ==
  ASSUME NEW d, NEW w, NEW c, NEW v, NEW n, NEW A, NEW D, NEW E, D \subseteq E,
         Recorded(d, w, n, A, D, E), Removes(d, w, c, v, D)
  PROVE  Recorded(c, v, n, A, D, E)
  BY DEF Recorded, Removes

\* What the records of a retention change in the view.
LEMMA RetentionView ==
  ASSUME TypeInv, PairInv, Retaining, Publishing, SyncedDb, NEW c \in DbImage,
         c.cell = dbDisk.cell, ReadManifests(c) = RetentionRecord
  PROVE  IF loc.phase = 2 THEN Removes(dbDisk, walDisk, c, walDisk, doom)
                          ELSE Same(dbDisk, walDisk, c, walDisk)
  <1>1. PICK r : r = RetentionRecord
    OBVIOUS
  <1>2. /\ dbDisk \in DbImage /\ dbCache = dbDisk /\ Whole(dbDisk, mD) /\ mD \in Manifest /\ Valid(mD)
        /\ loc \in Locals /\ h \in Handle /\ mD = ReadManifests(dbDisk)
    BY Known DEF SyncedDb
  <1>3. r \in Manifest /\ r.last = h.installed /\ r.time = h.installedTime
    BY <1>1, <1>2, RecordFields, RecordIs
  <1>4. r.last = mD.last /\ r.time = mD.time
    BY <1>3 DEF Retaining, TieLog
  <1>5. Bounds(r) /\ Bounds(mD) /\ Whole(dbDisk, r)
    BY <1>1, <1>2, <1>3, ValidFields DEF Publishing
  <1>6. Data(c, r) = Data(dbDisk, r)
    BY <1>2, <1>5, WholeCells
  <1>7. /\ WalData(walDisk, r) = WalData(walDisk, mD)
        /\ LastSequence(walDisk, r) = LastSequence(walDisk, mD)
        /\ LastTime(walDisk, r) = LastTime(walDisk, mD)
    BY <1>4, LogAlike
  <1>8. High(c, walDisk) = High(dbDisk, walDisk) /\ Floor(c, walDisk) = Floor(dbDisk, walDisk)
    BY <1>1, <1>2, <1>7 DEF High, Floor
  <1>9. Held(c, walDisk) = Data(dbDisk, r) \cup WalData(walDisk, mD)
        /\ Held(dbDisk, walDisk) = Data(dbDisk, mD) \cup WalData(walDisk, mD)
    BY <1>1, <1>2, <1>6, <1>7, HeldIs
  <1>10. CASE loc.phase = 2
    <2>1. doom \subseteq Data(dbDisk, mD) /\ Data(dbDisk, r) = Data(dbDisk, mD) \ doom
      BY <1>1, <1>2, <1>10 DEF Publishing
    <2>2. ASSUME NEW b \in doom, b \in WalData(walDisk, mD) PROVE FALSE
      <3>1. b.seq \in Nat /\ b.seq <= mD.last /\ mD.last \in Nat
        BY <1>2, <1>5, <2>1, DataSequences DEF Bounds
      <3>2. b.seq > mD.last
        BY <2>2 DEF WalData, WalSeq
      <3> QED
        BY <3>1, <3>2
    <2>3. Held(c, walDisk) = Held(dbDisk, walDisk) \ doom /\ doom \subseteq Held(dbDisk, walDisk)
      BY <1>9, <2>1, <2>2
    <2> QED
      BY <1>8, <1>10, <2>3 DEF Removes
  <1>11. CASE loc.phase # 2
    <2>1. Data(dbDisk, r) = Data(dbDisk, mD)
      BY <1>1, <1>2, <1>11 DEF Publishing
    <2> QED
      BY <1>8, <1>9, <1>11, <2>1 DEF Same
  <1> QED
    BY <1>10, <1>11

\* The segments that the handle knows, in a file with the same units.
LEMMA DecidingKept ==
  ASSUME TypeInv, PairInv, SyncedDb, Deciding, h.installed = mD.last,
         dbCache' \in DbImage, dbCache'.cell = dbCache.cell, h' = h, loc' = loc, doom' = doom,
         mD' = mD
  PROVE  Deciding'
  <1>1. loc.cutoff \in Nat /\ dbCache \in DbImage
    BY Known, LocalsFields
  <1>2. TieDb(mD) /\ mD.root = DataStart
    BY DEF Deciding
  <1>3. PICK m : m = HandleManifest
    OBVIOUS
  <1>4. Bounds(m) /\ Whole(dbCache, m)
    BY <1>1, <1>2, <1>3, HandleLists
  <1>5. Segments(dbCache', m) = Segments(dbCache, m)
    BY <1>1, <1>4, SegmentsCells
  <1>6. InstalledSegments' = InstalledSegments
    BY <1>3, <1>5 DEF InstalledSegments, HandleManifest
  <1>7. \A o : SegmentBatches(dbCache', o) = SegmentBatches(dbCache, o)
               /\ Units(dbCache', o) = Units(dbCache, o)
    BY BatchesCells
  <1>8. Entitled(loc.cutoff)' = Entitled(loc.cutoff)
    BY <1>6, <1>7 DEF Entitled
  <1>9. KeptUnits(loc.cutoff)' = KeptUnits(loc.cutoff)
    BY <1>6, <1>7 DEF KeptUnits, Kept, SegmentExpires
  <1> QED
    BY <1>8, <1>9 DEF Deciding, TieDb

\* A manifest of the retention is written.
LEMMA StepPublish ==
  ASSUME TypeInv, PairInv, TypeInv', Publish
  PROVE  PairInv'
  <1>1. /\ dbDisk' = dbDisk /\ walDisk' = walDisk /\ walCache' = walCache /\ h' = h
        /\ loc' = loc /\ tries' = tries /\ doom' = doom /\ doomed' = doomed /\ acked' = acked
        /\ dbCache' = WriteSlot(dbCache, loc.revision + 1, RetentionRecord)
        /\ pc = "publish" /\ pc' = "syncPublish"
    BY DEF Publish, Goto, wal, counts, history
  <1>2. Retaining /\ Publishing /\ SyncedDb /\ (loc.phase = 1 => Deciding)
    BY <1>1 DEF PairInv, RetentionInv, RetentionPcs
  <1>3. dbCache = dbDisk /\ walCache = walDisk /\ dbDisk.header = "valid"
    BY <1>2 DEF SyncedDb, Retaining, SyncedWal
  <1>4. dbCache' \in DbImage /\ dbDisk \in DbImage /\ walDisk \in WalImage
        /\ mD = ReadManifests(dbDisk) /\ Whole(dbDisk, mD) /\ mD \in Manifest /\ Valid(mD)
        /\ Fits(walDisk, mD) /\ loc \in Locals /\ h \in Handle
    BY Known DEF TypeInv, TypeOK
  <1>5. PICK r : r = RetentionRecord /\ r = RecordOf(loc, h)
    BY RecordIs
  <1>6. /\ r \in Manifest /\ r.revision = loc.revision + 1 /\ r.end = loc.end
        /\ r.last = h.installed /\ r.time = h.installedTime /\ r.phase = loc.phase
        /\ r.revision \in Nat
    BY <1>4, <1>5, RecordFields
  <1>7. /\ Valid(r) /\ Whole(dbDisk, r) /\ r.end <= dbDisk.size /\ r.revision = mD.revision + 1
    BY <1>2, <1>3, <1>5, <1>6 DEF Publishing
  <1>8. h.installed = mD.last /\ h.installedTime = mD.time
    BY <1>2 DEF Retaining, TieLog
  <1>9. Fits(walDisk, r)
    BY <1>4, <1>6, <1>8, LogAlike
  <1>10. dbCache' = WriteSlot(dbDisk, r.revision, r)
    BY <1>1, <1>3, <1>5, <1>6
  <1>11. dbCache'.cell = dbDisk.cell /\ dbCache'.size = dbDisk.size
    BY <1>4, <1>6, <1>10, WriteSlotFacts
  <1>12. ReadManifests(dbCache') = r =>
            IF loc.phase = 2 THEN Removes(dbDisk, walDisk, dbCache', walDisk, doom)
                             ELSE Same(dbDisk, walDisk, dbCache', walDisk)
    BY <1>2, <1>4, <1>5, <1>11, RetentionView
  <1>13. Files(dbDisk, dbDisk, walDisk, walDisk, doom)
    BY <1>3, Known
  <1>14. /\ Files(dbDisk, dbCache', walDisk, walDisk, doom) /\ ReadManifests(dbCache') = r
         /\ dbCache'.header = "valid"
    <2>1. dbCache' \in DbImage /\ dbDisk \in DbImage /\ walDisk \in WalImage
          /\ mD = ReadManifests(dbDisk) /\ r \in Manifest
      BY <1>4, <1>6
    <2>2. ReadManifests(dbCache') = r =>
            Same(dbDisk, walDisk, dbCache', walDisk) \/ Removes(dbDisk, walDisk, dbCache', walDisk, doom)
      BY <1>12
    <2> QED
      BY <1>3, <1>7, <1>9, <1>10, <1>13, <2>1, <2>2, FilesSlot
  <1>15. HistoryInv'
    <2>1. Recorded(dbDisk, walDisk, tries, acked, doom, doomed) /\ doom \subseteq doomed
      BY DEF PairInv, HistoryInv
    <2>2. Recorded(dbCache', walDisk, tries, acked, doom, doomed)
      <3>1. CASE loc.phase = 2
        BY <1>12, <1>14, <2>1, <3>1, RecordedRemoves
      <3>2. CASE loc.phase # 2
        <4>1. Same(dbDisk, walDisk, dbCache', walDisk)
          BY <1>12, <1>14, <3>2
        <4>2. loc.phase = 3 => mD.phase = 2
          BY <1>2 DEF Publishing
        <4>3. ReadManifests(dbCache').phase = loc.phase
          BY <1>6, <1>14
        <4>4. ReadManifests(dbCache').phase \in {2, 3} => ReadManifests(dbDisk).phase \in {2, 3}
          BY <1>4, <3>2, <4>2, <4>3
        <4> QED
          BY <2>1, <4>1, <4>4, RecordedSame
      <3> QED
        BY <3>1, <3>2
    <2> QED
      BY <1>1, <1>3, <2>1, <2>2 DEF HistoryInv, PairInv
  <1>16. RetentionRecord' = RetentionRecord
    BY <1>1 DEF RetentionRecord
  <1>17. mD' = mD /\ mC' = r
    BY <1>1, <1>14 DEF mD, mC
  <1>18. Retaining'
    BY <1>1, <1>2, <1>14, <1>17 DEF Retaining, SyncedWal, TieLog, TieEnd, Clean, Stored
  <1>19. Publishing'
    <2>1. Bounds(r) /\ Bounds(mD)
      BY <1>4, <1>6, <1>7, ValidFields
    <2>2. Whole(dbCache', r) /\ Data(dbCache', r) = Data(dbDisk, r)
      BY <1>4, <1>7, <1>11, <2>1, WholeCells
    <2>3. Data(dbCache', mD) = Data(dbDisk, mD)
      BY <1>4, <1>11, <2>1, WholeCells
    <2> QED
      BY <1>1, <1>2, <1>3, <1>5, <1>11, <1>16, <1>17, <2>2, <2>3 DEF Publishing
  <1>20. RecordWritten'
    BY <1>5, <1>16, <1>17 DEF RecordWritten
  <1>21. loc.phase = 1 => Deciding'
    BY <1>1, <1>2, <1>3, <1>4, <1>8, <1>11, <1>17, DecidingKept
  <1>22. RetentionInv'
    BY <1>1, <1>18, <1>19, <1>20, <1>21 DEF RetentionInv
  <1>23. OpenInv' /\ FailedInv' /\ CheckpointInv'
    BY <1>1 DEF OpenInv, FailedInv, CheckpointInv, CheckpointPcs, PairInv
  <1>24. AppendInv'
    BY <1>1 DEF AppendInv, AppendPcs, CheckpointPcs, Ready
  <1> QED
    BY <1>1, <1>3, <1>14, <1>15, <1>22, <1>23, <1>24 DEF PairInv

\* A manifest of the retention becomes durable.
LEMMA StepSyncPublish ==
  ASSUME TypeInv, PairInv, SyncPublish
  PROVE  PairInv'
  <1>1. pc = "syncPublish" /\ pc' = AfterPublish
    BY DEF SyncPublish, Goto
  <1>2. Retaining /\ Publishing /\ RecordWritten /\ (loc.phase = 1 => Deciding)
    BY <1>1 DEF PairInv, RetentionInv, RetentionPcs
  <1>3. /\ dbDisk' = dbCache /\ dbCache' = dbCache /\ walDisk' = walDisk /\ walCache' = walCache
        /\ tries' = tries /\ doom' = doom /\ doomed' = doomed /\ acked' = acked
        /\ h' = h
    BY <1>2 DEF SyncPublish, SyncDb, Retaining, wal, counts, history
  <1>4. loc \in Locals /\ h \in Handle
    BY Known
  <1>5. /\ loc'.revision = loc.revision + 1 /\ loc'.count = loc.count /\ loc'.end = loc.end
        /\ loc'.tail = loc.tail /\ loc'.root = loc.root /\ loc'.phase = loc.phase
        /\ loc'.cutoff = loc.cutoff
    BY <1>4 DEF SyncPublish, Locals
  <1>6. Files(dbDisk, dbCache, walDisk, walCache, doom)' /\ HistoryInv'
    BY <1>3, AfterSyncDb DEF PairInv, HistoryInv
  <1>7. PICK r : r = RetentionRecord /\ r = RecordOf(loc, h)
    BY RecordIs
  <1>8. /\ r.revision = loc.revision + 1 /\ r.count = loc.count /\ r.end = loc.end
        /\ r.last = h.installed /\ r.time = h.installedTime /\ r.tail = loc.tail
        /\ r.root = loc.root /\ r.phase = loc.phase /\ r.kind = "retain"
    BY <1>4, <1>7, RecordFields
  <1>9. mD' = r /\ mC = r
    BY <1>2, <1>3, <1>7 DEF RecordWritten, mC, mD
  <1>10. LocIs(mD)'
    BY <1>5, <1>8, <1>9 DEF LocIs
  <1>11. SyncedDb' /\ SyncedWal'
    BY <1>2, <1>3 DEF SyncedDb, SyncedWal, Retaining
  <1>12. TieLog(mD, walDisk)' /\ TieEnd(mD, walDisk)' /\ (h.open => Clean(walDisk)')
    <2>1. r.last = mD.last /\ r.time = mD.time
      BY <1>2, <1>8 DEF Retaining, TieLog
    <2>2. /\ FreshLog(walDisk, r) <=> FreshLog(walDisk, mD)
          /\ LastSequence(walDisk, r) = LastSequence(walDisk, mD)
          /\ LastTime(walDisk, r) = LastTime(walDisk, mD)
          /\ Stale(walDisk, r) <=> Stale(walDisk, mD)
      BY <2>1, LogAlike
    <2>3. TieLog(mD, walDisk) /\ TieEnd(mD, walDisk) /\ (h.open => Clean(walDisk))
      BY <1>2 DEF Retaining
    <2> QED
      BY <1>3, <1>9, <2>1, <2>2, <2>3 DEF TieLog, TieEnd, Clean
  <1>13. h.open /\ loc.phase = 0 => Stored' \cap doom = {}
    <2>1. SUFFICES ASSUME h.open, loc.phase = 0 PROVE Held(dbCache, walDisk) \cap doom = {}
      BY <1>3 DEF Stored
    <2>2. Held(dbDisk, walDisk) \cap doom = {}
      BY <1>2, <2>1 DEF Retaining, Stored
    <2>3. mD # mC
      <3>1. loc.revision \in Nat /\ mD.revision = loc.revision /\ mC.revision = loc.revision + 1
        BY <1>2, <1>4, <1>8, <1>9, LocalsFields DEF Publishing
      <3>2. \A k \in Nat : k # k + 1
        OBVIOUS
      <3> QED
        BY <3>1, <3>2
    <2>4. walCache = walDisk
      BY <1>2 DEF Retaining, SyncedWal
    <2>5. \/ Same(dbDisk, walDisk, dbCache, walDisk) \/ Removes(dbDisk, walDisk, dbCache, walDisk, doom)
      BY <2>3, <2>4, Known DEF Files, mC, mD
    <2> QED
      BY <2>2, <2>5 DEF Same, Removes
  <1>14. Retaining'
    <2>1. ~h.open => h.generation = r.count /\ h.retention /\ loc.count = h.generation
      BY <1>2, <1>8 DEF Retaining
    <2>2. ~ h.legacy
      BY <1>2 DEF Retaining
    <2> QED
      BY <1>3, <1>5, <1>9, <1>11, <1>12, <1>13, <2>1, <2>2 DEF Retaining, SyncedDb
  <1>15. loc.phase = 1 => Deciding'
    <2>1. SUFFICES ASSUME loc.phase = 1 PROVE Deciding'
      OBVIOUS
    <2>2. Deciding
      BY <1>2, <2>1
    <2>3. HandleManifest' = HandleManifest
      BY <1>3 DEF HandleManifest
    <2>4. InstalledSegments' = InstalledSegments
      BY <1>3, <2>3 DEF InstalledSegments
    <2>5. Entitled(loc.cutoff)' = Entitled(loc.cutoff)
      BY <1>3, <1>5, <2>4 DEF Entitled
    <2>6. KeptUnits(loc.cutoff)' = KeptUnits(loc.cutoff)
      BY <1>3, <1>5, <2>4 DEF KeptUnits, Kept, SegmentExpires
    <2>7. TieDb(mD)' /\ mD'.root = DataStart
      BY <1>2, <1>3, <1>8, <1>9, <2>2 DEF Deciding, TieDb, Retaining
    <2> QED
      BY <1>3, <1>5, <2>2, <2>5, <2>6, <2>7 DEF Deciding
  <1>16. loc.phase \in {0, 1, 2, 3}
    BY <1>4, LocalsFields
  <1>17. mD'.kind = "retain"
    BY <1>8, <1>9
  <1>18. CASE loc.phase # 0 \/ h.open
    <2>1. /\ pc' \in {"copyTail", "finish", "trimDb", "expireReturn"}
          /\ pc' = "copyTail" => loc.phase = 1
          /\ pc' = "finish" => loc.phase = 2
          /\ pc' = "trimDb" => loc.phase = 3
          /\ pc' = "expireReturn" => loc.phase = 0 /\ h.open
      BY <1>1, <1>16, <1>18 DEF AfterPublish
    <2>2. RetentionInv'
      BY <1>3, <1>5, <1>10, <1>11, <1>14, <1>15, <1>17, <2>1 DEF RetentionInv
    <2>3. OpenInv' /\ FailedInv' /\ CheckpointInv'
      BY <1>1, <1>3, <2>1 DEF OpenInv, FailedInv, CheckpointInv, CheckpointPcs, PairInv
    <2>4. AppendInv'
      BY <2>1 DEF AppendInv, AppendPcs, CheckpointPcs, Ready
    <2> QED
      BY <1>6, <2>2, <2>3, <2>4 DEF PairInv
  <1>19. CASE loc.phase = 0 /\ ~h.open
    <2>1. pc' = "trimWal"
      BY <1>1, <1>19 DEF AfterPublish
    <2>2. Opening'
      BY <1>2, <1>3, <1>19 DEF Opening, Retaining, SyncedWal
    <2>3. Completing'
      <3>1. h.generation = mD'.count /\ h.retention /\ ~h.legacy
        BY <1>2, <1>8, <1>9, <1>19 DEF Retaining
      <3> QED
        BY <1>3, <1>5, <1>10, <1>11, <1>12, <1>17, <1>19, <3>1 DEF Completing
    <2>4. OpenInv'
      BY <1>11, <2>1, <2>2, <2>3 DEF OpenInv
    <2>5. FailedInv' /\ CheckpointInv' /\ RetentionInv'
      BY <1>3, <1>19, <2>1 DEF FailedInv, CheckpointInv, CheckpointPcs, RetentionInv, RetentionPcs
    <2>6. AppendInv'
      BY <2>1 DEF AppendInv, AppendPcs, CheckpointPcs, Ready
    <2> QED
      BY <1>6, <2>4, <2>5, <2>6 DEF PairInv
  <1> QED
    BY <1>18, <1>19

\* Copied or cut data become durable before the next manifest is written.
LEMMA StepSyncData ==
  ASSUME TypeInv, PairInv, SyncCopy \/ SyncTrimDb
  PROVE  PairInv'
  <1>1. pc \in {"syncCopy", "syncTrimDb"} /\ pc' = "publish"
    BY DEF SyncCopy, SyncTrimDb, Goto
  <1>2. Retaining /\ Publishing /\ mC = mD
        /\ (pc = "syncCopy" => loc.phase \in {2, 3}) /\ (pc = "syncTrimDb" => loc.phase = 0)
    BY <1>1 DEF PairInv, RetentionInv, RetentionPcs
  <1>3. /\ dbDisk' = dbCache /\ dbCache' = dbCache /\ walDisk' = walDisk /\ walCache' = walCache
        /\ tries' = tries /\ doom' = doom /\ doomed' = doomed /\ acked' = acked
        /\ h' = h /\ loc' = loc
    BY <1>2 DEF SyncCopy, SyncTrimDb, SyncDb, Retaining, wal, counts, history
  <1>4. Files(dbDisk, dbCache, walDisk, walCache, doom)' /\ HistoryInv'
    BY <1>3, AfterSyncDb DEF PairInv, HistoryInv
  <1>5. mD' = mD
    BY <1>2, <1>3 DEF mC, mD
  <1>6. SyncedDb'
    BY <1>2, <1>3 DEF SyncedDb, Retaining
  <1>7. Stored' = Stored
    <2>1. dbDisk \in DbImage /\ dbCache \in DbImage /\ walDisk \in WalImage /\ walCache \in WalImage
          /\ Files(dbDisk, dbCache, walDisk, walCache, doom)
      BY Known
    <2>2. Same(dbDisk, walDisk, dbCache, walDisk)
      BY <1>2, <2>1, FilesSyncDb DEF mC, mD
    <2> QED
      BY <1>3, <2>2 DEF Stored, Same
  <1>8. Retaining'
    BY <1>2, <1>3, <1>5, <1>7 DEF Retaining, SyncedWal, TieLog, TieEnd, Clean
  <1>9. Publishing'
    BY <1>2, <1>3, <1>5 DEF Publishing, RetentionRecord
  <1>10. loc.phase # 1
    BY <1>1, <1>2
  <1>11. RetentionInv'
    BY <1>1, <1>3, <1>6, <1>8, <1>9, <1>10 DEF RetentionInv
  <1>12. OpenInv' /\ FailedInv' /\ CheckpointInv'
    BY <1>1, <1>3 DEF OpenInv, FailedInv, CheckpointInv, CheckpointPcs, PairInv
  <1>13. AppendInv'
    BY <1>1 DEF AppendInv, AppendPcs, CheckpointPcs, Ready
  <1> QED
    BY <1>4, <1>11, <1>12, <1>13 DEF PairInv

\* What a write of data leaves while a retention runs.
LEMMA RetentionWrite ==
  ASSUME TypeInv, PairInv, Retaining, SyncedDb, dbCache' \in DbImage,
         Agree(dbDisk, dbCache', mD), dbCache'.slot = dbDisk.slot,
         dbCache'.header = dbDisk.header, mD.end <= dbCache'.size,
         dbDisk' = dbDisk, walDisk' = walDisk, walCache' = walCache, tries' = tries,
         doom' = doom, doomed' = doomed, acked' = acked
  PROVE  /\ Files(dbDisk, dbCache, walDisk, walCache, doom)' /\ HistoryInv'
         /\ mC' = mD /\ mD' = mD /\ Whole(dbCache', mD) /\ Data(dbCache', mD) = Data(dbDisk, mD)
         /\ dbCache'.header = "valid"
  <1>1. dbCache = dbDisk /\ walCache = walDisk /\ dbDisk.header = "valid"
    BY DEF SyncedDb, Retaining, SyncedWal
  <1>2. dbDisk \in DbImage /\ walDisk \in WalImage /\ mD = ReadManifests(dbDisk)
        /\ Files(dbDisk, dbDisk, walDisk, walDisk, doom)
    BY <1>1, Known
  <1>3. /\ Files(dbDisk, dbCache', walDisk, walDisk, doom) /\ ReadManifests(dbCache') = mD
        /\ Same(dbDisk, walDisk, dbCache', walDisk) /\ Whole(dbCache', mD)
        /\ Data(dbCache', mD) = Data(dbDisk, mD)
    BY <1>2, FilesData
  <1>4. HistoryInv'
    <2>1. Recorded(dbDisk, walDisk, tries, acked, doom, doomed)
      BY DEF PairInv, HistoryInv
    <2>2. Recorded(dbCache', walDisk, tries, acked, doom, doomed)
      BY <1>2, <1>3, <2>1, RecordedSame
    <2> QED
      BY <1>1, <2>1, <2>2 DEF HistoryInv, PairInv
  <1> QED
    BY <1>1, <1>3, <1>4 DEF mD, mC

\* The data end where the file does: what the copies left behind is cut off.
LEMMA StepTrimDb ==
  ASSUME TypeInv, PairInv, TypeInv', TrimDb
  PROVE  PairInv'
  <1>1. /\ dbDisk' = dbDisk /\ walDisk' = walDisk /\ walCache' = walCache /\ h' = h
        /\ tries' = tries /\ doom' = doom /\ doomed' = doomed /\ acked' = acked
        /\ dbCache' = TruncateDb(dbCache, TrimSize) /\ loc' = [loc EXCEPT !.phase = 0]
        /\ pc \in {"finish", "trimDb"} /\ pc' = "syncTrimDb"
        /\ pc = "finish" => loc.phase # 2
    BY DEF TrimDb, TrimStart, wal, counts, history
  <1>2. Retaining /\ SyncedDb /\ LocIs(mD) /\ mD.kind = "retain"
        /\ (pc = "finish" => (h.open => loc.phase = 2)) /\ (pc = "trimDb" => loc.phase = 3)
    BY <1>1 DEF PairInv, RetentionInv, RetentionPcs
  <1>3. dbCache = dbDisk /\ walCache = walDisk /\ dbDisk.header = "valid"
    BY <1>2 DEF SyncedDb, Retaining, SyncedWal
  <1>4. dbCache' \in DbImage /\ dbDisk \in DbImage /\ Whole(dbDisk, mD) /\ mD \in Manifest /\ Valid(mD)
        /\ loc \in Locals /\ h \in Handle /\ loc' \in Locals
    BY Known DEF TypeInv, TypeOK
  <1>5. loc.phase # 2 /\ mD.phase = loc.phase
    BY <1>1, <1>2 DEF LocIs
  <1>6. Bounds(mD) /\ mD.root = DataStart /\ mD.end \in Nat
    BY <1>4, <1>5, ValidFields
  <1>7. loc.end = mD.end /\ TrimSize \in Nat /\ mD.end <= TrimSize
    BY <1>2, <1>6 DEF LocIs, TrimSize, DataStart
  <1>8. /\ dbCache'.slot = dbDisk.slot /\ dbCache'.header = dbDisk.header
        /\ dbCache'.size = TrimSize
        /\ \A o \in Offsets : o < TrimSize => dbCache'.cell[o] = dbDisk.cell[o]
    <2>1. dbCache' = [dbDisk EXCEPT !.size = TrimSize,
              !.cell = [o \in Offsets |-> IF o < TrimSize THEN dbDisk.cell[o] ELSE Junk]]
      BY <1>1, <1>3 DEF TruncateDb
    <2> QED
      BY <1>4, <2>1 DEF DbImage
  <1>9. Agree(dbDisk, dbCache', mD)
    BY <1>6, <1>7, <1>8, OffsetsFinite DEF Agree
  <1>10. /\ Files(dbDisk, dbCache, walDisk, walCache, doom)' /\ HistoryInv'
         /\ mC' = mD /\ mD' = mD /\ Whole(dbCache', mD) /\ Data(dbCache', mD) = Data(dbDisk, mD)
         /\ dbCache'.header = "valid"
    BY <1>1, <1>2, <1>4, <1>7, <1>8, <1>9, RetentionWrite
  <1>11. /\ loc'.revision = loc.revision /\ loc'.count = loc.count /\ loc'.end = loc.end
         /\ loc'.tail = loc.tail /\ loc'.root = loc.root /\ loc'.phase = 0
    BY <1>1, <1>4 DEF Locals
  <1>12. Publishing'
    <2>1. PICK r : r = RetentionRecord' /\ r = RecordOf(loc', h)
      BY <1>1 DEF RetentionRecord, RecordOf
    <2>2. /\ r \in Manifest /\ r.kind = "retain" /\ r.revision # 0
          /\ r.count = loc'.count /\ r.end = loc'.end /\ r.last = h.installed
          /\ r.tail = loc'.tail /\ r.root = loc'.root /\ r.phase = loc'.phase
      BY <1>4, <2>1, RecordFields
    <2>3. /\ r.count = mD.count /\ r.end = mD.end /\ r.last = mD.last /\ r.tail = mD.tail
          /\ r.root = mD.root /\ r.phase = 0
      BY <1>2, <1>11, <2>2 DEF LocIs, Retaining, TieLog
    <2>4. Bounds(r) /\ Whole(dbCache', r) /\ Data(dbCache', r) = Data(dbCache', mD)
      BY <1>4, <1>6, <1>10, <2>3, WholeAgree DEF Agree, Alike, Bounds
    <2>5. Valid(r)
      BY <1>4, <1>6, <2>2, <2>3, <2>4, ValidTail, ValidRetention
    <2> QED
      BY <1>2, <1>7, <1>8, <1>10, <1>11, <2>1, <2>4, <2>5 DEF Publishing, LocIs
  <1>13. h.open => Stored \cap doom = {}
    <2>1. SUFFICES ASSUME h.open PROVE Stored \cap doom = {}
      OBVIOUS
    <2>2. mD.phase = 3
      BY <1>1, <1>2, <1>5, <2>1
    <2> QED
      BY <2>2 DEF PairInv, HistoryInv, Recorded, Stored, mD
  <1>14. Retaining'
    BY <1>1, <1>2, <1>10, <1>11, <1>13 DEF Retaining, SyncedWal, TieLog, TieEnd, Clean, Stored
  <1>15. RetentionInv'
    BY <1>1, <1>10, <1>11, <1>12, <1>14 DEF RetentionInv
  <1>16. OpenInv' /\ FailedInv' /\ CheckpointInv'
    BY <1>1 DEF OpenInv, FailedInv, CheckpointInv, CheckpointPcs, PairInv
  <1>17. AppendInv'
    BY <1>1 DEF AppendInv, AppendPcs, CheckpointPcs, Ready
  <1> QED
    BY <1>10, <1>15, <1>16, <1>17 DEF PairInv

\* The call returns: the handle takes over what was published.
LEMMA StepExpireReturn ==
  ASSUME TypeInv, PairInv, ExpireReturn
  PROVE  PairInv'
  <1>1. /\ dbDisk' = dbDisk /\ dbCache' = dbCache /\ walDisk' = walDisk /\ walCache' = walCache
        /\ tries' = tries /\ doom' = doom /\ doomed' = doomed /\ acked' = acked
        /\ pc = "expireReturn" /\ pc' = "open"
    BY DEF ExpireReturn, Goto, db, wal, counts, history
  <1>2. Retaining /\ SyncedDb /\ LocIs(mD) /\ loc.phase = 0 /\ h.open /\ mD.kind = "retain"
    BY <1>1 DEF PairInv, RetentionInv, RetentionPcs
  <1>3. /\ h'.open = h.open /\ h'.end = h.end /\ h'.sequence = h.sequence
        /\ h'.dataEnd = loc.end /\ h'.installed = h.installed /\ h'.generation = loc.count
        /\ h'.revision = loc.revision /\ h'.retention = TRUE /\ h'.lastTime = h.lastTime
        /\ h'.installedTime = h.installedTime /\ h'.walMax = h.walMax
        /\ h'.lastSegment = loc.tail /\ h'.legacy = h.legacy
    BY DEF ExpireReturn, TypeInv, TypeOK, Handle
  <1>4. mD' = mD
    BY <1>1 DEF mD
  <1>5. Clean(walDisk)' /\ TieLog(mD, walDisk)' /\ TieEnd(mD, walDisk)'
    BY <1>1, <1>2, <1>3, <1>4 DEF Retaining, Clean, TieLog, TieEnd
  <1>6. TieDb(mD)' /\ TieKind(mD)'
    BY <1>2, <1>3, <1>4 DEF TieDb, TieKind, LocIs, Retaining
  <1>7. Calling' /\ Idle'
    BY <1>1, <1>2, <1>3, <1>5, <1>6 DEF Calling, Idle, SyncedDb, SyncedWal, Retaining
  <1>8. AppendInv'
    BY <1>1, <1>7 DEF AppendInv, AppendPcs, CheckpointPcs
  <1>9. OpenInv' /\ FailedInv' /\ CheckpointInv' /\ RetentionInv'
    BY <1>1 DEF OpenInv, FailedInv, CheckpointInv, CheckpointPcs, RetentionInv, RetentionPcs
  <1>10. HistoryInv'
    BY <1>1 DEF HistoryInv, PairInv
  <1> QED
    BY <1>1, <1>8, <1>9, <1>10 DEF PairInv

\* The copy behind the data is moved to the front, which it does not overlap.
LEMMA StepCopyFront ==
  ASSUME TypeInv, PairInv, TypeInv', CopyFront
  PROVE  PairInv'
  <1> DEFINE gap == loc.root - DataStart
             end == loc.end - gap
             image == [o \in DataStart..(end - 1) |-> Unit(dbCache, o + gap)]
  <1>1. /\ dbDisk' = dbDisk /\ walDisk' = walDisk /\ walCache' = walCache /\ h' = h
        /\ tries' = tries /\ doom' = doom /\ doomed' = doomed /\ acked' = acked
        /\ pc = "finish" /\ pc' = "syncCopy" /\ loc.phase = 2
    BY DEF CopyFront, Goto, wal, counts, history
  <1>2. /\ dbCache' = WriteCells(dbCache, end, image)
        /\ loc' = [loc EXCEPT !.end = end, !.tail = MovedTail(gap), !.root = DataStart, !.phase = 3]
    BY DEF CopyFront
  <1>3. Retaining /\ SyncedDb /\ LocIs(mD) /\ mD.kind = "retain"
    BY <1>1 DEF PairInv, RetentionInv, RetentionPcs
  <1>4. dbCache = dbDisk /\ walCache = walDisk /\ dbDisk.header = "valid"
    BY <1>3 DEF SyncedDb, Retaining, SyncedWal
  <1>5. dbCache' \in DbImage /\ dbDisk \in DbImage /\ Whole(dbDisk, mD) /\ mD \in Manifest /\ Valid(mD)
        /\ loc \in Locals /\ h \in Handle /\ loc' \in Locals /\ Presents(dbDisk, mD)
    BY Known DEF TypeInv, TypeOK
  <1>6. /\ loc.root = mD.root /\ loc.end = mD.end /\ loc.count = mD.count /\ loc.tail = mD.tail
        /\ loc.revision = mD.revision /\ mD.phase = 2
    BY <1>1, <1>3 DEF LocIs
  <1>7. Bounds(mD)
    BY <1>5, ValidFields
  <1>8. PICK R \in Nat, E \in Nat : /\ R = mD.root /\ E = mD.end /\ R >= 2 /\ R <= E
                                    /\ E <= DbCapacity /\ E - R <= R - 2
    BY <1>5, <1>6, <1>7, ValidTail DEF Bounds, DataStart
  <1>9. PICK g \in Nat : g = gap /\ g = R - 2
    BY <1>6, <1>8 DEF DataStart
  <1>10. PICK e \in Nat : e = end /\ e + g = E /\ e >= 2 /\ e <= R
    BY <1>6, <1>8, <1>9
  <1>11. dbCache' = WriteCells(dbDisk, e, image) /\ DOMAIN image = 2..(e - 1)
    BY <1>2, <1>4, <1>10 DEF DataStart
  <1>12. \A o \in 2..(e - 1) : image[o] = Unit(dbDisk, o + g)
    BY <1>4, <1>9, <1>10 DEF DataStart
  <1> HIDE DEF gap, end, image
  <1>13. /\ dbCache'.slot = dbDisk.slot /\ dbCache'.header = dbDisk.header
         /\ dbDisk.size <= dbCache'.size /\ e <= dbCache'.size
         /\ \A o \in Offsets : dbCache'.cell[o] = IF o \in DOMAIN image THEN image[o] ELSE dbDisk.cell[o]
    BY <1>5, <1>10, <1>11, WriteCellsFacts
  <1>14. Agree(dbDisk, dbCache', mD)
    <2>1. ASSUME NEW o \in Offsets, mD.root <= o PROVE dbDisk.cell[o] = dbCache'.cell[o]
      <3>1. o \notin 2..(e - 1)
        BY <1>8, <1>10, <2>1, OffsetsFinite
      <3> QED
        BY <1>11, <1>13, <3>1
    <2> QED
      BY <2>1 DEF Agree
  <1>15. mD.end <= dbCache'.size
    <2>1. mD # EmptyManifest
      BY <1>6, EmptyWhole
    <2>2. dbDisk.size \in Nat /\ dbCache'.size \in Nat /\ mD.end <= dbDisk.size
      BY <1>5, <2>1 DEF Presents, DbImage
    <2> QED
      BY <1>8, <1>13, <2>2
  <1>16. /\ Files(dbDisk, dbCache, walDisk, walCache, doom)' /\ HistoryInv'
         /\ mC' = mD /\ mD' = mD /\ Whole(dbCache', mD) /\ Data(dbCache', mD) = Data(dbDisk, mD)
         /\ dbCache'.header = "valid"
    BY <1>1, <1>3, <1>5, <1>13, <1>14, <1>15, RetentionWrite
  <1>17. /\ loc'.revision = loc.revision /\ loc'.count = loc.count /\ loc'.end = e
         /\ loc'.tail = MovedTail(gap) /\ loc'.root = DataStart /\ loc'.phase = 3
    BY <1>2, <1>5, <1>10 DEF Locals
  <1>18. \A o \in 2..(e - 1) : dbCache'.cell[o] = dbDisk.cell[o + g]
    <2>1. ASSUME NEW o \in 2..(e - 1) PROVE dbCache'.cell[o] = dbDisk.cell[o + g]
      <3>1. o \in Offsets /\ o + g \in Offsets
        BY <1>8, <1>10, CapacityAssumption DEF Offsets, DataStart
      <3> QED
        BY <1>11, <1>12, <1>13, <3>1 DEF Unit
    <2> QED
      BY <2>1
  <1>19. PICK r : r = RetentionRecord' /\ r = RecordOf(loc', h)
    BY <1>1 DEF RetentionRecord, RecordOf
  <1>20. /\ r \in Manifest /\ r.kind = "retain" /\ r.revision # 0
         /\ r.count = mD.count /\ r.end = e /\ r.last = h.installed
         /\ r.tail = MovedTail(gap) /\ r.root = 2 /\ r.phase = 3
    BY <1>5, <1>6, <1>17, <1>19, RecordFields DEF DataStart
  <1>21. r.last = mD.last
    BY <1>3, <1>20 DEF Retaining, TieLog
  <1>22. Bounds(r)
    BY <1>7, <1>8, <1>10, <1>20, <1>21, CapacityAssumption DEF Bounds, DataStart
  <1>23. Whole(dbCache', r) /\ Data(dbCache', r) = Data(dbDisk, mD)
    <2>1. mD.root = r.root + g /\ mD.end = r.end + g
      BY <1>8, <1>9, <1>10, <1>20
    <2>2. \A o \in r.root..(r.end - 1) : dbCache'.cell[o] = dbDisk.cell[o + g]
      BY <1>18, <1>20
    <2>3. r.count = mD.count /\ r.last = mD.last /\ g \in Nat
      BY <1>9, <1>20, <1>21
    <2> QED
      BY <1>5, <1>7, <1>22, <2>1, <2>2, <2>3, WholeShift
  <1>24. IF r.count # 0 THEN r.tail >= r.root /\ r.tail < r.end ELSE r.tail = 0 /\ r.root = r.end
    <2>1. IF mD.count # 0 THEN mD.tail >= mD.root /\ mD.tail < mD.end
                          ELSE mD.tail = 0 /\ mD.root = mD.end
      BY <1>5, ValidTail
    <2>2. CASE mD.count = 0
      <3>1. r.tail = 0
        BY <1>6, <1>20, <2>2 DEF MovedTail
      <3>2. e = 2
        BY <1>8, <1>9, <1>10, <2>1, <2>2
      <3> QED
        BY <1>20, <2>2, <3>1, <3>2
    <2>3. CASE mD.count # 0
      <3>1. PICK t \in Nat : t = mD.tail /\ R <= t /\ t < E
        BY <1>5, <1>8, <2>1, <2>3, ValidFields
      <3>2. r.tail = t - g
        BY <1>6, <1>9, <1>20, <2>3, <3>1 DEF MovedTail
      <3>3. t - g >= 2 /\ t - g < e
        BY <1>8, <1>9, <1>10, <3>1
      <3> QED
        BY <1>20, <2>3, <3>2, <3>3
    <2> QED
      BY <2>2, <2>3
  <1>25. Valid(r)
    BY <1>5, <1>20, <1>22, <1>23, <1>24, ValidRetention DEF DataStart
  <1>26. Publishing'
    BY <1>6, <1>13, <1>16, <1>17, <1>19, <1>23, <1>25 DEF Publishing
  <1>27. Retaining'
    BY <1>1, <1>3, <1>16, <1>17 DEF Retaining, SyncedWal, TieLog, TieEnd, Clean, Stored
  <1>28. RetentionInv'
    BY <1>1, <1>16, <1>17, <1>26, <1>27 DEF RetentionInv
  <1>29. OpenInv' /\ FailedInv' /\ CheckpointInv'
    BY <1>1 DEF OpenInv, FailedInv, CheckpointInv, CheckpointPcs, PairInv
  <1>30. AppendInv'
    BY <1>1 DEF AppendInv, AppendPcs, CheckpointPcs, Ready
  <1> QED
    BY <1>16, <1>28, <1>29, <1>30 DEF PairInv

\* A set of numbers below a bound has a largest one.
LEMMA LastOfIn ==
  ASSUME NEW S, S \subseteq Nat, S # {}, NEW e \in Nat, \A x \in S : x < e
  PROVE  LastOf(S) \in S
  <1> DEFINE T == {n \in Nat : \E x \in S : n = e - x}
  <1>1. \A x \in S : e - x \in Nat
    OBVIOUS
  <1>2. T \subseteq Nat /\ T # {}
    BY <1>1
  <1>3. PICK n \in T : \A k \in T : n <= k
    BY <1>2, LeastNat
  <1>4. PICK x \in S : n = e - x
    BY <1>3
  <1>5. \A y \in S : e - y \in T
    BY <1>1
  <1>6. \A y \in S : y <= x
    <2>1. ASSUME NEW y \in S PROVE y <= x
      <3>1. e - x <= e - y
        BY <1>3, <1>4, <1>5
      <3>2. x \in Nat /\ y \in Nat
        BY <1>4
      <3> QED
        BY <3>1, <3>2
    <2> QED
      BY <2>1
  <1>7. \E z \in S : \A y \in S : y <= z
    BY <1>4, <1>6
  <1> QED
    BY <1>7 DEF LastOf

\* The units of the kept segments.
LEMMA KeptUnitsFacts ==
  ASSUME TypeInv, PairInv, SyncedDb, TieDb(mD), h.installed = mD.last, mD.root = DataStart,
         NEW c \in Nat
  PROVE  /\ UnitsOf(dbCache, Kept(c), KeptUnits(c))
         /\ IsFiniteSet(Kept(c)) /\ Kept(c) \subseteq Nat
         /\ IsFiniteSet(KeptUnits(c)) /\ KeptUnits(c) \subseteq Nat
         /\ \A x \in KeptUnits(c) : x \in Offsets /\ mD.root <= x /\ x < mD.end
         /\ Kept(c) \subseteq KeptUnits(c)
  <1>1. PICK K : K = Kept(c)
    OBVIOUS
  <1>2. PICK U : U = KeptUnits(c)
    OBVIOUS
  <1>3. UnitsOf(dbCache, K, U)
    BY <1>1, <1>2 DEF UnitsOf, KeptUnits
  <1>4. PICK m : m = HandleManifest
    OBVIOUS
  <1>5. /\ Bounds(m) /\ Whole(dbCache, m) /\ m.root = mD.root /\ m.end = mD.end
        /\ K \subseteq Segments(dbCache, m)
    BY <1>1, <1>4, HandleLists
  <1>6. PICK f : f = Walk(dbCache, m.root, m.count, m.end)
    OBVIOUS
  <1>7. dbCache \in DbImage /\ Laid(dbCache, m, f)
    BY <1>5, <1>6, Known DEF Whole
  <1>8. Segments(dbCache, m) = {f[k] : k \in 0..(m.count - 1)}
    BY <1>5, <1>7, LaidWhole
  <1>9. K \subseteq {f[k] : k \in 0..(m.count - 1)}
    BY <1>5, <1>8
  <1>10. /\ IsFiniteSet(K) /\ K \subseteq Nat /\ IsFiniteSet(U) /\ U \subseteq Nat
         /\ \A x \in U : m.root <= x /\ x < m.end
    <2>1. Bounds(m)
      BY <1>5
    <2>2. IsFiniteSet(K) /\ IsFiniteSet(U)
      BY <1>3, <1>7, <1>9, <2>1, Selected
    <2>3. K \subseteq Nat /\ U \subseteq Nat
      BY <1>1, <1>2, OffsetsFinite DEF Kept, InstalledSegments, Segments, KeptUnits, Units
    <2>4. ASSUME NEW x \in U PROVE m.root <= x /\ x < m.end
      <3>1. PICK k \in 0..(m.count - 1) : x \in Units(dbCache, f[k])
        BY <1>3, <1>9 DEF UnitsOf
      <3>2. PICK o \in Nat : o = f[k]
        BY <1>7, <2>1, LaidSegment
      <3>3. PICK s \in Nat : s = SegmentSize(dbCache, o)
        BY <1>7, <2>1, <3>2, LaidSegment
      <3>4. PICK r \in Nat, e \in Nat : r = m.root /\ e = m.end /\ e <= DbCapacity
        BY <2>1 DEF Bounds
      <3>5. o >= r /\ o >= DataStart /\ SegmentOK(dbCache, o, e) /\ o + s <= e
        BY <1>7, <2>1, <3>2, <3>3, <3>4, LaidSegment
      <3>6. x \in o..(o + s - 1)
        BY <1>7, <3>1, <3>2, <3>3, <3>4, <3>5, UnitsAre
      <3> QED
        BY <3>2, <3>3, <3>4, <3>5, <3>6
    <2> QED
      BY <2>2, <2>3, <2>4
  <1>11. K \subseteq U
    <2>1. ASSUME NEW o \in K PROVE o \in U
      <3>1. PICK k \in 0..(m.count - 1) : o = f[k]
        BY <1>9
      <3>2. \A i \in 0..(SegmentSize(dbCache, f[k]) - 1) : f[k] + i \in U <=> f[k] \in K
        BY ZenonT(30), <1>3, <1>5, <1>7, <1>9, <3>1, Selected
      <3>3. SegmentSize(dbCache, f[k]) \in Nat /\ SegmentSize(dbCache, f[k]) >= 3 /\ f[k] \in Nat
        BY <1>5, <1>7, <3>1, LaidSegment
      <3>4. 0 \in 0..(SegmentSize(dbCache, f[k]) - 1) /\ f[k] + 0 = f[k]
        BY <3>3
      <3> QED
        BY <3>1, <3>2, <3>4
    <2> QED
      BY <2>1
  <1>12. \A x \in U : x \in Offsets
    BY <1>2 DEF KeptUnits, Units
  <1> QED
    BY <1>1, <1>2, <1>3, <1>5, <1>10, <1>11, <1>12

\* The filtered copy: every kept unit, in order and without gaps, behind the data.
LEMMA TailCells ==
  ASSUME TypeInv, PairInv, SyncedDb, TieDb(mD), h.installed = mD.last, mD.root = DataStart,
         NEW U, IsFiniteSet(U), U \subseteq Nat, \A x \in U : x \in Offsets /\ x < mD.end,
         mD.end + Cardinality(U) <= DbCapacity,
         NEW c, c = WriteCells(dbCache, mD.end + Cardinality(U), TailImage(U))
  PROVE  /\ PackedInto(dbCache, c, mD.end, U)
         /\ \A o \in Offsets : o < mD.end => c.cell[o] = dbCache.cell[o]
         /\ \A x \in U : Count(U, x) \in Nat /\ Count(U, x) < Cardinality(U)
         /\ c.slot = dbCache.slot /\ c.header = dbCache.header
         /\ dbCache.size <= c.size /\ mD.end + Cardinality(U) <= c.size
  <1>1. dbCache \in DbImage /\ mD \in Manifest /\ Valid(mD)
    BY Known
  <1>2. PICK e \in Nat : e = mD.end /\ e = h.dataEnd /\ e >= 2
    BY <1>1, ValidFields DEF TieDb
  <1>3. PICK n \in Nat : n = Cardinality(U)
    BY FS_CardinalityType
  <1>4. e + n \in Nat /\ e + n <= DbCapacity
    BY <1>2, <1>3
  <1>5. /\ c.slot = dbCache.slot /\ c.header = dbCache.header
        /\ dbCache.size <= c.size /\ e + n <= c.size
        /\ \A o \in Offsets : c.cell[o] = IF o \in DOMAIN TailImage(U) THEN TailImage(U)[o]
                                          ELSE dbCache.cell[o]
    BY <1>1, <1>2, <1>3, <1>4, WriteCellsFacts
  <1>6. \A x \in U : Count(U, x) \in Nat
    BY CountStep
  <1>7. \A x \in U : Count(U, x) < n
    BY <1>2, <1>3, CountOrder
  <1>8. \A x : Packed(U, x) = e + Count(U, x)
    BY <1>2 DEF Packed, Count
  <1>9. ASSUME NEW x \in U, NEW y \in U, Packed(U, x) = Packed(U, y) PROVE x = y
    <2>1. Count(U, x) = Count(U, y)
      BY <1>2, <1>6, <1>8, <1>9
    <2>2. x \in Nat /\ y \in Nat
      OBVIOUS
    <2>3. PICK k \in Nat : k = Count(U, x) /\ k = Count(U, y)
      BY <1>6, <2>1
    <2>4. x < y => Count(U, x) < Count(U, y)
      BY <2>2, CountOrder
    <2>5. y < x => Count(U, y) < Count(U, x)
      BY <2>2, CountOrder
    <2>6. ~ (x < y) /\ ~ (y < x)
      BY <2>3, <2>4, <2>5
    <2> QED
      BY <2>2, <2>6
  <1>10. DOMAIN TailImage(U) = {Packed(U, x) : x \in U}
    BY DEF TailImage
  <1>11. ASSUME NEW x \in U PROVE c.cell[e + Count(U, x)] = dbCache.cell[x]
    <2>1. PICK o : o = Packed(U, x)
      OBVIOUS
    <2>2. TailImage(U)[o] = Unit(dbCache, CHOOSE y \in U : Packed(U, y) = o)
      BY <2>1 DEF TailImage
    <2>3. (CHOOSE y \in U : Packed(U, y) = o) = x
      BY <1>9, <2>1
    <2>4. TailImage(U)[o] = dbCache.cell[x]
      BY <2>2, <2>3 DEF Unit
    <2>5. o \in Offsets
      <3>1. PICK k \in Nat : k = Count(U, x) /\ k < n
        BY <1>6, <1>7
      <3>2. o = e + k
        BY <1>8, <2>1, <3>1
      <3> QED
        BY <1>2, <1>3, <1>4, <3>1, <3>2, CapacityAssumption DEF Offsets, DataStart
    <2> QED
      BY <1>5, <1>8, <1>10, <2>1, <2>4, <2>5
  <1>12. ASSUME NEW o \in Offsets, o < e PROVE c.cell[o] = dbCache.cell[o]
    <2>1. ASSUME NEW x \in U, o = Packed(U, x) PROVE FALSE
      <3>1. PICK k \in Nat : k = Count(U, x)
        BY <1>6
      <3>2. o = e + k
        BY <1>8, <2>1, <3>1
      <3> QED
        BY <1>2, <1>12, <3>1, <3>2
    <2> QED
      BY <1>5, <1>10, <2>1
  <1> QED
    BY <1>2, <1>3, <1>5, <1>6, <1>7, <1>11, <1>12 DEF PackedInto

\* The filtered copy is the whole of the manifest that will list it, and holds
\* what the expiry does not remove.
LEMMA TailWhole ==
  ASSUME TypeInv, PairInv, SyncedDb, TieDb(mD), h.installed = mD.last, mD.root = DataStart,
         NEW t \in Nat, NEW K, K = Kept(t), NEW U, U = KeptUnits(t),
         mD.end + Cardinality(U) <= DbCapacity,
         NEW c \in DbImage, PackedInto(dbCache, c, mD.end, U),
         NEW r, r.root = mD.end, r.count = Cardinality(K), r.end = mD.end + Cardinality(U),
         r.last = mD.last
  PROVE  /\ Bounds(r) /\ Whole(c, r) /\ Cardinality(U) <= mD.end - mD.root
         /\ Data(c, r) = Data(dbCache, mD) \ Entitled(t)
  <1>1. PICK m : m = HandleManifest
    OBVIOUS
  <1>2. /\ Bounds(m) /\ Whole(dbCache, m) /\ m.root = mD.root /\ m.end = mD.end /\ m.last = mD.last
        /\ K \subseteq Segments(dbCache, m)
    BY <1>1, HandleLists
  <1>3. \A b : b \in Data(dbCache, mD) \ Entitled(t)
                  <=> \E o \in K : b \in SegmentBatches(dbCache, o)
    BY HandleLists
  <1>4. UnitsOf(dbCache, K, U)
    BY KeptUnitsFacts
  <1>5. /\ r.root = m.end /\ r.end = m.end + Cardinality(U) /\ r.last = m.last
        /\ m.end + Cardinality(U) <= DbCapacity /\ PackedInto(dbCache, c, m.end, U)
    BY <1>2
  <1>6. dbCache \in DbImage
    BY Known
  <1>7. Bounds(r) /\ Whole(c, r) /\ Cardinality(U) <= m.end - m.root
    BY <1>2, <1>4, <1>5, <1>6, WholePack
  <1>8. \A b : b \in Data(c, r) <=> \E o \in K : b \in SegmentBatches(dbCache, o)
    BY <1>2, <1>4, <1>5, <1>6, WholePack
  <1>9. Data(c, r) = Data(dbCache, mD) \ Entitled(t)
    BY <1>3, <1>8
  <1> QED
    BY <1>2, <1>7, <1>9

\* The kept segments are copied behind the data.
LEMMA StepCopyTail ==
  ASSUME TypeInv, PairInv, TypeInv', CopyTail
  PROVE  PairInv'
  <1>1. /\ dbDisk' = dbDisk /\ walDisk' = walDisk /\ walCache' = walCache /\ h' = h
        /\ tries' = tries /\ doom' = doom /\ doomed' = doomed /\ acked' = acked
        /\ pc = "copyTail" /\ pc' = "syncCopy"
    BY DEF CopyTail, Goto, wal, counts, history
  <1>2. PICK t \in Nat : t = loc.cutoff
    BY Known, LocalsFields
  <1>3. PICK K : K = Kept(t)
    OBVIOUS
  <1>4. PICK U : U = KeptUnits(t)
    OBVIOUS
  <1>5. /\ dbCache' = WriteCells(dbCache, h.dataEnd + Cardinality(U), TailImage(U))
        /\ loc' = [loc EXCEPT !.count = Cardinality(K), !.end = h.dataEnd + Cardinality(U),
                              !.tail = IF K = {} THEN 0 ELSE Packed(U, LastOf(K)),
                              !.root = h.dataEnd, !.phase = 2]
    BY <1>2, <1>3, <1>4 DEF CopyTail
  <1>6. Retaining /\ SyncedDb /\ LocIs(mD) /\ loc.phase = 1 /\ Deciding
    BY <1>1 DEF PairInv, RetentionInv, RetentionPcs
  <1>7. /\ TieDb(mD) /\ mD.root = DataStart /\ h.installed = mD.last /\ h.dataEnd = mD.end /\ h.open
        /\ doom = Entitled(t) /\ mD.end + Cardinality(U) <= DbCapacity
    BY <1>2, <1>4, <1>6 DEF Deciding, TieDb, Retaining, TieLog
  <1>8. dbCache = dbDisk /\ dbDisk.header = "valid"
    BY <1>6 DEF SyncedDb
  <1>9. dbCache' \in DbImage /\ dbDisk \in DbImage /\ Whole(dbDisk, mD) /\ mD \in Manifest /\ Valid(mD)
        /\ loc \in Locals /\ h \in Handle /\ loc' \in Locals /\ Presents(dbDisk, mD)
    BY Known DEF TypeInv, TypeOK
  <1>10. /\ IsFiniteSet(K) /\ K \subseteq Nat /\ IsFiniteSet(U) /\ U \subseteq Nat
         /\ K \subseteq U
         /\ \A x \in U : x \in Offsets /\ x < mD.end
    BY <1>2, <1>3, <1>4, <1>6, <1>7, KeptUnitsFacts
  <1>11. /\ PackedInto(dbCache, dbCache', mD.end, U)
         /\ \A o \in Offsets : o < mD.end => dbCache'.cell[o] = dbCache.cell[o]
         /\ \A x \in U : Count(U, x) \in Nat /\ Count(U, x) < Cardinality(U)
         /\ dbCache'.slot = dbCache.slot /\ dbCache'.header = dbCache.header
         /\ dbCache.size <= dbCache'.size /\ mD.end + Cardinality(U) <= dbCache'.size
    BY <1>5, <1>6, <1>7, <1>10, TailCells
  <1>12. Agree(dbDisk, dbCache', mD)
    BY <1>8, <1>11 DEF Agree
  <1>13. PICK e \in Nat : e = mD.end /\ e >= 2
    BY <1>9, ValidFields
  <1>14. PICK n \in Nat : n = Cardinality(U)
    BY <1>10, FS_CardinalityType
  <1>15. mD.end <= dbCache'.size
    <2>1. dbCache'.size \in Nat
      BY <1>9 DEF DbImage
    <2>2. e + n <= dbCache'.size
      BY <1>11, <1>13, <1>14
    <2> QED
      BY <1>13, <1>14, <2>1, <2>2
  <1>16. /\ Files(dbDisk, dbCache, walDisk, walCache, doom)' /\ HistoryInv'
         /\ mC' = mD /\ mD' = mD /\ Whole(dbCache', mD) /\ Data(dbCache', mD) = Data(dbDisk, mD)
         /\ dbCache'.header = "valid"
    BY <1>1, <1>6, <1>8, <1>9, <1>11, <1>12, <1>15, RetentionWrite
  <1>17. /\ loc'.revision = loc.revision /\ loc'.count = Cardinality(K) /\ loc'.end = e + n
         /\ loc'.tail = (IF K = {} THEN 0 ELSE Packed(U, LastOf(K)))
         /\ loc'.root = e /\ loc'.phase = 2
    BY <1>5, <1>7, <1>9, <1>13, <1>14 DEF Locals
  <1>18. PICK r : r = RetentionRecord' /\ r = RecordOf(loc', h)
    BY <1>1 DEF RetentionRecord, RecordOf
  <1>19. /\ r \in Manifest /\ r.kind = "retain" /\ r.revision # 0
         /\ r.count = Cardinality(K) /\ r.end = e + n /\ r.last = mD.last
         /\ r.tail = loc'.tail /\ r.root = e /\ r.phase = 2
    BY <1>7, <1>9, <1>17, <1>18, RecordFields
  <1>20. Bounds(r) /\ Whole(dbCache', r) /\ n <= e - 2 /\ Data(dbCache', r) = Data(dbCache, mD) \ doom
    <2>1. r.root = mD.end /\ r.end = mD.end + Cardinality(U)
      BY <1>13, <1>14, <1>19
    <2>2. PackedInto(dbCache, dbCache', mD.end, U) /\ r.count = Cardinality(K) /\ r.last = mD.last
      BY <1>11, <1>19
    <2>3. TieDb(mD) /\ h.installed = mD.last /\ mD.root = DataStart
          /\ mD.end + Cardinality(U) <= DbCapacity
      BY <1>7
    <2>4. /\ Bounds(r) /\ Whole(dbCache', r) /\ Cardinality(U) <= mD.end - mD.root
          /\ Data(dbCache', r) = Data(dbCache, mD) \ Entitled(t)
      BY <1>2, <1>3, <1>4, <1>6, <1>9, <2>1, <2>2, <2>3, TailWhole
    <2> QED
      BY <1>7, <1>13, <1>14, <2>4 DEF DataStart
  <1>21. IF r.count # 0 THEN r.tail >= r.root /\ r.tail < r.end ELSE r.tail = 0 /\ r.root = r.end
    <2>1. CASE K = {}
      <3>1. U = {}
        BY <1>2, <1>3, <1>4, <2>1 DEF KeptUnits
      <3>2. n = 0 /\ r.count = 0 /\ e + 0 = e
        BY <1>13, <1>14, <1>19, <2>1, <3>1, FS_EmptySet
      <3> QED
        BY <1>17, <1>19, <2>1, <3>2
    <2>2. CASE K # {}
      <3>1. LastOf(K) \in K
        BY <1>10, <1>13, <2>2, LastOfIn
      <3>2. PICK k \in Nat : k = Count(U, LastOf(K)) /\ k < n
        BY <1>10, <1>11, <1>14, <3>1
      <3>3. r.tail = e + k
        BY <1>7, <1>13, <1>17, <1>19, <2>2, <3>2 DEF Packed, Count
      <3>4. r.count # 0
        BY <1>10, <1>19, <2>2, FS_EmptySet
      <3>5. e + k >= e /\ e + k < e + n
        BY <1>13, <1>14, <3>2
      <3> QED
        BY <1>19, <3>3, <3>4, <3>5
    <2> QED
      BY <2>1, <2>2
  <1>22. Valid(r)
    <2>1. r.end - r.root <= r.root - DataStart
      BY <1>13, <1>14, <1>19, <1>20 DEF DataStart
    <2>2. r \in Manifest /\ r.kind = "retain" /\ r.revision # 0 /\ r.phase = 2
      BY <1>19
    <2> QED
      BY <1>9, <1>20, <1>21, <2>1, <2>2, ValidRetention
  <1>23. doom \subseteq Data(dbCache, mD)
    BY <1>2, <1>6, <1>7, HandleLists
  <1>24. Publishing'
    <2>1. loc'.revision = mD.revision /\ loc'.phase = 2
      BY <1>6, <1>17 DEF LocIs
    <2>2. loc'.end <= dbCache'.size
      BY <1>11, <1>13, <1>14, <1>17
    <2> QED
      BY <1>1, <1>8, <1>16, <1>18, <1>20, <1>22, <1>23, <2>1, <2>2 DEF Publishing
  <1>25. Retaining'
    BY <1>1, <1>6, <1>7, <1>16, <1>17 DEF Retaining, SyncedWal, TieLog, TieEnd, Clean
  <1>26. RetentionInv'
    BY <1>1, <1>16, <1>17, <1>24, <1>25 DEF RetentionInv
  <1>27. OpenInv' /\ FailedInv' /\ CheckpointInv'
    BY <1>1 DEF OpenInv, FailedInv, CheckpointInv, CheckpointPcs, PairInv
  <1>28. AppendInv'
    BY <1>1 DEF AppendInv, AppendPcs, CheckpointPcs, Ready
  <1> QED
    BY <1>16, <1>26, <1>27, <1>28 DEF PairInv

------------------------------------------------------------------------------
(* Errors and power failures. *)

\* What a failed write or a power failure leaves keeps the records.
LEMMA OutcomeRecorded ==
  ASSUME TypeInv, PairInv, NEW x \in DbOutcomes(dbDisk, dbCache),
         NEW y \in WalOutcomes(walDisk, walCache)
  PROVE  /\ Files(dbDisk, x, walDisk, y, doom) /\ Files(x, x, y, y, doom)
         /\ Recorded(x, y, tries, acked, doom, doomed)
         /\ x \in DbImage /\ y \in WalImage /\ ReadManifests(x) \in {mD, mC}
  <1>1. /\ dbDisk \in DbImage /\ dbCache \in DbImage /\ walDisk \in WalImage /\ walCache \in WalImage
        /\ Files(dbDisk, dbCache, walDisk, walCache, doom)
    BY Known
  <1>2. /\ x \in DbImage /\ y \in WalImage
        /\ Files(dbDisk, x, walDisk, y, doom) /\ Files(x, x, y, y, doom)
        /\ \/ ReadManifests(x) = ReadManifests(dbDisk) /\ Same(dbDisk, walDisk, x, y)
           \/ ReadManifests(x) = ReadManifests(dbCache) /\ Same(dbCache, walCache, x, y)
    BY <1>1, FilesOutcome
  <1>3. /\ Recorded(dbDisk, walDisk, tries, acked, doom, doomed)
        /\ Recorded(dbCache, walCache, tries, acked, doom, doomed)
    BY DEF PairInv, HistoryInv
  <1>4. CASE ReadManifests(x) = ReadManifests(dbDisk) /\ Same(dbDisk, walDisk, x, y)
    <2>1. ReadManifests(x).phase \in {2, 3} =>
            ReadManifests(dbDisk).phase \in {2, 3} \/ Held(dbDisk, walDisk) \cap doom = {}
      BY <1>4
    <2>2. Recorded(x, y, tries, acked, doom, doomed)
      BY <1>3, <1>4, <2>1, RecordedSame
    <2> QED
      BY <1>2, <1>4, <2>2 DEF mD
  <1>5. CASE ReadManifests(x) = ReadManifests(dbCache) /\ Same(dbCache, walCache, x, y)
    <2>1. ReadManifests(x).phase \in {2, 3} =>
            ReadManifests(dbCache).phase \in {2, 3} \/ Held(dbCache, walCache) \cap doom = {}
      BY <1>5
    <2>2. Recorded(x, y, tries, acked, doom, doomed)
      BY <1>3, <1>5, <2>1, RecordedSame
    <2> QED
      BY <1>2, <1>5, <2>2 DEF mC
  <1> QED
    BY <1>2, <1>4, <1>5

\* Power fails, at any step of any call.
LEMMA StepCrash ==
  ASSUME TypeInv, PairInv, Crash
  PROVE  PairInv'
  <1>1. PICK x \in DbOutcomes(dbDisk, dbCache), y \in WalOutcomes(walDisk, walCache) :
           dbCache' = x /\ dbDisk' = x /\ walCache' = y /\ walDisk' = y
    BY DEF Crash
  <1>2. /\ pc' = "closed" /\ h' = NoHandle
        /\ tries' = tries /\ acked' = acked /\ doom' = doom /\ doomed' = doomed
    BY DEF Crash, history
  <1>3. Files(x, x, y, y, doom) /\ Recorded(x, y, tries, acked, doom, doomed)
    BY OutcomeRecorded
  <1>4. Files(dbDisk, dbCache, walDisk, walCache, doom)'
    BY <1>1, <1>2, <1>3
  <1>5. HistoryInv'
    BY <1>1, <1>2, <1>3 DEF HistoryInv, PairInv
  <1>6. FailedInv' /\ ~ Ready' /\ pc' \in {"closed", "open"}
    BY <1>2 DEF FailedInv, NoHandle, Ready
  <1>7. OpenInv' /\ AppendInv' /\ CheckpointInv' /\ RetentionInv'
    <2>1. OpenInv' /\ AppendInv'
      BY <1>6 DEF OpenInv, AppendInv, CheckpointPcs, AppendPcs
    <2>2. CheckpointInv' /\ RetentionInv'
      BY <1>6 DEF CheckpointInv, RetentionInv, CheckpointPcs, RetentionPcs
    <2> QED
      BY <2>1, <2>2
  <1> QED
    BY <1>4, <1>5, <1>6, <1>7 DEF PairInv

DbWritePcs == {"walHeader", "syncUpgrade", "syncSegment", "syncManifest", "syncPublish",
               "syncCopy", "syncTrimDb"}
WalWritePcs == {"syncTrim", "syncBody", "syncCommit", "syncReclaim"}

\* What an operation that failed leaves of both files: part of its write to one
\* of them; nothing of note while a pair is created, when no name may be durable.
LEMMA FailCases ==
  ASSUME TypeInv, PairInv, NEW x \in FailedDb, NEW y \in FailedWal
  PROVE  \/ x \in DbOutcomes(dbDisk, dbCache) /\ y \in WalOutcomes(walDisk, walCache)
         \/ x = dbCache /\ y = walCache
         \/ /\ Creating /\ y = walCache /\ x \in DbImage /\ Presents(x, EmptyManifest)
            /\ x \in DbOutcomes(BareDb("short"), dbCache)
  <1>0. walCache \in WalOutcomes(walDisk, walCache)
    BY DEF WalOutcomes
  <1>1. CASE pc \in DbWritePcs /\ dbDisk.header # "absent"
    <2>1. x \in DbOutcomes(dbDisk, dbCache)
      BY <1>1 DEF FailedDb, BeforeWrite, DbWritePcs
    <2>2. y = walCache
      BY <1>1 DEF FailedWal, DbWritePcs
    <2> QED
      BY <1>0, <2>1, <2>2
  <1>2. CASE pc \in DbWritePcs /\ dbDisk.header = "absent"
    <2>1. pc = "walHeader"
      <3>1. CASE pc \in {"syncUpgrade", "syncSegment", "syncManifest"}
        <4>1. Calling
          BY <3>1 DEF PairInv, AppendInv, CheckpointPcs
        <4> QED
          BY <4>1, <1>2 DEF Calling
      <3>2. CASE pc \in {"syncPublish", "syncCopy", "syncTrimDb"}
        <4>1. Retaining
          BY <3>2 DEF PairInv, RetentionInv, RetentionPcs
        <4> QED
          BY <4>1, <1>2 DEF Retaining
      <3> QED
        BY <1>2, <3>1, <3>2 DEF DbWritePcs
    <2>2. Creating
      BY <2>1 DEF PairInv, OpenInv
    <2>3. /\ dbDisk \in DbImage /\ dbCache \in DbImage /\ walDisk \in WalImage
          /\ walCache \in WalImage /\ mD = ReadManifests(dbDisk) /\ mC = ReadManifests(dbCache)
          /\ Presents(dbDisk, EmptyManifest) /\ Presents(dbCache, EmptyManifest)
      BY <2>2, Known DEF Creating
    <2>4. x \in DbOutcomes(BareDb("short"), dbCache) /\ y = walCache
      BY <1>2 DEF FailedDb, FailedWal, BeforeWrite, DbWritePcs
    <2>5. BareDb("short") \in DbImage
      BY NewFiles
    <2>6. Bridge(BareDb("short"), dbCache, EmptyManifest, EmptyManifest)
      BY <2>3, <2>5, EmptyWhole, NewPresents DEF Bridge
    <2>7. x \in DbImage /\ Presents(x, EmptyManifest)
      <3>1. x \in DbImage /\ Settled(BareDb("short"), dbCache, EmptyManifest, EmptyManifest, x, EmptyManifest)
        BY <2>3, <2>4, <2>5, <2>6, EmptyWhole, OutcomeSettled
      <3> QED
        BY <3>1 DEF Settled, Bridge
    <2> QED
      BY <2>2, <2>4, <2>7
  <1>3. CASE pc \in WalWritePcs
    <2>1. SyncedDb
      <3>1. CASE pc = "syncTrim"
        BY <3>1 DEF PairInv, OpenInv, Completing
      <3>2. CASE pc \in {"syncBody", "syncCommit"}
        BY <3>2 DEF PairInv, AppendInv, AppendPcs, Appending
      <3>3. CASE pc = "syncReclaim"
        BY <3>3 DEF PairInv, CheckpointInv, Reclaiming
      <3> QED
        BY <1>3, <3>1, <3>2, <3>3 DEF WalWritePcs
    <2>2. x = dbCache /\ dbCache \in DbOutcomes(dbDisk, dbCache)
      BY <1>3, <2>1 DEF FailedDb, WalWritePcs, SyncedDb, DbOutcomes
    <2>3. y \in WalOutcomes(walDisk, walCache)
      BY <1>3 DEF FailedWal, WalWritePcs
    <2> QED
      BY <2>2, <2>3
  <1>4. CASE pc \notin DbWritePcs /\ pc \notin WalWritePcs
    <2>1. x = dbCache /\ y = walCache
      BY <1>4 DEF FailedDb, FailedWal, DbWritePcs, WalWritePcs
    <2> QED
      BY <2>1
  <1> QED
    BY <1>1, <1>2, <1>3, <1>4

\* What is left keeps the records.
LEMMA FailFiles ==
  ASSUME TypeInv, PairInv, NEW x \in FailedDb, NEW y \in FailedWal
  PROVE  /\ Files(dbDisk, x, walDisk, y, doom) /\ Recorded(x, y, tries, acked, doom, doomed)
         /\ x \in DbImage /\ y \in WalImage /\ ReadManifests(x) \in {mD, mC}
  <1>1. CASE x \in DbOutcomes(dbDisk, dbCache) /\ y \in WalOutcomes(walDisk, walCache)
    BY <1>1, OutcomeRecorded
  <1>2. CASE x = dbCache /\ y = walCache
    <2>1. dbCache \in DbImage /\ walCache \in WalImage /\ mC = ReadManifests(dbCache)
      BY Known
    <2> QED
      BY <1>2, <2>1 DEF PairInv, HistoryInv
  <1>3. CASE Creating /\ y = walCache /\ x \in DbImage /\ Presents(x, EmptyManifest)
    <2>3. /\ dbDisk \in DbImage /\ walDisk \in WalImage /\ walCache \in WalImage
          /\ Presents(dbDisk, EmptyManifest)
      BY <1>3, Known DEF Creating
    <2>8. Files(dbDisk, x, walDisk, y, doom) /\ Same(dbDisk, walDisk, x, y)
          /\ ReadManifests(x) = EmptyManifest
      BY <1>3, <2>3, FilesEmpty DEF Creating
    <2>9. Recorded(x, y, tries, acked, doom, doomed)
      <3>1. Recorded(dbDisk, walDisk, tries, acked, doom, doomed)
        BY DEF PairInv, HistoryInv
      <3>2. ReadManifests(x).phase \in {2, 3} =>
              ReadManifests(dbDisk).phase \in {2, 3} \/ Held(dbDisk, walDisk) \cap doom = {}
        BY <2>8, EmptyWhole
      <3>3. Same(dbDisk, walDisk, x, y)
        BY <2>8
      <3> QED
        BY <3>1, <3>2, <3>3, RecordedSame
    <2> QED
      BY <1>3, <2>3, <2>8, <2>9 DEF Creating
  <1> QED
    BY <1>1, <1>2, <1>3, FailCases

\* An operation reports an error.
LEMMA StepFail ==
  ASSUME TypeInv, PairInv, Fail
  PROVE  PairInv'
  <1>1. PICK x \in FailedDb, y \in FailedWal : dbCache' = x /\ walCache' = y
    BY DEF Fail
  <1>2. /\ dbDisk' = dbDisk /\ walDisk' = walDisk
        /\ tries' = tries /\ acked' = acked /\ doom' = doom /\ doomed' = doomed
    BY DEF Fail, history
  <1>3. Files(dbDisk, x, walDisk, y, doom) /\ Recorded(x, y, tries, acked, doom, doomed)
    BY FailFiles
  <1>4. Files(dbDisk, dbCache, walDisk, walCache, doom)'
    BY <1>1, <1>2, <1>3
  <1>5. HistoryInv'
    BY <1>1, <1>2, <1>3 DEF HistoryInv, PairInv
  <1>6. FailedInv' /\ ~ Ready' /\ pc' \in {"closed", "open"}
    BY DEF Fail, FailedInv, NoHandle, Ready, PairInv
  <1>7. OpenInv' /\ AppendInv' /\ CheckpointInv' /\ RetentionInv'
    <2>1. OpenInv' /\ AppendInv'
      BY <1>6 DEF OpenInv, AppendInv, CheckpointPcs, AppendPcs
    <2>2. CheckpointInv' /\ RetentionInv'
      BY <1>6 DEF CheckpointInv, RetentionInv, CheckpointPcs, RetentionPcs
    <2> QED
      BY <2>1, <2>2
  <1> QED
    BY <1>4, <1>5, <1>6, <1>7 DEF PairInv

------------------------------------------------------------------------------
(* The invariant, and what follows from it. *)

LEMMA PairInvOpen ==
  ASSUME TypeInv, PairInv, TypeInv', OpenStep
  PROVE  PairInv'
  BY StepQuiet, StepCreate, StepValidate, StepProvisionDb, StepProvisionWal, StepTrimWal,
     StepNothingToTrim, StepSyncTrim, StepOpenReturn DEF OpenStep

LEMMA PairInvAppend ==
  ASSUME TypeInv, PairInv, TypeInv', AppendStep
  PROVE  PairInv'
  BY StepSyncBody, StepWriteCommit, StepSyncCommit, StepAppendReturn DEF AppendStep

LEMMA PairInvCheckpoint ==
  ASSUME TypeInv, PairInv, TypeInv', CheckpointStep
  PROVE  PairInv'
  BY StepUpgradePrefix, StepSyncUpgrade, StepWriteSegment, StepSyncSegment, StepWriteManifest,
     StepSyncManifest, StepReclaim, StepSyncReclaim DEF CheckpointStep

LEMMA PairInvRetention ==
  ASSUME TypeInv, PairInv, TypeInv', RetentionStep
  PROVE  PairInv'
  BY StepPublish, StepSyncPublish, StepCopyTail, StepSyncData, StepCopyFront, StepTrimDb,
     StepExpireReturn DEF RetentionStep

\* Every step of every call, every error and every power failure preserves it.
LEMMA PairInvStep == TypeInv /\ PairInv /\ [Next]_vars => PairInv'
  <1> SUFFICES ASSUME TypeInv, PairInv, [Next]_vars PROVE PairInv'
    OBVIOUS
  <1>0. TypeInv'
    BY TypeInvStep
  <1>1. CASE UNCHANGED vars
    <2>1. /\ dbDisk' = dbDisk /\ dbCache' = dbCache /\ walDisk' = walDisk /\ walCache' = walCache
          /\ h' = h /\ pc' = pc /\ loc' = loc
          /\ tries' = tries /\ acked' = acked /\ doom' = doom /\ doomed' = doomed
      BY <1>1 DEF vars, db, wal, counts, history
    <2>2. Files(dbDisk, dbCache, walDisk, walCache, doom)' /\ HistoryInv' /\ FailedInv'
      BY <2>1 DEF PairInv, HistoryInv, FailedInv
    <2>3. OpenInv' = OpenInv
      BY <2>1 DEF OpenInv, Creating, Opening, Validated, SyncedDb, SyncedWal, Completing, Trimmed,
                  Clean, TieLog, TieEnd, TieDb, LocIs, mD, mC
    <2>4. AppendInv' = AppendInv
      BY <2>1 DEF AppendInv, Ready, Calling, Idle, Appending, BodyWritten, BodySynced, SyncedDb,
                  SyncedWal, CommitWritten, Committed, Clean, TieLog, TieEnd, TieDb, TieKind, mD
    <2>5. CheckpointInv' = CheckpointInv
      BY <2>1 DEF CheckpointInv, Checkpointing, SyncedDb, SameManifest, SegmentWritten,
                  InstallWritten, Reclaiming, SyncedWal, NewEnd, InstallRecord, Clean, TieLog,
                  TieDb, TieKind, mD, mC
    <2>6. RetentionInv' = RetentionInv
      BY <2>1 DEF RetentionInv, Retaining, SyncedDb, SyncedWal, LocIs, Publishing, RecordWritten,
                  RetentionRecord, Deciding, Entitled, KeptUnits, Kept, InstalledSegments,
                  HandleManifest, SegmentExpires, Stored, Clean, TieLog, TieEnd, TieDb, mD, mC
    <2> QED
      BY <2>2, <2>3, <2>4, <2>5, <2>6 DEF PairInv
  <1>2. CASE OpenStart \/ Close
    BY <1>2, StepQuiet
  <1>3. CASE \E t \in Times : AppendBatch(t)
    BY <1>0, <1>3, StepAppend
  <1>4. CASE Checkpoint
    BY <1>4, StepCheckpoint
  <1>5. CASE \E c \in Cutoffs : Expire(c)
    BY <1>0, <1>5, StepExpire
  <1>6. CASE CallStep
    BY <1>0, <1>6, PairInvOpen, PairInvAppend, PairInvCheckpoint, PairInvRetention DEF CallStep
  <1>7. CASE Fail \/ Crash
    BY <1>7, StepFail, StepCrash
  <1> QED
    BY <1>1, <1>2, <1>3, <1>4, <1>5, <1>6, <1>7 DEF Next

LEMMA PairInvAlways == Spec => []PairInv
  BY TypeInvAlways, PairInvInit, PairInvStep, PTL DEF Spec

\* No committed batch is ever lost: whatever a power failure or an error leaves
\* of either file, a batch whose append returned 0 is in the log or in a segment
\* of the manifest that read_manifests chooses, until an expiry may remove it.
THEOREM NothingLost == Spec => []CommittedHeld
  <1>1. PairInv => CommittedHeld
    BY DEF PairInv, HistoryInv, Recorded, CommittedHeld, Pairs
  <1> QED
    BY <1>1, PairInvAlways, PTL

\* An expiry, interrupted anywhere, removes all it may remove or nothing, and has
\* removed it when timelite_batches_expire_before returns.
THEOREM ExpiryAtomic == Spec => []RetentionAtomic
  <1>1. PairInv => RetentionAtomic
    <2> SUFFICES ASSUME PairInv PROVE RetentionAtomic
      OBVIOUS
    <2>1. \A p \in Pairs : Held(p[1], p[2]) \cap doom \in {{}, doom}
      BY DEF PairInv, HistoryInv, Recorded, Pairs
    <2>2. pc = "expireReturn" => Held(dbDisk, walDisk) \cap doom = {}
      BY DEF PairInv, RetentionInv, RetentionPcs, Retaining, Stored
    <2> QED
      BY <2>1, <2>2 DEF RetentionAtomic
  <1> QED
    BY <1>1, PairInvAlways, PTL

------------------------------------------------------------------------------
(* The refinement. *)

\* How a step may change the view of the durable files.
ViewStep == \/ Same(dbDisk, walDisk, dbDisk', walDisk')
            \/ Removes(dbDisk, walDisk, dbDisk', walDisk', doom)
            \/ Commits(dbDisk, walDisk, dbDisk', walDisk')

HistoryKept == acked' = acked /\ doom' = doom /\ doomed' = doomed

\* The abstract log sees it as one of its steps, or not at all.
LEMMA ViewIsLog ==
  ASSUME ViewStep, HistoryKept
  PROVE  [Log!Next]_(Log!vars)
  <1>1. CASE Same(dbDisk, walDisk, dbDisk', walDisk')
    BY <1>1 DEF Same, High, Floor, HistoryKept, Log!vars
  <1>2. CASE Removes(dbDisk, walDisk, dbDisk', walDisk', doom)
    <2>1. Log!Remove
      BY <1>2 DEF Removes, High, Floor, HistoryKept, Log!Remove
    <2> QED
      BY <2>1 DEF Log!Next
  <1>3. CASE Commits(dbDisk, walDisk, dbDisk', walDisk')
    <2>1. PICK b \in LogBatch :
            /\ b.seq = High(dbDisk, walDisk) + 1
            /\ High(dbDisk, walDisk) # 0 => b.time >= Floor(dbDisk, walDisk)
            /\ Held(dbDisk', walDisk') = Held(dbDisk, walDisk) \cup {b}
            /\ High(dbDisk', walDisk') = b.seq /\ Floor(dbDisk', walDisk') = b.time
      BY <1>3 DEF Commits
    <2>2. Log!Commit(b)
      BY <2>1 DEF Log!Commit, High, Floor, HistoryKept
    <2> QED
      BY <2>1, <2>2 DEF Log!Next, LogBatch
  <1> QED
    BY <1>1, <1>2, <1>3 DEF ViewStep

\* A sync of either file, or a step that syncs none.
LEMMA SyncViews ==
  ASSUME TypeInv, PairInv,
         \/ dbDisk' = dbDisk /\ walDisk' = walDisk
         \/ dbDisk' = dbCache /\ walDisk' = walDisk
         \/ dbDisk' = dbDisk /\ walDisk' = walCache
  PROVE  ViewStep
  <1>0. /\ dbDisk \in DbImage /\ dbCache \in DbImage /\ walDisk \in WalImage /\ walCache \in WalImage
        /\ Files(dbDisk, dbCache, walDisk, walCache, doom)
    BY Known
  <1>1. CASE dbDisk' = dbDisk /\ walDisk' = walDisk
    BY <1>1 DEF ViewStep, Same
  <1>2. CASE dbDisk' = dbCache /\ walDisk' = walDisk
    <2>1. \/ Same(dbDisk, walDisk, dbCache, walDisk)
          \/ ReadManifests(dbCache) # ReadManifests(dbDisk) /\ walDisk = walCache
      BY <1>0, FilesSyncDb
    <2>2. CASE ReadManifests(dbCache) # ReadManifests(dbDisk) /\ walDisk = walCache
      <3>1. \/ Same(dbDisk, walDisk, dbCache, walCache)
            \/ Removes(dbDisk, walDisk, dbCache, walCache, doom)
        BY <1>0, <2>2 DEF Files
      <3> QED
        BY <1>2, <2>2, <3>1 DEF ViewStep
    <2> QED
      BY <1>2, <2>1, <2>2 DEF ViewStep
  <1>3. CASE dbDisk' = dbDisk /\ walDisk' = walCache
    <2>1. \/ ReadManifests(dbCache) = ReadManifests(dbDisk) /\ Same(dbCache, walCache, dbDisk, walCache)
          \/ walDisk = walCache
      BY <1>0, FilesSyncWal
    <2>2. CASE ReadManifests(dbCache) = ReadManifests(dbDisk) /\ Same(dbCache, walCache, dbDisk, walCache)
      <3>1. \/ Same(dbDisk, walDisk, dbCache, walCache)
            \/ Commits(dbDisk, walDisk, dbCache, walCache)
        BY <1>0, <2>2 DEF Files
      <3>2. \/ Same(dbDisk, walDisk, dbDisk, walCache)
            \/ Commits(dbDisk, walDisk, dbDisk, walCache)
        BY <2>2, <3>1, SameThen
      <3> QED
        BY <1>3, <3>2 DEF ViewStep
    <2>3. CASE walDisk = walCache
      BY <1>3, <2>3 DEF ViewStep, Same
    <2> QED
      BY <2>1, <2>2, <2>3
  <1> QED
    BY <1>1, <1>2, <1>3

\* A power failure leaves the view of the disk, or completes what was in flight.
LEMMA CrashViews ==
  ASSUME TypeInv, PairInv, Crash
  PROVE  ViewStep
  <1>1. PICK x \in DbOutcomes(dbDisk, dbCache), y \in WalOutcomes(walDisk, walCache) :
           dbDisk' = x /\ walDisk' = y
    BY DEF Crash
  <1>2. Files(dbDisk, x, walDisk, y, doom)
    BY OutcomeRecorded
  <1>3. \/ Same(dbDisk, walDisk, x, y) \/ Removes(dbDisk, walDisk, x, y, doom)
        \/ Commits(dbDisk, walDisk, x, y)
    BY <1>2 DEF Files
  <1> QED
    BY <1>1, <1>3 DEF ViewStep

\* The steps that sync at most one file.
OneSync ==
    /\ HistoryKept
    /\ \/ dbDisk' = dbDisk /\ walDisk' = walDisk
       \/ dbDisk' = dbCache /\ walDisk' = walDisk
       \/ dbDisk' = dbDisk /\ walDisk' = walCache

LEMMA OpenSyncs == OpenStart \/ Close \/ OpenStep => OneSync
  BY DEF OpenStart, Close, OpenStep, RefuseOrphanWal, CreateDb, CreateWal, WriteDbHeader,
         WriteWalHeader, Reject, Validate, ProvisionDb, ProvisionWal, TrimWal, NothingToTrim,
         SyncTrim, OpenReturn, SyncWal, OneSync, HistoryKept, db, wal, history

LEMMA AppendSyncs ==
  (\E t \in Times : AppendBatch(t)) \/ SyncBody \/ WriteCommit \/ SyncCommit => OneSync
  BY DEF AppendBatch, SyncBody, WriteCommit, SyncCommit, SyncWal, OneSync, HistoryKept, db, wal,
         history

LEMMA CheckpointSyncs == Checkpoint \/ CheckpointStep => OneSync
  BY DEF Checkpoint, CheckpointStep, UpgradePrefix, SyncUpgrade, WriteSegment, SyncSegment,
         WriteManifest, SyncManifest, Reclaim, SyncReclaim, SyncDb, SyncWal, OneSync, HistoryKept,
         db, wal, history

LEMMA RetentionSyncs == RetentionStep \/ Fail => OneSync
  BY DEF RetentionStep, Publish, SyncPublish, CopyTail, SyncCopy, CopyFront, TrimDb, SyncTrimDb,
         ExpireReturn, Fail, SyncDb, OneSync, HistoryKept, db, wal, history

\* append returns only when the batch is stored.
LEMMA ReturnAcknowledges ==
  ASSUME TypeInv, PairInv, AppendReturn
  PROVE  Log!Next
  <1>1. /\ dbDisk' = dbDisk /\ walDisk' = walDisk /\ walCache = walDisk
        /\ doom' = doom /\ doomed' = doomed /\ acked' = acked \cup {Written}
        /\ pc = "appendReturn" /\ Committed
    BY DEF AppendReturn, Goto, db, wal, PairInv, AppendInv, Committed, SyncedWal
  <1>2. walDisk \in WalImage /\ mD.last \in Nat /\ h.end \in Nat /\ Fits(walDisk, mD)
        /\ mD = ReadManifests(dbDisk)
    BY Known, HandleFields
  <1>3. PICK n \in Nat : n = h.end
    BY <1>2
  <1>4. FreshLog(walDisk, mD) /\ FullFrames(walDisk) = 1..(n + 1) /\ Len(walDisk.frames) = n + 1
    BY <1>1, <1>3 DEF Committed
  <1>5. FreshView(walDisk, mD, n + 1)
    <2>1. Cardinality(1..(n + 1)) = n + 1
      BY <1>3, FS_Interval
    <2> QED
      BY <1>2, <1>4, <2>1, FreshCount
  <1>6. n + 1 \in 1..(n + 1) /\ Written = walDisk.frames[n + 1].batch
    BY <1>1, <1>3, <1>4 DEF Written
  <1>7. Written \in Held(dbDisk, walDisk)
    BY <1>2, <1>5, <1>6, HeldIs DEF FreshView
  <1>8. Written \in LogBatch
    BY <1>2, <1>4, <1>6 DEF Fits
  <1>9. PICK b \in LogBatch : b = Written
    BY <1>8
  <1>10. Log!Acknowledge(b)
    BY <1>1, <1>7, <1>9 DEF Log!Acknowledge
  <1> QED
    BY <1>9, <1>10 DEF Log!Next, LogBatch

\* expire_before announces what the installed segments hold.
LEMMA ExpireAnnounces ==
  ASSUME TypeInv, PairInv, NEW c \in Cutoffs, Expire(c)
  PROVE  Log!Next
  <1>1. /\ dbDisk' = dbDisk /\ walDisk' = walDisk /\ acked' = acked
        /\ doom' = Entitled(c) /\ doomed' = doomed \cup Entitled(c)
    BY DEF Expire, db, wal
  <1>2. Calling /\ SyncedDb /\ dbCache = dbDisk /\ h.installed = mD.last
    BY AtReady DEF Expire
  <1>3. TieDb(mD) /\ mD.phase = 0
    BY <1>2 DEF Calling, TieKind
  <1>4. mD.root = DataStart /\ c \in Nat
    BY <1>3, Known, ValidFields, TimesAssumption
  <1>5. Entitled(c) \subseteq Data(dbCache, mD)
    BY <1>2, <1>3, <1>4, HandleLists
  <1>6. Entitled(c) \subseteq Held(dbDisk, walDisk)
    BY <1>2, <1>5, HeldIs DEF mD
  <1>7. PICK D \in SUBSET Held(dbDisk, walDisk) : D = Entitled(c)
    BY <1>6
  <1>8. Log!Announce(D)
    BY <1>1, <1>7 DEF Log!Announce
  <1> QED
    BY <1>7, <1>8 DEF Log!Next

\* Every step is a step of the abstract log, or invisible to it.
LEMMA LogStep == TypeInv /\ PairInv /\ [Next]_vars => [Log!Next]_(Log!vars)
  <1> SUFFICES ASSUME TypeInv, PairInv, [Next]_vars PROVE [Log!Next]_(Log!vars)
    OBVIOUS
  <1>1. CASE UNCHANGED vars
    <2>1. OneSync
      BY <1>1 DEF vars, db, wal, history, OneSync, HistoryKept
    <2> QED
      BY <2>1, SyncViews, ViewIsLog DEF OneSync
  <1>2. CASE OneSync
    BY <1>2, SyncViews, ViewIsLog DEF OneSync
  <1>3. CASE Crash
    <2>1. HistoryKept
      BY <1>3 DEF Crash, history, HistoryKept
    <2> QED
      BY <1>3, <2>1, CrashViews, ViewIsLog
  <1>4. CASE AppendReturn
    BY <1>4, ReturnAcknowledges
  <1>5. CASE \E c \in Cutoffs : Expire(c)
    BY <1>5, ExpireAnnounces
  <1>6. CASE Next
    BY <1>2, <1>3, <1>4, <1>5, <1>6, OpenSyncs, AppendSyncs, CheckpointSyncs, RetentionSyncs
       DEF Next, CallStep, AppendStep
  <1> QED
    BY <1>1, <1>6

\* The files a behaviour begins with hold the empty log.
LEMMA LogInit == Init => Log!Init
  <1> SUFFICES ASSUME Init PROVE Log!Init
    OBVIOUS
  <1>1. TypeInv
    BY TypeInvInit
  <1>2. walDisk.frames = <<>>
    BY DEF Init, NewWal
  <1>3. Presents(dbDisk, EmptyManifest)
    <2>1. dbDisk \in {NewDb, LegacyDb, BareDb("absent")}
      BY StartsAssumption DEF Init
    <2> QED
      BY <2>1, NewPresents DEF LegacyDb
  <1>4. dbDisk \in DbImage /\ walDisk \in WalImage
    BY <1>1 DEF TypeInv, TypeOK
  <1>5. Held(dbDisk, walDisk) = {} /\ High(dbDisk, walDisk) = 0 /\ Floor(dbDisk, walDisk) = 0
    BY <1>2, <1>3, <1>4, FilesEmpty
  <1>6. acked = {} /\ doom = {} /\ doomed = {}
    BY DEF Init
  <1> QED
    BY <1>5, <1>6 DEF Log!Init, High, Floor

\* The pair of files implements the abstract log: a batch becomes durable in one
\* step, with its commit record; an expiry removes all it announced in one step,
\* with its manifest; crashes, errors and all other writes are invisible.
THEOREM FilesImplementLog == Spec => ImplementsLog
  <1>1. TypeInv /\ PairInv /\ [Next]_vars => [Log!Next]_(Log!vars)
    BY LogStep
  <1> QED
    BY <1>1, LogInit, TypeInvAlways, PairInvAlways, PTL DEF Spec, ImplementsLog, Log!Spec
==============================================================================
