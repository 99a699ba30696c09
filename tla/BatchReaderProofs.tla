--------------------------- MODULE BatchReaderProofs -------------------------
(***************************************************************************)
(* The readers of a batch database, for every value of the constants of    *)
(* BatchReader: the index finds every segment, seek, queries and           *)
(* aggregates are exact, and the cursor delivers every live batch once and *)
(* in order, across appends, checkpoints, expiries and reopens, from every *)
(* pair that a release before time order may have left.  From these the    *)
(* policy of module Continuous deletes only what it has exported.          *)
(*                                                                         *)
(* Inv, of module ReaderFilesProofs, is the invariant: the files are whole *)
(* and the cursor stands before one of their batches or at the end.        *)
(***************************************************************************)
EXTENDS Continuous, ReaderFilesProofs

------------------------------------------------------------------------------
(* A checkpoint. *)

\* In an ordered sequence of batches each ends before the later ones start.
LEMMA OrderedPairs ==
  ASSUME NEW s \in Seq(FrameSet), Ordered(s), NEW i \in 1..Len(s), NEW j \in 1..Len(s), i < j
  PROVE  LastTimeOf(s[i]) <= FirstTimeOf(s[j])
  <1> DEFINE T == {x \in 0..((Len(s) - i) - 1) : LastTimeOf(s[i]) <= FirstTimeOf(s[(i + x) + 1])}
             N == (Len(s) - i) - 1
  <1>1. N \in Nat /\ Len(s) \in Nat
    OBVIOUS
  <1>2. ASSUME NEW x \in 1..Len(s) PROVE s[x] \in FrameSet
    OBVIOUS
  <1>3. ASSUME NEW x \in 1..(Len(s) - 1) PROVE LastTimeOf(s[x]) <= FirstTimeOf(s[x + 1])
    <2>1. x + 1 \in 2..Len(s) /\ (x + 1) - 1 = x
      BY <1>1
    <2>2. FirstTimeOf(s[x + 1]) >= LastTimeOf(s[(x + 1) - 1])
      BY <2>1 DEF Ordered
    <2>3. LastTimeOf(s[x]) \in Times /\ FirstTimeOf(s[x + 1]) \in Times
      <3>1. x \in 1..Len(s) /\ x + 1 \in 1..Len(s)
        BY <1>1
      <3> QED
        BY <1>2, <3>1, FrameFacts
    <2> QED
      BY <2>1, <2>2, <2>3 DEF Times
  <1>4. 0 \in T
    <2>1. (i + 0) + 1 = i + 1 /\ 0 \in 0..N
      BY <1>1
    <2>2. i \in 1..(Len(s) - 1)
      BY <1>1
    <2>3. LastTimeOf(s[i]) <= FirstTimeOf(s[i + 1])
      BY <1>3, <2>2
    <2> QED
      BY <2>1, <2>3
  <1>5. ASSUME NEW x \in 0..(N - 1), x \in T PROVE x + 1 \in T
    <2> DEFINE y == (i + x) + 1
    <2>1. y \in 1..(Len(s) - 1) /\ y \in 1..Len(s) /\ y + 1 \in 1..Len(s) /\ y + 1 = (i + (x + 1)) + 1 /\ x + 1 \in 0..N
      BY <1>1
    <2>2. LastTimeOf(s[i]) <= FirstTimeOf(s[y])
      BY <1>5
    <2> HIDE DEF y
    <2>3. LastTimeOf(s[y]) <= FirstTimeOf(s[y + 1])
      BY <1>3, <2>1
    <2>4. s[y] \in FrameSet /\ s[y + 1] \in FrameSet /\ s[i] \in FrameSet
      BY <1>2, <2>1
    <2>5. FrameOrdered(s[y])
      BY <2>1 DEF Ordered
    <2>6. LastTimeOf(s[y]) \in TimesOf(s[y])
      BY <2>4, EndTimes
    <2>7. FirstTimeOf(s[y]) <= LastTimeOf(s[y])
      BY <2>4, <2>5, <2>6, OrderedBounds
    <2>8. FirstTimeOf(s[y]) \in Times /\ LastTimeOf(s[y]) \in Times
      BY <2>4, FrameFacts
    <2>9. FirstTimeOf(s[y + 1]) \in Times /\ LastTimeOf(s[i]) \in Times
      BY <2>4, FrameFacts
    <2>10. LastTimeOf(s[i]) <= FirstTimeOf(s[y + 1])
      BY <2>2, <2>3, <2>7, <2>8, <2>9 DEF Times
    <2> QED
      BY <2>1, <2>10
  <1> HIDE DEF T, N
  <1>6. \A x \in 0..N : x \in T
    BY <1>1, <1>4, <1>5, UpTo
  <1>7. (j - i) - 1 \in 0..N /\ (i + ((j - i) - 1)) + 1 = j
    BY <1>1 DEF N
  <1>8. (j - i) - 1 \in T
    BY <1>6, <1>7
  <1> QED
    BY <1>7, <1>8 DEF T

\* The first and the last time of an ordered sequence of batches bound its times.
LEMMA OrderedSpan ==
  ASSUME NEW s \in Seq(FrameSet), Ordered(s), NEW i \in 1..Len(s), NEW t \in TimesOf(s[i])
  PROVE  FirstTimeOf(s[1]) <= t /\ t <= LastTimeOf(s[Len(s)]) /\ t \in Times
  <1> DEFINE n == Len(s)
  <1>1. n \in Nat /\ 1 \in 1..n /\ n \in 1..n
    OBVIOUS
  <1>2. s[i] \in FrameSet /\ s[1] \in FrameSet /\ s[n] \in FrameSet
    BY <1>1
  <1>3. FrameOrdered(s[i]) /\ FrameOrdered(s[1]) /\ FrameOrdered(s[n])
    BY <1>1 DEF Ordered
  <1> HIDE DEF n
  <1>4. FirstTimeOf(s[i]) <= t /\ t <= LastTimeOf(s[i])
    BY <1>2, <1>3, OrderedBounds
  <1>5. t \in Times
    BY <1>2, EndTimes
  <1>6. FirstTimeOf(s[1]) <= FirstTimeOf(s[i])
    <2>1. CASE i = 1
      <3>1. FirstTimeOf(s[1]) \in Times
        BY <1>2, FrameFacts
      <3> QED
        BY <2>1, <3>1 DEF Times
    <2>2. CASE i # 1
      <3>1. 1 < i
        BY <1>1, <2>2
      <3>2. LastTimeOf(s[1]) <= FirstTimeOf(s[i])
        BY <1>1, <3>1, OrderedPairs DEF n
      <3>3. FirstTimeOf(s[1]) <= LastTimeOf(s[1])
        <4>1. LastTimeOf(s[1]) \in TimesOf(s[1])
          BY <1>2, EndTimes
        <4> QED
          BY <1>2, <1>3, <4>1, OrderedBounds
      <3>4. FirstTimeOf(s[1]) \in Times /\ LastTimeOf(s[1]) \in Times
        BY <1>2, FrameFacts
      <3>5. FirstTimeOf(s[i]) \in Times
        BY <1>2, FrameFacts
      <3> QED
        BY <3>2, <3>3, <3>4, <3>5 DEF Times
    <2> QED
      BY <2>1, <2>2
  <1>7. LastTimeOf(s[i]) <= LastTimeOf(s[n])
    <2>1. CASE i = n
      <3>1. LastTimeOf(s[n]) \in Times
        BY <1>2, FrameFacts
      <3> QED
        BY <2>1, <3>1 DEF Times
    <2>2. CASE i # n
      <3>1. i < n
        BY <1>1, <2>2 DEF n
      <3>2. LastTimeOf(s[i]) <= FirstTimeOf(s[n])
        BY <1>1, <3>1, OrderedPairs DEF n
      <3>3. FirstTimeOf(s[n]) <= LastTimeOf(s[n])
        <4>1. LastTimeOf(s[n]) \in TimesOf(s[n])
          BY <1>2, EndTimes
        <4> QED
          BY <1>2, <1>3, <4>1, OrderedBounds
      <3>4. FirstTimeOf(s[n]) \in Times /\ LastTimeOf(s[n]) \in Times
        BY <1>2, FrameFacts
      <3>5. LastTimeOf(s[i]) \in Times
        BY <1>2, FrameFacts
      <3> QED
        BY <3>2, <3>3, <3>4, <3>5 DEF Times
    <2> QED
      BY <2>1, <2>2
  <1>8. FirstTimeOf(s[1]) \in Times /\ LastTimeOf(s[n]) \in Times
    BY <1>2, FrameFacts
  <1>9. FirstTimeOf(s[i]) \in Times /\ LastTimeOf(s[i]) \in Times
    BY <1>2, FrameFacts
  <1> QED
    BY <1>4, <1>5, <1>6, <1>7, <1>8, <1>9 DEF Times, n

\* The header a checkpoint makes of the times of the log is true of its batches.
LEMMA LogTimes ==
  ASSUME NEW wf \in Seq(FrameSet), wf # <<>>, NEW s, s.minimum = Min(AllTimes(wf)),
         s.maximum = Max(AllTimes(wf)), s.ordered = Ordered(wf), s.size = 2
  PROVE  /\ HeaderTimes(s, wf) /\ s.minimum <= s.maximum
         /\ Ordered(wf) => s.minimum = FirstTimeOf(wf[1])
  <1> DEFINE n == Len(wf)
             A == AllTimes(wf)
  <1>1. n \in Nat /\ n >= 1 /\ DOMAIN wf = 1..n /\ 1 \in 1..n /\ n \in 1..n
    OBVIOUS
  <1>2. /\ A \subseteq Times /\ A \subseteq Nat /\ A # {}
        /\ Min(A) \in A /\ Max(A) \in A
    BY AllTimesFacts
  <1>3. \A t \in A : Min(A) <= t /\ Max(A) >= t
    BY AllTimesFacts
  <1>4. \A i \in 1..n : \A t \in TimesOf(wf[i]) : t \in A
    BY <1>1 DEF AllTimes
  <1> HIDE DEF A
  <1>5. s.minimum <= s.maximum
    BY <1>2, <1>3 DEF A
  <1>6. \A i \in 1..n : \A t \in TimesOf(wf[i]) : s.minimum <= t /\ t <= s.maximum
    <2>1. SUFFICES ASSUME NEW i \in 1..n, NEW t \in TimesOf(wf[i]) PROVE s.minimum <= t /\ t <= s.maximum
      OBVIOUS
    <2>2. t \in A
      BY <1>4
    <2>3. Min(A) <= t /\ Max(A) >= t /\ t \in Nat /\ Max(A) \in Nat
      BY <1>2, <1>3, <2>2
    <2> QED
      BY <2>3 DEF A
  <1>7. wf[1] \in FrameSet /\ wf[n] \in FrameSet
    BY <1>1
  <1>8. ASSUME Ordered(wf)
        PROVE  Min(A) = FirstTimeOf(wf[1]) /\ Max(A) = LastTimeOf(wf[n])
    <2>1. FirstTimeOf(wf[1]) \in TimesOf(wf[1])
      BY <1>7, EndTimes
    <2>2. LastTimeOf(wf[n]) \in TimesOf(wf[n])
      BY <1>7, EndTimes
    <2>3. FirstTimeOf(wf[1]) \in A /\ LastTimeOf(wf[n]) \in A
      BY <1>1, <1>4, <2>1, <2>2
    <2>4. ASSUME NEW t \in A PROVE FirstTimeOf(wf[1]) <= t /\ LastTimeOf(wf[n]) >= t
      <3>1. PICK i \in 1..n : t \in TimesOf(wf[i])
        BY <1>1 DEF A, AllTimes
      <3>2. FirstTimeOf(wf[1]) <= t /\ t <= LastTimeOf(wf[Len(wf)]) /\ t \in Times
        BY <1>8, <3>1, OrderedSpan
      <3>3. LastTimeOf(wf[n]) \in Times
        BY <1>7, FrameFacts
      <3> QED
        BY <3>2, <3>3 DEF Times
    <2>5. A \subseteq Int
      BY <1>2
    <2>6. Min(A) = FirstTimeOf(wf[1])
      BY <2>3, <2>4, <2>5, MinIs
    <2>7. Max(A) = LastTimeOf(wf[n])
      BY <2>3, <2>4, <2>5, MaxIs
    <2> QED
      BY <2>6, <2>7
  <1>9. s.ordered => /\ Ordered(wf)
                     /\ s.minimum = FirstTimeOf(wf[1]) /\ s.maximum = LastTimeOf(wf[Len(wf)])
    BY <1>8 DEF A
  <1>10. s.size = 1 => ~s.ordered
    OBVIOUS
  <1>11. HeaderTimes(s, wf)
    BY <1>6, <1>9, <1>10 DEF HeaderTimes
  <1> QED
    BY <1>5, <1>8, <1>11 DEF A

\* The header, the file and the end of it that a checkpoint writes.
InstalledHeader == EncodeSegment(h.installed + 1, h.sequence, h.end - WalStart, h.walMin, h.walMax,
                                 h.lastSegment, NewSkip, h.walOrdered)
InstalledAt == {o - WalStart + h.dataEnd + 2 : o \in DOMAIN wal}
InstalledFile ==
    [o \in DOMAIN db \cup {h.dataEnd} \cup InstalledAt |->
        IF o = h.dataEnd THEN InstalledHeader
        ELSE IF o \in InstalledAt THEN wal[o - h.dataEnd - 2 + WalStart]
        ELSE db[o]]
InstalledEnd == h.dataEnd + 2 + (h.end - WalStart)

\* The data before the new segment stays, and the log is copied after its header.
LEMMA InstalledCopies ==
  ASSUME NEW st, NEW sf, NEW sa, NEW wf, NEW wa, Stored(db, wal, manifest, h, st, sf, sa, wf, wa)
  PROVE  /\ Agree(db, InstalledFile, DataStart, h.dataEnd)
         /\ Moved(wal, InstalledFile, WalStart, h.end, h.dataEnd + 1)
         /\ h.dataEnd \in DOMAIN InstalledFile /\ InstalledFile[h.dataEnd] = InstalledHeader
  <1> DEFINE D == h.dataEnd
             e == InstalledFile
  <1>1. D \in Nat /\ Cells(wal) /\ Cells(db)
    BY StoredFacts
  <1>2. ASSUME NEW o \in InstalledAt PROVE o \in Nat /\ o >= D + 2
    <2>1. PICK x \in DOMAIN wal : o = x - WalStart + D + 2
      BY DEF InstalledAt
    <2>2. DOMAIN wal = {wa[i] : i \in 1..Len(wf)}
      BY DEF Stored, Log
    <2>3. PICK i \in 1..Len(wf) : x = wa[i]
      BY <2>1, <2>2
    <2>4. IsFrames(wal, WalStart, h.end, h.installed + 1, wf, wa) /\ Len(wf) \in Nat
      BY StoredFacts
    <2>5. i \in 1..(Len(wf) + 1) /\ i \in i..(Len(wf) + 1)
      BY <2>4
    <2>6. wa[i] \in Nat /\ WalStart <= wa[i]
      BY <2>4, <2>5, FramesGrow
    <2> QED
      BY <1>1, <2>1, <2>3, <2>6 DEF WalStart
  <1>3. D \in DOMAIN e /\ e[D] = InstalledHeader
    BY DEF InstalledFile
  <1>4. Agree(db, e, DataStart, D)
    <2>1. SUFFICES ASSUME NEW o \in Nat, o \in DOMAIN db, o < D PROVE o \in DOMAIN e /\ e[o] = db[o]
      BY DEF Agree
    <2>2. o # D /\ o \notin InstalledAt
      BY <1>1, <1>2, <2>1
    <2> QED
      BY <2>1, <2>2 DEF InstalledFile
  <1>5. Moved(wal, e, WalStart, h.end, D + 1)
    <2>1. SUFFICES ASSUME NEW o \in Nat, o \in DOMAIN wal PROVE o + (D + 1) \in DOMAIN e /\ e[o + (D + 1)] = wal[o]
      BY DEF Moved
    <2> DEFINE y == o + (D + 1)
    <2>2. y = o - WalStart + D + 2 /\ y - D - 2 + WalStart = o
      BY <1>1 DEF WalStart
    <2>3. y \in InstalledAt
      BY <2>1, <2>2 DEF InstalledAt
    <2>4. y # D
      BY <1>1, <1>2, <2>3
    <2> HIDE DEF y
    <2>5. y \in DOMAIN e /\ e[y] = wal[y - D - 2 + WalStart]
      BY <2>3, <2>4 DEF InstalledFile
    <2> QED
      BY <2>2, <2>5 DEF y
  <1> QED
    BY <1>3, <1>4, <1>5

\* The skip link of a new segment, where its number fits the table.
LEMMA NewSkipFound ==
  ASSUME NEW st, NEW sf, NEW sa, NEW wf, NEW wa, Stored(db, wal, manifest, h, st, sf, sa, wf, wa)
  PROVE  h.generation + 1 < Power[24] => NewSkip = StartOf(st, (h.generation + 1) - LowBit(h.generation + 1))
  <1> DEFINE n == h.generation
             t == (n + 1) - LowBit(n + 1)
  <1>1. /\ Layout(db, DataStart, h.dataEnd, n, st, sf, sa) /\ Linked(db, n, st) /\ n < Power[24]
        /\ h.dataEnd \in Nat /\ n \in Nat
    BY StoredFacts
  <1>2. h.lastSegment = StartOf(st, n)
    BY DEF Stored, HandleSays
  <1>3. SUFFICES ASSUME n + 1 < Power[24] PROVE NewSkip = StartOf(st, t)
    OBVIOUS
  <1>4. LowBit(n + 1) \in 1..(n + 1)
    <2>1. n + 1 \in Nat /\ n + 1 # 0
      BY <1>1
    <2> QED
      BY <1>3, <2>1, BitFacts
  <1>5. t \in 0..n /\ t = n + 1 - LowBit(n + 1)
    BY <1>1, <1>4
  <1> HIDE DEF t
  <1>6. CASE t = 0
    BY <1>5, <1>6 DEF NewSkip, StartOf
  <1>7. CASE t # 0
    <2>1. t \in 1..n
      BY <1>5, <1>7
    <2>2. h.dataEnd <= h.dataEnd /\ h.dataEnd \in Int
      BY <1>1
    <2>3. SegmentAt(db, h.dataEnd, n, StartOf(st, n), t) = st[t]
      BY <1>1, <2>1, <2>2, SegmentFound
    <2>4. NewSkip = SegmentAt(db, h.dataEnd, n, h.lastSegment, t)
      BY <1>5, <1>7 DEF NewSkip
    <2> QED
      BY <1>2, <1>7, <2>3, <2>4 DEF StartOf
  <1> QED
    BY <1>6, <1>7

\* What is at the start of a segment, or 0 where there is none, is a number.
LEMMA StartNat ==
  ASSUME NEW d, NEW root, NEW end, NEW n, NEW st, NEW sf, NEW sa, Layout(d, root, end, n, st, sf, sa),
         NEW k \in 0..(n + 1)
  PROVE  StartOf(st, k) \in Nat
  <1>1. n \in Nat /\ \A x \in 1..(n + 1) : st[x] \in Nat
    BY LayoutFacts
  <1>2. k = 0 \/ k \in 1..(n + 1)
    BY <1>1
  <1> QED
    BY <1>1, <1>2 DEF StartOf

\* The number of a new segment fits the table if the file fits the capacity.
LEMMA InstalledFits ==
  ASSUME NEW st, NEW sf, NEW sa, NEW wf, NEW wa, Stored(db, wal, manifest, h, st, sf, sa, wf, wa),
         wf # <<>>, InstalledEnd <= DbCapacity
  PROVE  h.generation + 1 < Power[24]
  <1> DEFINE n == h.generation
  <1>1. Layout(db, DataStart, h.dataEnd, n, st, sf, sa) /\ h.dataEnd \in Nat /\ n \in Nat
    BY StoredFacts
  <1>2. 1 \in 1..(n + 1) /\ 1 \in 1..(n + 1)
    BY <1>1
  <1>3. DataStart + (2 * n) <= h.dataEnd
    BY <1>1, <1>2, LayoutGrow
  <1>4. IsFrames(wal, WalStart, h.end, h.installed + 1, wf, wa) /\ Len(wf) \in Nat /\ h.end \in Nat
    BY StoredFacts
  <1>5. 1 \in 1..(Len(wf) + 1) /\ 1 \in 1..(Len(wf) + 1)
    BY <1>4
  <1>6. WalStart + Len(wf) <= h.end
    BY <1>4, <1>5, FramesGrow
  <1> DEFINE p == Power[24]
             D == h.dataEnd
             E == h.end
             k == Len(wf)
  <1>7. p \in Nat
    <2>1. 24 \in 0..24
      OBVIOUS
    <2> QED
      BY <2>1, Powers
  <1>8. DbCapacity <= 2 * p /\ DbCapacity \in Nat
    BY ReaderAssumption
  <1>9. 5 + (2 * n) <= D /\ D \in Nat /\ n \in Nat
    BY <1>1, <1>3 DEF DataStart
  <1>10. 1 + k <= E /\ E \in Nat /\ k \in Nat
    BY <1>4, <1>6 DEF WalStart
  <1>11. k # 0
    BY <1>4, StoredFacts
  <1>12. D + 2 + (E - 1) <= DbCapacity
    BY DEF InstalledEnd, WalStart
  <1> HIDE DEF p, D, E, k, n
  <1>13. n + 1 < p
    BY <1>7, <1>8, <1>9, <1>10, <1>11, <1>12
  <1> QED
    BY <1>13 DEF p, n

\* The new segment holds the batches of the log.
LEMMA InstalledSegment ==
  ASSUME NEW st, NEW sf, NEW sa, NEW wf, NEW wa, Stored(db, wal, manifest, h, st, sf, sa, wf, wa),
         wf # <<>>, InstalledEnd <= DbCapacity
  PROVE  /\ SegmentWhole(InstalledFile, h.dataEnd, wf, [i \in 1..(Len(wf) + 1) |-> wa[i] + (h.dataEnd + 1)])
         /\ After(h.dataEnd, InstalledFile[h.dataEnd]) = InstalledEnd
         /\ HeaderTimes(InstalledHeader, wf)
         /\ Ordered(wf) => InstalledHeader.minimum = FirstTimeOf(wf[1])
         /\ InstalledHeader \in SegmentSet
  <1> DEFINE n == h.generation
             D == h.dataEnd
             e == InstalledFile
             s == InstalledHeader
             S == NewSkip
             ax == [i \in 1..(Len(wf) + 1) |-> wa[i] + (D + 1)]
  <1>1. /\ Layout(db, DataStart, D, n, st, sf, sa)
        /\ D \in Nat /\ n \in Nat
    BY StoredFacts
  <1>2. /\ IsFrames(wal, WalStart, h.end, h.installed + 1, wf, wa) /\ Len(wf) \in Nat
        /\ wf \in Seq(FrameSet) /\ h.end \in Nat
    BY StoredFacts
  <1>3. Moved(wal, e, WalStart, h.end, D + 1) /\ D \in DOMAIN e /\ e[D] = s
    BY InstalledCopies
  <1>4. h.walMin = Min(AllTimes(wf)) /\ h.walMax = Max(AllTimes(wf)) /\ h.walOrdered = Ordered(wf)
    BY DEF Stored, HandleSays
  <1>5. h.lastSegment = StartOf(st, n) /\ h.sequence = h.installed + Len(wf) /\ h \in HandleSet
    BY DEF Stored, HandleSays
  <1>6. h.sequence \in 0..SeqMax
    BY StoredFacts
  <1>7. Len(wf) >= 1
    BY <1>2
  <1>8. h.end - WalStart \in Nat
    <2>1. 1 \in 1..(Len(wf) + 1) /\ 1 \in 1..(Len(wf) + 1)
      BY <1>2
    <2>2. WalStart + Len(wf) <= h.end
      BY <1>2, <2>1, FramesGrow
    <2> QED
      BY <1>2, <2>2 DEF WalStart
  <1>9. S \in Nat
    <2>1. n + 1 < Power[24]
      BY InstalledFits
    <2>2. S = StartOf(st, (n + 1) - LowBit(n + 1))
      BY <2>1, NewSkipFound
    <2>3. LowBit(n + 1) \in 1..(n + 1)
      <3>1. n + 1 \in Nat /\ n + 1 # 0
        BY <1>1
      <3> QED
        BY <2>1, <3>1, BitFacts
    <2>4. (n + 1) - LowBit(n + 1) \in 0..(n + 1)
      BY <1>1, <2>3
    <2> QED
      BY <1>1, <2>2, <2>4, StartNat
  <1> HIDE DEF S
  <1>10. /\ s.kind = "segment" /\ s.size = 2 /\ s.first = h.installed + 1 /\ s.last = h.sequence
         /\ s.body = h.end - WalStart /\ s.minimum = h.walMin /\ s.maximum = h.walMax
         /\ s.previous = h.lastSegment /\ s.skip = S /\ s.ordered = h.walOrdered
    BY DEF InstalledHeader, EncodeSegment, S
  <1>11. h.installed \in Nat /\ h.walMin \in Times /\ h.walMax \in Times /\ h.walOrdered \in BOOLEAN
         /\ h.lastSegment \in Nat
    BY <1>5 DEF HandleSet
  <1>12. h.installed + 1 \in 1..SeqMax /\ h.sequence \in 1..SeqMax /\ h.sequence = (h.installed + 1) + (Len(wf) - 1)
    BY <1>2, <1>5, <1>6, <1>7, <1>11, LimitAssumption
  <1>13. s \in SegmentSet
    <2> DEFINE f1 == h.installed + 1
               b1 == h.end - WalStart
    <2>1. f1 \in 1..SeqMax /\ b1 \in Nat
      BY <1>8, <1>12
    <2> HIDE DEF f1, b1
    <2>2. s = EncodeSegment(f1, h.sequence, b1, h.walMin, h.walMax, h.lastSegment, S, h.walOrdered)
      BY DEF InstalledHeader, f1, b1, S
    <2> QED
      BY <1>9, <1>11, <1>12, <2>1, <2>2 DEF SegmentSet, EncodeSegment
  <1> HIDE DEF s
  <1>14. HeaderTimes(s, wf) /\ s.minimum <= s.maximum /\ (Ordered(wf) => s.minimum = FirstTimeOf(wf[1]))
    BY <1>2, <1>4, <1>10, LogTimes
  <1>15. After(D, s) = InstalledEnd
    BY <1>1, <1>2, <1>10 DEF After, InstalledEnd, WalStart
  <1>16. IsFrames(e, WalStart + (D + 1), h.end + (D + 1), h.installed + 1, wf, ax)
    <2>1. D + 1 \in Int /\ WalStart + (D + 1) \in Nat
      BY <1>1 DEF WalStart
    <2> QED
      BY <1>2, <1>3, <2>1, FramesMove
  <1>17. WalStart + (D + 1) = D + s.size /\ h.end + (D + 1) = InstalledEnd
    BY SMTT(30), <1>1, <1>2, <1>10 DEF WalStart, InstalledEnd
  <1>18. SegmentWhole(e, D, wf, ax)
    <2> HIDE DEF ax
    <2>1. IsFrames(e, D + e[D].size, After(D, e[D]), e[D].first, wf, ax)
      BY <1>3, <1>10, <1>15, <1>16, <1>17
    <2>2. e[D].last = e[D].first + (Len(wf) - 1)
      BY <1>3, <1>10, <1>12
    <2> QED
      BY <1>3, <1>13, <1>14, <2>1, <2>2 DEF SegmentWhole
  <1> QED
    BY <1>3, <1>13, <1>14, <1>15, <1>18 DEF s

\* The handle and the manifest after a checkpoint.
InstalledHandle ==
    [h EXCEPT !.spanStart = NewSpan, !.installedTime = h.lastTime,
              !.generation = @ + 1, !.dataEnd = InstalledEnd,
              !.lastSegment = h.dataEnd, !.installed = h.sequence,
              !.end = WalStart, !.walOrdered = TRUE]
InstalledManifest ==
    [count |-> h.generation + 1, end |-> InstalledEnd, last |-> h.sequence,
     time |-> h.lastTime, tail |-> h.dataEnd, hasTime |-> TRUE, retain |-> h.retention]

\* The greatest time before the new segment is that of the last segment, where
\* that one belongs to the ordered suffix.
LEMMA PriorMaxIs ==
  ASSUME NEW st, NEW sf, NEW sa, NEW wf, NEW wa, Stored(db, wal, manifest, h, st, sf, sa, wf, wa)
  PROVE  /\ PriorMax \in Times
         /\ h.spanStart <= h.generation => PriorMax = db[st[h.generation]].maximum
         /\ h.retention /\ h.generation # 0 => PriorMax = db[st[h.generation]].maximum
         /\ h.spanStart <= h.generation /\ ~h.retention => h.installedTime = db[st[h.generation]].maximum
  <1> DEFINE n == h.generation
             x == h.spanStart
  <1>1. /\ n \in Nat /\ SpanIs(db, st, n, x) /\ TimesKept(db, n, st, sf) /\ h \in HandleSet
    BY StoredFacts
  <1>2. h.lastSegment = StartOf(st, n) /\ h.installedTime \in Times
    BY DEF Stored, HandleSays, HandleSet
  <1>3. ~h.retention /\ n # 0 => h.installedTime = LastTimeOf(sf[n][Len(sf[n])])
    BY DEF Stored, Segments
  <1>4. n # 0 => db[st[n]].maximum \in Times
    <2>1. SUFFICES ASSUME n # 0 PROVE db[st[n]].maximum \in Times
      OBVIOUS
    <2>2. n \in 1..n
      BY <1>1, <2>1
    <2>3. st[n] \in Nat /\ SegmentWhole(db, st[n], sf[n], sa[n])
      BY <2>2, StoredSegments
    <2> QED
      BY <2>3, WholeFacts
  <1>5. n # 0 => h.lastSegment = st[n]
    BY <1>2 DEF StartOf
  <1>6. x <= n => n # 0 /\ db[st[n]].ordered
    <2>1. SUFFICES ASSUME x <= n PROVE n # 0 /\ db[st[n]].ordered
      OBVIOUS
    <2>2. x \in 1..(n + 1) /\ \A k \in x..n : db[st[k]].ordered
      BY <1>1 DEF SpanIs
    <2>3. n \in x..n /\ n # 0
      BY <1>1, <2>1, <2>2
    <2> QED
      BY <2>2, <2>3
  <1>7. ASSUME x <= n, ~h.retention PROVE h.installedTime = db[st[n]].maximum
    <2>1. n # 0 /\ db[st[n]].ordered
      BY <1>6, <1>7
    <2>2. n \in 1..n
      BY <1>1, <2>1
    <2>3. HeaderTimes(db[st[n]], sf[n])
      BY <1>1, <2>2 DEF TimesKept
    <2>4. db[st[n]].maximum = LastTimeOf(sf[n][Len(sf[n])])
      BY <2>1, <2>3 DEF HeaderTimes
    <2> QED
      BY <1>3, <1>7, <2>1, <2>4
  <1>8. PriorMax \in Times
    BY <1>2, <1>4, <1>5 DEF PriorMax
  <1>9. h.retention /\ n # 0 => PriorMax = db[st[n]].maximum
    BY <1>5 DEF PriorMax
  <1>10. x <= n => PriorMax = db[st[n]].maximum
    <2>1. SUFFICES ASSUME x <= n PROVE PriorMax = db[st[n]].maximum
      OBVIOUS
    <2>2. CASE h.retention
      BY <1>6, <1>9, <2>1, <2>2
    <2>3. CASE ~h.retention
      <3>1. PriorMax = h.installedTime
        BY <2>3 DEF PriorMax
      <3> QED
        BY <1>7, <2>1, <2>3, <3>1
    <2> QED
      BY <2>2, <2>3
  <1> QED
    BY <1>7, <1>8, <1>9, <1>10

\* The fields of the handle after a checkpoint.
LEMMA InstalledFields ==
  ASSUME h \in HandleSet, InstalledEnd \in Nat, NewSpan \in Nat
  PROVE  LET x == InstalledHandle
         IN  /\ x \in HandleSet
             /\ x.dataEnd = InstalledEnd /\ x.generation = h.generation + 1 /\ x.installed = h.sequence
             /\ x.retention = h.retention /\ x.installedTime = h.lastTime
             /\ x.lastSegment = h.dataEnd /\ x.spanStart = NewSpan
             /\ x.walOrdered = TRUE /\ x.failed = h.failed
             /\ x.end = WalStart /\ x.sequence = h.sequence
             /\ x.lastTime = h.lastTime
  <1> DEFINE g == h.generation + 1
             E == InstalledEnd
             X == NewSpan
  <1>1. g \in Nat
    BY DEF HandleSet
  <1> HIDE DEF g, E, X
  <1>2. InstalledHandle = [h EXCEPT !.spanStart = X, !.installedTime = h.lastTime,
              !.generation = g, !.dataEnd = E,
              !.lastSegment = h.dataEnd, !.installed = h.sequence,
              !.end = 1, !.walOrdered = TRUE]
    BY DEF InstalledHandle, g, E, X, WalStart
  <1>3. X \in Nat /\ E \in Nat /\ 1 \in Nat /\ TRUE \in BOOLEAN
    BY DEF X, E
  <1>4. InstalledHandle \in HandleSet
    BY <1>1, <1>2, <1>3 DEF HandleSet
  <1> QED
    BY <1>2, <1>4 DEF HandleSet, g, E, X, WalStart

\* The empty log.
NoOffsetsLog == [i \in 1..1 |-> WalStart]

\* It is a log.
LEMMA EmptyLogIs ==
  ASSUME NEW last \in 0..SeqMax
  PROVE  Log(<<>>, WalStart, last, <<>>, NoOffsetsLog)
  <1>1. Len(<<>>) = 0 /\ DOMAIN <<>> = {} /\ <<>> \in Seq(FrameSet)
    OBVIOUS
  <1>2. Cells(<<>>)
    BY <1>1 DEF Cells
  <1>3. {NoOffsetsLog[i] : i \in 1..Len(<<>>)} = {}
    BY <1>1
  <1>4. NoOffsetsLog \in [1..(Len(<<>>) + 1) -> Nat] /\ NoOffsetsLog[1] = WalStart
    BY <1>1 DEF NoOffsetsLog, WalStart
  <1>5. IsFrames(<<>>, WalStart, WalStart, last + 1, <<>>, NoOffsetsLog)
    BY <1>1, <1>4 DEF IsFrames
  <1>6. WalStart <= WalCapacity
    BY ReaderAssumption
  <1>7. last \in Nat /\ last + Len(<<>>) <= SeqMax
    BY <1>1, LimitAssumption
  <1> QED
    BY <1>1, <1>2, <1>3, <1>5, <1>6, <1>7 DEF Log

\* Everything in the file after a checkpoint is a batch or a header before its end.
LEMMA InstalledCells ==
  ASSUME NEW st, NEW sf, NEW sa, NEW wf, NEW wa, Stored(db, wal, manifest, h, st, sf, sa, wf, wa),
         wf # <<>>, InstalledHeader \in SegmentSet
  PROVE  Cells(InstalledFile) /\ \A o \in DOMAIN InstalledFile : DataStart <= o /\ o < InstalledEnd
  <1> DEFINE D == h.dataEnd
             e == InstalledFile
  <1>1. D \in Nat /\ Cells(wal) /\ Cells(db)
    BY StoredFacts
  <1>2. Layout(db, DataStart, D, h.generation, st, sf, sa) /\ h.generation \in Nat
    BY StoredFacts
  <1>3. DataStart <= D
    <2>1. 1 \in 1..(h.generation + 1) /\ 1 \in 1..(h.generation + 1)
      BY <1>2
    <2>2. DataStart + (2 * h.generation) <= D
      BY <1>2, <2>1, LayoutGrow
    <2> QED
      BY <1>1, <1>2, <2>2 DEF DataStart
  <1>4. IsFrames(wal, WalStart, h.end, h.installed + 1, wf, wa) /\ Len(wf) \in Nat /\ h.end \in Nat
    BY StoredFacts
  <1>5. \A o \in DOMAIN db : DataStart <= o /\ o < D
    BY DEF Stored, Segments
  <1>6. DOMAIN wal = {wa[i] : i \in 1..Len(wf)}
    BY DEF Stored, Log
  <1>7. DOMAIN e = (DOMAIN db \cup {D}) \cup InstalledAt
    BY DEF InstalledFile
  <1>8. WalStart < h.end
    <2>1. 1 \in 1..(Len(wf) + 1) /\ 1 \in 1..(Len(wf) + 1)
      BY <1>4
    <2>2. WalStart + Len(wf) <= h.end
      BY <1>4, <2>1, FramesGrow
    <2>3. Len(wf) # 0
      BY <1>4, StoredFacts
    <2> QED
      BY <1>4, <2>2, <2>3 DEF WalStart
  <1>9. ASSUME NEW o \in DOMAIN e
        PROVE  /\ o \in Nat /\ e[o] \in FrameSet \cup SegmentSet
               /\ DataStart <= o /\ o < InstalledEnd
    <2>1. CASE o = D
      <3>1. e[o] = InstalledHeader
        BY <2>1 DEF InstalledFile
      <3>2. o < InstalledEnd
        BY <1>1, <1>4, <1>8, <2>1 DEF InstalledEnd, WalStart
      <3> QED
        BY <1>1, <1>3, <2>1, <3>1, <3>2
    <2>2. CASE o # D /\ o \in InstalledAt
      <3>1. PICK y \in DOMAIN wal : o = y - WalStart + D + 2
        BY <2>2 DEF InstalledAt
      <3>2. PICK i \in 1..Len(wf) : y = wa[i]
        BY <1>6, <3>1
      <3>3. wal[y] = wf[i] /\ wf[i] \in FrameSet
        BY <1>4, <3>2 DEF IsFrames
      <3>4. FrameSize(wf[i]) \in Nat /\ FrameSize(wf[i]) >= 1
        BY <3>3, FrameFacts
      <3>5. i \in 1..(Len(wf) + 1) /\ i \in i..(Len(wf) + 1) /\ i < Len(wf) + 1
        BY <1>4
      <3>6. wa[i] \in Nat /\ WalStart <= wa[i]
        BY <1>4, <3>5, FramesGrow
      <3>7. wa[i] + FrameSize(wf[i]) <= h.end
        BY <1>4, <3>5, FramesGrow
      <3>8. y \in Nat /\ WalStart <= y /\ y < h.end
        BY <1>4, <3>2, <3>4, <3>6, <3>7
      <3>9. o - D - 2 + WalStart = y
        BY <1>1, <3>1, <3>8 DEF WalStart
      <3>10. e[o] = wal[o - D - 2 + WalStart]
        BY <2>2 DEF InstalledFile
      <3>11. e[o] \in FrameSet
        BY <3>3, <3>9, <3>10
      <3>12. o \in Nat /\ D <= o /\ o < InstalledEnd
        BY <1>1, <1>4, <3>1, <3>8 DEF InstalledEnd, WalStart
      <3> QED
        BY <1>1, <1>3, <3>11, <3>12 DEF DataStart
    <2>3. CASE o # D /\ o \notin InstalledAt
      <3>1. o \in DOMAIN db /\ e[o] = db[o]
        BY <1>7, <2>3 DEF InstalledFile
      <3>2. o \in Nat /\ db[o] \in FrameSet \cup SegmentSet
        BY <1>1, <3>1 DEF Cells
      <3>3. DataStart <= o /\ o < D
        BY <1>5, <3>1
      <3>4. D < InstalledEnd /\ InstalledEnd \in Nat
        BY <1>1, <1>4, <1>8 DEF InstalledEnd, WalStart
      <3> QED
        BY <1>1, <3>1, <3>2, <3>3, <3>4
    <2> QED
      BY <2>1, <2>2, <2>3
  <1> QED
    BY <1>9 DEF Cells

\* The offsets, the batches and their offsets with the new segment.
InstalledStarts(st) == Longer(st, h.generation + 1, InstalledEnd)
InstalledPlaces(wf, wa) == [i \in 1..(Len(wf) + 1) |-> wa[i] + (h.dataEnd + 1)]

\* The segments after a checkpoint: the old ones, and the log as the last one.
InstalledAre(st, sf, sa, wf, wa) ==
    /\ Layout(InstalledFile, DataStart, InstalledEnd, h.generation + 1, InstalledStarts(st),
              Longer(sf, h.generation, wf), Longer(sa, h.generation, InstalledPlaces(wf, wa)))
    /\ \A k \in 1..(h.generation + 1) : InstalledStarts(st)[k] = st[k]
    /\ \A k \in 1..h.generation : /\ InstalledFile[st[k]] = db[st[k]]
                                  /\ Longer(sf, h.generation, wf)[k] = sf[k]
                                  /\ Longer(sa, h.generation, InstalledPlaces(wf, wa))[k] = sa[k]
    /\ Longer(sf, h.generation, wf)[h.generation + 1] = wf
    /\ Longer(sa, h.generation, InstalledPlaces(wf, wa))[h.generation + 1] = InstalledPlaces(wf, wa)
    /\ st[h.generation + 1] = h.dataEnd
    /\ InstalledFile[h.dataEnd] = InstalledHeader

\* A checkpoint lays them out so.
LEMMA InstalledLayout ==
  ASSUME NEW st, NEW sf, NEW sa, NEW wf, NEW wa, Stored(db, wal, manifest, h, st, sf, sa, wf, wa),
         wf # <<>>, InstalledEnd <= DbCapacity
  PROVE  InstalledAre(st, sf, sa, wf, wa)
  <1> DEFINE n == h.generation
             D == h.dataEnd
             e == InstalledFile
             ax == InstalledPlaces(wf, wa)
  <1>1. /\ Layout(db, DataStart, D, n, st, sf, sa) /\ D \in Nat /\ n \in Nat
    BY StoredFacts
  <1>2. h.installed \in 0..SeqMax
    BY StoredFacts
  <1>3. LastOf(db, st, n) <= h.installed
    BY StoredFacts
  <1>4. Agree(db, e, DataStart, D) /\ e[D] = InstalledHeader
    BY InstalledCopies
  <1>5. SegmentWhole(e, D, wf, ax) /\ After(D, e[D]) = InstalledEnd
    BY InstalledSegment DEF InstalledPlaces
  <1>6. InstalledHeader.first = h.installed + 1
    BY DEF InstalledHeader, EncodeSegment
  <1>7. n # 0 => db[st[n]].last < e[D].first
    <2>1. SUFFICES ASSUME n # 0 PROVE db[st[n]].last < h.installed + 1
      BY <1>4, <1>6
    <2>2. n \in 0..n
      BY <1>1
    <2>3. LastOf(db, st, n) \in 0..SeqMax
      BY <1>1, <2>2, SequencesGrow
    <2>4. LastOf(db, st, n) = db[st[n]].last
      BY <2>1 DEF LastOf
    <2> QED
      BY <1>2, <1>3, <2>3, <2>4, LimitAssumption
  <1> HIDE DEF e, ax, D
  <1>8. /\ Layout(e, DataStart, After(D, e[D]), n + 1, Longer(st, n + 1, After(D, e[D])),
                   Longer(sf, n, wf), Longer(sa, n, ax))
    BY <1>1, <1>4, <1>5, <1>7, LayoutExtends
  <1>9. \A k \in 1..(n + 1) : Longer(st, n + 1, After(D, e[D]))[k] = st[k]
    BY <1>1, <1>4, <1>5, <1>7, LayoutExtends
  <1>10. \A k \in 1..n : e[st[k]] = db[st[k]] /\ Longer(sf, n, wf)[k] = sf[k]
                                              /\ Longer(sa, n, ax)[k] = sa[k]
    BY <1>1, <1>4, <1>5, <1>7, LayoutExtends
  <1>11. Longer(sf, n, wf)[n + 1] = wf /\ Longer(sa, n, ax)[n + 1] = ax /\ st[n + 1] = D
    BY <1>1, <1>4, <1>5, <1>7, LayoutExtends
  <1> QED
    BY <1>4, <1>5, <1>8, <1>9, <1>10, <1>11 DEF InstalledAre, InstalledStarts, e, ax, D

\* A checkpoint leaves segments that fit.
LEMMA InstalledSegments ==
  ASSUME NEW st, NEW sf, NEW sa, NEW wf, NEW wa, Stored(db, wal, manifest, h, st, sf, sa, wf, wa),
         wf # <<>>, InstalledEnd <= DbCapacity
  PROVE  /\ Segments(InstalledFile, InstalledEnd, h.generation + 1, h.sequence, h.retention, h.lastTime,
                     InstalledStarts(st), Longer(sf, h.generation, wf),
                     Longer(sa, h.generation, InstalledPlaces(wf, wa)))
         /\ SpanIs(InstalledFile, InstalledStarts(st), h.generation + 1, NewSpan)
  <1> DEFINE n == h.generation
             D == h.dataEnd
             e == InstalledFile
             s == InstalledHeader
             tt == InstalledStarts(st)
             sg == Longer(sf, n, wf)
             sb == Longer(sa, n, InstalledPlaces(wf, wa))
  <1>1. /\ Layout(db, DataStart, D, n, st, sf, sa) /\ Linked(db, n, st) /\ TimesKept(db, n, st, sf)
        /\ D \in Nat /\ n \in Nat /\ SpanIs(db, st, n, h.spanStart)
    BY StoredFacts
  <1>2. /\ Layout(e, DataStart, InstalledEnd, n + 1, tt, sg, sb)
        /\ e[D] = s /\ st[n + 1] = D
    BY InstalledLayout DEF InstalledAre
  <1>3. \A k \in 1..(n + 1) : tt[k] = st[k]
    BY InstalledLayout DEF InstalledAre
  <1>4. \A k \in 1..n : e[st[k]] = db[st[k]] /\ sg[k] = sf[k]
    BY InstalledLayout DEF InstalledAre
  <1>5. sg[n + 1] = wf
    BY InstalledLayout DEF InstalledAre
  <1>6. HeaderTimes(s, wf) /\ (Ordered(wf) => s.minimum = FirstTimeOf(wf[1])) /\ s \in SegmentSet
    BY InstalledSegment
  <1>7. Cells(e) /\ \A o \in DOMAIN e : DataStart <= o /\ o < InstalledEnd
    BY <1>6, InstalledCells
  <1>8. n + 1 < Power[24]
    BY InstalledFits
  <1>9. /\ s.size = 2 /\ s.first = h.installed + 1 /\ s.last = h.sequence
        /\ s.previous = h.lastSegment /\ s.skip = NewSkip /\ s.ordered = h.walOrdered
    BY DEF InstalledHeader, EncodeSegment
  <1>10. /\ h.lastSegment = StartOf(st, n) /\ h \in HandleSet /\ h.walOrdered = Ordered(wf)
         /\ h.lastTime = LastTimeOf(wf[Len(wf)]) /\ h.walFirst = FirstTimeOf(wf[1])
    BY DEF Stored, HandleSays
  <1>11. NewSkip = StartOf(st, (n + 1) - LowBit(n + 1))
    BY <1>8, NewSkipFound
  <1> HIDE DEF e, s, tt, sg, sb
  <1>12. Linked(e, n + 1, tt)
    <2>1. IF e[st[n + 1]].size = 2
          THEN e[st[n + 1]].previous = StartOf(st, n) /\ e[st[n + 1]].skip = StartOf(st, (n + 1) - LowBit(n + 1))
          ELSE e[st[n + 1]].previous = 0 /\ e[st[n + 1]].skip = 0
      BY <1>2, <1>9, <1>10, <1>11
    <2>2. \A k \in 1..n : e[st[k]] = db[st[k]]
      BY <1>4
    <2> HIDE DEF n
    <2> QED
      BY <1>1, <1>3, <1>8, <2>1, <2>2, LinkedExtends
  <1>13. n + 1 \in 1..(n + 1) /\ 1..n \subseteq 1..(n + 1)
    BY <1>1
  <1>14. TimesKept(e, n + 1, tt, sg)
    <2>1. SUFFICES ASSUME NEW k \in 1..(n + 1) PROVE HeaderTimes(e[tt[k]], sg[k])
      BY DEF TimesKept
    <2>2. tt[k] = st[k]
      BY <1>3
    <2>3. CASE k = n + 1
      BY <1>2, <1>5, <1>6, <2>2, <2>3
    <2>4. CASE k # n + 1
      <3>1. k \in 1..n
        BY <1>1, <2>4
      <3> QED
        BY <1>1, <1>4, <2>2, <3>1 DEF TimesKept
    <2> QED
      BY <2>3, <2>4
  <1>15. h.sequence \in 0..SeqMax /\ h.retention \in BOOLEAN
    BY StoredFacts
  <1>16. h.lastTime \in Times
    BY <1>10 DEF HandleSet
  <1>17. e[tt[n + 1]] = s
    BY <1>2, <1>3, <1>13
  <1>18. LastOf(e, tt, n + 1) = h.sequence
    <2>1. n + 1 # 0
      BY <1>1
    <2> QED
      BY <1>9, <1>17, <2>1 DEF LastOf
  <1>19. ASSUME NEW k \in 0..n PROVE LastOf(e, tt, k) = LastOf(db, st, k)
    <2>1. CASE k = 0
      BY <2>1 DEF LastOf
    <2>2. CASE k # 0
      <3>1. k \in 1..n /\ k \in 1..(n + 1)
        BY <1>1, <2>2
      <3> QED
        BY <1>3, <1>4, <2>2, <3>1 DEF LastOf
    <2> QED
      BY <2>1, <2>2
  <1>20. ~h.retention => Numbered(e, tt, n + 1)
    <2>1. SUFFICES ASSUME ~h.retention, NEW k \in 1..(n + 1) PROVE e[tt[k]].first = LastOf(e, tt, k - 1) + 1
      BY DEF Numbered
    <2>2. k - 1 \in 0..n
      BY <1>1
    <2>3. LastOf(e, tt, k - 1) = LastOf(db, st, k - 1)
      BY <1>19, <2>2
    <2>4. LastOf(db, st, n) = h.installed /\ Numbered(db, st, n)
      BY <2>1, StoredFacts
    <2>5. CASE k = n + 1
      <3>1. k - 1 = n
        BY <1>1, <2>5
      <3> QED
        BY <1>9, <1>17, <2>3, <2>4, <2>5, <3>1
    <2>6. CASE k # n + 1
      <3>1. k \in 1..n
        BY <1>1, <2>6
      <3> QED
        BY <1>3, <1>4, <2>3, <2>4, <3>1 DEF Numbered
    <2> QED
      BY <2>5, <2>6
  <1>21. SpanIs(e, tt, n + 1, NewSpan)
    <2> DEFINE pm == PriorMax
               x == h.spanStart
    <2>1. pm \in Times /\ (x <= n => pm = db[st[n]].maximum)
      BY PriorMaxIs
    <2>2. pm \in Int
      BY <2>1 DEF Times
    <2>3. s.minimum \in Int
      BY <1>6 DEF SegmentSet, Times
    <2>4. NewSpan = NextSpan(s, n, pm, x)
      <3>1. CASE h.walOrdered
        <4>1. s.minimum = h.walFirst
          BY <1>6, <1>10, <3>1
        <4> QED
          BY <1>9, <3>1, <4>1 DEF NewSpan, NextSpan
      <3>2. CASE ~h.walOrdered
        BY <1>9, <3>2 DEF NewSpan, NextSpan
      <3> QED
        BY <3>1, <3>2
    <2> HIDE DEF pm, x
    <2>5. \A k \in 1..n : e[tt[k]] = db[st[k]]
      BY <1>3, <1>4, <1>13
    <2>6. SpanIs(db, st, n, x)
      BY <1>1 DEF x
    <2> HIDE DEF n
    <2>7. SpanIs(e, tt, n + 1, NextSpan(e[tt[n + 1]], n, pm, x))
      <3>1. e[tt[n + 1]].minimum \in Int
        BY <1>17, <2>3
      <3>2. x <= n => pm = db[st[n]].maximum
        BY <2>1
      <3>3. n \in Nat
        BY <1>1
      <3> QED
        BY <2>2, <2>5, <2>6, <3>1, <3>2, <3>3, SpanNext DEF SpanGoesOn
    <2> QED
      BY <1>17, <2>4, <2>7
  <1>22. IF h.retention THEN LastOf(e, tt, n + 1) <= h.sequence
         ELSE LastOf(e, tt, n + 1) = h.sequence /\ Numbered(e, tt, n + 1)
    BY <1>15, <1>18, <1>20, LimitAssumption
  <1>23. h.lastTime = LastTimeOf(sg[n + 1][Len(sg[n + 1])])
    BY <1>5, <1>10
  <1>24. Segments(e, InstalledEnd, n + 1, h.sequence, h.retention, h.lastTime, tt, sg, sb)
    BY <1>2, <1>7, <1>12, <1>14, <1>15, <1>16, <1>22, <1>23 DEF Segments
  <1> QED
    BY <1>21, <1>24 DEF e, tt, sg, sb

\* A checkpoint leaves files and a handle that fit.
LEMMA InstalledStored ==
  ASSUME NEW st, NEW sf, NEW sa, NEW wf, NEW wa, Stored(db, wal, manifest, h, st, sf, sa, wf, wa),
         wf # <<>>, InstalledEnd <= DbCapacity
  PROVE  Stored(InstalledFile, <<>>, InstalledManifest, InstalledHandle, InstalledStarts(st),
                Longer(sf, h.generation, wf), Longer(sa, h.generation, InstalledPlaces(wf, wa)),
                <<>>, NoOffsetsLog)
  <1> DEFINE n == h.generation
             x == InstalledHandle
             m == InstalledManifest
             tt == InstalledStarts(st)
             sg == Longer(sf, n, wf)
             sb == Longer(sa, n, InstalledPlaces(wf, wa))
  <1>1. Segments(InstalledFile, InstalledEnd, n + 1, h.sequence, h.retention, h.lastTime, tt, sg, sb)
    BY InstalledSegments
  <1>2. SpanIs(InstalledFile, tt, n + 1, NewSpan)
    BY InstalledSegments
  <1>3. n \in Nat /\ h.failed = FALSE /\ h \in HandleSet
    BY StoredFacts
  <1>4. h.sequence \in 0..SeqMax
    BY StoredFacts
  <1>5. Log(<<>>, WalStart, h.sequence, <<>>, NoOffsetsLog)
    BY <1>4, EmptyLogIs
  <1>6. NewSpan \in Nat /\ InstalledEnd \in Nat
    <2>1. NewSpan \in 1..((n + 1) + 1)
      BY <1>2 DEF SpanIs
    <2>2. Layout(InstalledFile, DataStart, InstalledEnd, n + 1, tt, sg, sb)
      BY <1>1 DEF Segments
    <2>3. InstalledEnd \in Nat
      BY <2>2, LayoutFacts
    <2> QED
      BY <1>3, <2>1, <2>3
  <1>7. /\ x \in HandleSet
        /\ x.dataEnd = InstalledEnd /\ x.generation = n + 1 /\ x.installed = h.sequence
        /\ x.retention = h.retention /\ x.installedTime = h.lastTime
        /\ x.lastSegment = h.dataEnd /\ x.spanStart = NewSpan
        /\ x.walOrdered = TRUE /\ x.failed = h.failed
        /\ x.end = WalStart /\ x.sequence = h.sequence
        /\ x.lastTime = h.lastTime
    BY <1>3, <1>6, InstalledFields
  <1>8. /\ m.count = n + 1 /\ m.end = InstalledEnd /\ m.last = h.sequence
        /\ m.time = h.lastTime /\ m.tail = h.dataEnd /\ m.hasTime = TRUE /\ m.retain = h.retention
    BY DEF InstalledManifest
  <1> HIDE DEF x, m
  <1>9. ManifestOf(m, x)
    BY <1>7, <1>8 DEF ManifestOf, ManifestTimes
  <1>10. h.dataEnd = StartOf(tt, n + 1)
    <2>1. tt[n + 1] = st[n + 1] /\ st[n + 1] = h.dataEnd
      <3>1. n + 1 \in 1..(n + 1)
        BY <1>3
      <3>2. \A k \in 1..(n + 1) : tt[k] = st[k]
        BY InstalledLayout DEF InstalledAre
      <3>3. st[n + 1] = h.dataEnd
        BY InstalledLayout DEF InstalledAre
      <3> QED
        BY <3>1, <3>2, <3>3
    <2>2. n + 1 # 0
      BY <1>3
    <2> QED
      BY <2>1, <2>2 DEF StartOf
  <1>11. Ordered(<<>>) = TRUE /\ Len(<<>>) = 0
    <2>1. DOMAIN <<>> = {} /\ 2..Len(<<>>) = {} /\ Len(<<>>) = 0
      OBVIOUS
    <2> QED
      BY <2>1 DEF Ordered
  <1>12. h.sequence = h.sequence + Len(<<>>)
    BY <1>4, <1>11, LimitAssumption
  <1>13. HandleSays(InstalledFile, x, tt, <<>>)
    BY <1>2, <1>3, <1>7, <1>10, <1>11, <1>12 DEF HandleSays
  <1> HIDE DEF tt, sg, sb
  <1> QED
    BY <1>1, <1>5, <1>7, <1>9, <1>13 DEF Stored, x, m, tt, sg, sb

\* The cursor goes on where it stood, in the log's new place.
LEMMA InstalledCursor ==
  ASSUME NEW st, NEW sf, NEW sa, NEW wf, NEW wa, Stored(db, wal, manifest, h, st, sf, sa, wf, wa),
         wf # <<>>, InstalledEnd <= DbCapacity,
         NEW cur, NEW k, NEW j, At(db, h, st, sf, sa, wf, wa, cur, k, j)
  PROVE  \E p, q : At(InstalledFile, InstalledHandle, InstalledStarts(st), Longer(sf, h.generation, wf),
                      Longer(sa, h.generation, InstalledPlaces(wf, wa)), <<>>, NoOffsetsLog,
                      Translated(cur, h.dataEnd, InstalledEnd), p, q)
  <1> DEFINE n == h.generation
             D == h.dataEnd
             e == InstalledFile
             x == InstalledHandle
             tt == InstalledStarts(st)
             sg == Longer(sf, n, wf)
             ax == InstalledPlaces(wf, wa)
             sb == Longer(sa, n, ax)
             nc == Translated(cur, D, InstalledEnd)
  <1>1. Stored(e, <<>>, InstalledManifest, x, tt, sg, sb, <<>>, NoOffsetsLog)
    BY InstalledStored
  <1>2. x.generation = n + 1
    BY DEF InstalledHandle, Stored, HandleSays, HandleSet
  <1>3. n \in Nat /\ D \in Nat /\ Len(wf) \in Nat /\ wf \in Seq(FrameSet) /\ h.end \in Nat
    BY StoredFacts
  <1>4. IsFrames(wal, WalStart, h.end, h.installed + 1, wf, wa)
    BY StoredFacts
  <1>5. h.sequence = h.installed + Len(wf)
    BY DEF Stored, HandleSays
  <1>6. h.sequence \in 0..SeqMax /\ h.installed \in 0..SeqMax
    BY StoredFacts
  <1>7. \A y \in 1..(n + 1) : tt[y] = st[y]
    BY InstalledLayout DEF InstalledAre
  <1>8. \A y \in 1..n : e[st[y]] = db[st[y]] /\ sg[y] = sf[y] /\ sb[y] = sa[y]
    BY InstalledLayout DEF InstalledAre
  <1>9. sg[n + 1] = wf /\ sb[n + 1] = ax /\ st[n + 1] = D /\ e[D] = InstalledHeader
    BY InstalledLayout DEF InstalledAre
  <1>10. tt[n + 2] = InstalledEnd /\ InstalledEnd \in Nat
    <2>1. Layout(e, DataStart, InstalledEnd, n + 1, tt, sg, sb)
      BY InstalledLayout DEF InstalledAre
    <2>2. tt[(n + 1) + 1] = InstalledEnd /\ InstalledEnd \in Nat
      BY <2>1, LayoutFacts
    <2>3. (n + 1) + 1 = n + 2
      BY <1>3
    <2> QED
      BY <2>2, <2>3
  <1>11. cur \in CursorType
    BY DEF At
  <1> HIDE DEF n, D, e, x, tt, sg, sb, nc, ax
  <1>12. CASE InLog(h, wf, wa, cur, k, j)
    <2>1. /\ cur.inWal = TRUE /\ j \in 1..(Len(wf) + 1)
          /\ cur.cursor = wa[j] /\ cur.readSequence = Wrap(h.installed + j)
      BY <1>12 DEF InLog
    <2>2. j \in 1..(Len(wf) + 1) /\ j \in j..(Len(wf) + 1)
      BY <1>3, <2>1
    <2>3. wa[j] \in Nat /\ WalStart <= wa[j]
      BY <1>4, <2>2, FramesGrow
    <2> DEFINE at == D + 2 + cur.cursor - WalStart
    <2>4. at = wa[j] + (D + 1) /\ at \in Nat
      BY <1>3, <2>1, <2>3 DEF WalStart
    <2> HIDE DEF at
    <2>5. nc = [cur EXCEPT !.inWal = FALSE, !.cursor = at, !.segmentEnd = InstalledEnd]
      BY <2>1 DEF nc, Translated, at, D
    <2>6. /\ nc \in CursorType /\ nc.inWal = FALSE /\ nc.cursor = at /\ nc.segmentEnd = InstalledEnd
          /\ nc.readSequence = cur.readSequence
      <3> DEFINE E == InstalledEnd
      <3>1. E \in Nat
        BY <1>10
      <3> HIDE DEF E
      <3>2. nc = [cur EXCEPT !.inWal = FALSE, !.cursor = at, !.segmentEnd = E]
        BY <2>5 DEF E
      <3>3. /\ nc \in CursorType /\ nc.inWal = FALSE /\ nc.cursor = at /\ nc.segmentEnd = E
            /\ nc.readSequence = cur.readSequence
        BY <1>11, <2>4, <3>1, <3>2 DEF CursorType
      <3> QED
        BY <3>3 DEF E
    <2>7. ax[j] = at
      BY <2>1, <2>4 DEF ax, InstalledPlaces, D
    <2>8. CASE j \in 1..Len(wf)
      <3>1. n + 1 \in 1..(n + 1) /\ (n + 1) + 1 = n + 2
        BY <1>3
      <3>2. wf[j].seq = h.installed + j
        BY <2>8, LogNumbers
      <3>3. h.installed + j \in Nat /\ h.installed + j <= SeqMax
        BY <1>3, <1>5, <1>6, <2>8, LimitAssumption
      <3>4. Wrap(h.installed + j) = h.installed + j
        BY <3>3, WrapFacts
      <3>5. nc.readSequence = sg[n + 1][j].seq
        BY <1>9, <2>1, <2>6, <3>2, <3>4
      <3>6. InSegment(x, tt, sg, sb, nc, n + 1, j)
        BY <1>2, <1>9, <1>10, <2>6, <2>7, <2>8, <3>1, <3>5 DEF InSegment, n
      <3>7. At(e, x, tt, sg, sb, <<>>, NoOffsetsLog, nc, n + 1, j)
        BY <2>6, <3>6 DEF At
      <3> QED
        BY <3>7 DEF n, D, e, x, tt, sg, sb, nc, ax
    <2>9. CASE j = Len(wf) + 1
      <3>1. wa[j] = h.end
        BY <1>4, <2>9 DEF IsFrames
      <3>2. at = InstalledEnd
        BY <1>3, <2>4, <3>1 DEF InstalledEnd, WalStart, D
      <3>3. (n + 2) - 1 = n + 1 /\ n + 2 \in 1..((n + 1) + 1) /\ n + 1 # 0 /\ n + 1 \in 1..(n + 1)
        BY <1>3
      <3>4. LastOf(e, tt, n + 1) = h.sequence
        <4>1. InstalledHeader.last = h.sequence
          BY DEF InstalledHeader, EncodeSegment
        <4> QED
          BY <1>7, <1>9, <3>3, <4>1 DEF LastOf
      <3>5. h.installed + j = h.sequence + 1
        BY SMTT(30), <1>3, <1>5, <1>6, <2>9, LimitAssumption
      <3>6. nc.readSequence = Wrap(LastOf(e, tt, (n + 2) - 1) + 1)
        BY <2>1, <2>6, <3>3, <3>4, <3>5
      <3>7. Between(e, x, tt, nc, n + 2, 1)
        BY <1>2, <1>10, <2>6, <3>2, <3>3, <3>6 DEF Between, n
      <3>8. At(e, x, tt, sg, sb, <<>>, NoOffsetsLog, nc, n + 2, 1)
        BY <2>6, <3>7 DEF At
      <3> QED
        BY <3>8 DEF n, D, e, x, tt, sg, sb, nc, ax
    <2> QED
      BY <1>3, <2>1, <2>8, <2>9
  <1>13. CASE InSegment(h, st, sf, sa, cur, k, j)
    <2>1. cur.inWal = FALSE /\ k \in 1..n
      BY <1>13 DEF InSegment, n
    <2>2. nc = cur
      BY <2>1 DEF nc, Translated
    <2>3. k \in 1..(n + 1) /\ k + 1 \in 1..(n + 1)
      BY <1>3, <2>1
    <2>4. InSegment(x, tt, sg, sb, nc, k, j)
      BY <1>2, <1>7, <1>8, <1>13, <2>1, <2>2, <2>3 DEF InSegment, n
    <2>5. At(e, x, tt, sg, sb, <<>>, NoOffsetsLog, nc, k, j)
      BY <1>11, <2>2, <2>4 DEF At
    <2> QED
      BY <2>5 DEF n, D, e, x, tt, sg, sb, nc, ax
  <1>14. CASE Between(db, h, st, cur, k, j)
    <2>1. /\ cur.inWal = FALSE /\ k \in 1..(n + 1) /\ j = 1
          /\ cur.cursor = st[k] /\ cur.segmentEnd = st[k] /\ cur.readSequence = Wrap(LastOf(db, st, k - 1) + 1)
      BY <1>14 DEF Between, n
    <2>2. nc = cur
      BY <2>1 DEF nc, Translated
    <2>3. k \in 1..((n + 1) + 1) /\ k - 1 \in 0..n
      BY <1>3, <2>1
    <2>4. LastOf(e, tt, k - 1) = LastOf(db, st, k - 1)
      <3> DEFINE y == k - 1
      <3>1. y \in 0..n
        BY <2>3
      <3> HIDE DEF y
      <3>2. CASE y = 0
        BY <3>2 DEF LastOf, y
      <3>3. CASE y # 0
        <4>1. y \in 1..n /\ y \in 1..(n + 1)
          BY <1>3, <3>1, <3>3
        <4>2. e[tt[y]] = db[st[y]]
          BY <1>7, <1>8, <4>1
        <4> QED
          BY <3>3, <4>2 DEF LastOf, y
      <3> QED
        BY <3>2, <3>3
    <2>5. Between(e, x, tt, nc, k, j)
      BY <1>2, <1>7, <2>1, <2>2, <2>3, <2>4 DEF Between
    <2>6. At(e, x, tt, sg, sb, <<>>, NoOffsetsLog, nc, k, j)
      BY <1>11, <2>2, <2>5 DEF At
    <2> QED
      BY <2>6 DEF n, D, e, x, tt, sg, sb, nc, ax
  <1> QED
    BY <1>12, <1>13, <1>14 DEF At

\* A checkpoint preserves the invariant.
LEMMA CheckpointWhole ==
  ASSUME Whole(db, wal, manifest, h, c), Checkpoint
  PROVE  Whole(db, wal, manifest, h, c)'
  <1>1. PICK st, sf, sa, wf, wa : /\ Stored(db, wal, manifest, h, st, sf, sa, wf, wa)
                                  /\ \E k, j : At(db, h, st, sf, sa, wf, wa, c, k, j)
    BY DEF Whole
  <1>2. PICK k, j : At(db, h, st, sf, sa, wf, wa, c, k, j)
    BY <1>1
  <1>3. /\ h.end # WalStart
        /\ (h.end - WalStart) + 2 <= DbCapacity - h.dataEnd
    BY DEF Checkpoint
  <1>4. db' = InstalledFile
    BY DEF Checkpoint, InstalledFile, InstalledHeader, InstalledAt
  <1>5. manifest' = InstalledManifest
    BY DEF Checkpoint, InstalledManifest, InstalledEnd
  <1>6. wal' = <<>>
    BY DEF Checkpoint
  <1>7. h' = InstalledHandle
    BY DEF Checkpoint, InstalledHandle, InstalledEnd
  <1>8. c' = Translated(c, h.dataEnd, InstalledEnd)
    BY DEF Checkpoint, InstalledEnd
  <1>9. wf # <<>>
    BY <1>1, <1>3, EmptyLog
  <1>10. InstalledEnd <= DbCapacity
    <2>1. h.dataEnd \in Nat /\ h.end \in Nat
      BY <1>1, StoredFacts
    <2> QED
      BY <1>3, <2>1, ReaderAssumption DEF InstalledEnd, WalStart
  <1> DEFINE tt == InstalledStarts(st)
             sg == Longer(sf, h.generation, wf)
             sb == Longer(sa, h.generation, InstalledPlaces(wf, wa))
  <1>11. Stored(InstalledFile, <<>>, InstalledManifest, InstalledHandle, tt, sg, sb, <<>>, NoOffsetsLog)
    BY <1>1, <1>9, <1>10, InstalledStored
  <1>12. \E p, q : At(InstalledFile, InstalledHandle, tt, sg, sb, <<>>, NoOffsetsLog,
                      Translated(c, h.dataEnd, InstalledEnd), p, q)
    BY <1>1, <1>2, <1>9, <1>10, InstalledCursor
  <1> HIDE DEF tt, sg, sb
  <1>13. Whole(InstalledFile, <<>>, InstalledManifest, InstalledHandle, Translated(c, h.dataEnd, InstalledEnd))
    BY <1>11, <1>12 DEF Whole
  <1> QED
    BY <1>4, <1>5, <1>6, <1>7, <1>8, <1>13

------------------------------------------------------------------------------
(* The copy that expiry makes. *)

\* Later segments have later sequences.
LEMMA SequencesApart ==
  ASSUME NEW d, NEW root, NEW end, NEW n, NEW st, NEW sf, NEW sa, Layout(d, root, end, n, st, sf, sa),
         NEW a \in 1..n, NEW b \in 1..n, a < b
  PROVE  d[st[a]].last < d[st[b]].first
  <1> DEFINE N == (n - a) - 1
             T == {x \in 0..N : d[st[a]].last < d[st[(a + x) + 1]].first}
  <1>1. n \in Nat /\ N \in Nat
    BY LayoutFacts
  <1>2. ASSUME NEW y \in 1..n
        PROVE  d[st[y]].first \in 1..SeqMax /\ d[st[y]].last \in 1..SeqMax /\ d[st[y]].first <= d[st[y]].last
    <2>1. y \in 1..(n + 1)
      BY <1>1
    <2>2. st[y] \in Nat /\ SegmentWhole(d, st[y], sf[y], sa[y])
      BY <2>1, LayoutFacts
    <2> QED
      BY <2>2, WholeFacts
  <1>3. ASSUME NEW y \in 1..(n - 1) PROVE d[st[y]].last < d[st[y + 1]].first
    BY DEF Layout
  <1>4. 0 \in T
    <2>1. (a + 0) + 1 = a + 1 /\ 0 \in 0..N /\ a \in 1..(n - 1)
      BY <1>1
    <2>2. d[st[a]].last < d[st[a + 1]].first
      BY <1>3, <2>1
    <2> QED
      BY <2>1, <2>2
  <1>5. ASSUME NEW x \in 0..(N - 1), x \in T PROVE x + 1 \in T
    <2> DEFINE y == (a + x) + 1
    <2>1. y \in 1..(n - 1) /\ y \in 1..n /\ y + 1 \in 1..n /\ y + 1 = (a + (x + 1)) + 1 /\ x + 1 \in 0..N
      BY <1>1
    <2>2. d[st[a]].last < d[st[y]].first
      BY <1>5
    <2> HIDE DEF y
    <2>3. d[st[y]].last < d[st[y + 1]].first
      BY <1>3, <2>1
    <2>4. d[st[y]].first \in Nat /\ d[st[y]].last \in Nat /\ d[st[y]].first <= d[st[y]].last
      BY <1>2, <2>1, LimitAssumption
    <2>5. d[st[y + 1]].first \in Nat /\ d[st[a]].last \in Nat
      BY <1>2, <2>1, LimitAssumption
    <2>6. d[st[a]].last < d[st[y + 1]].first
      BY <2>2, <2>3, <2>4, <2>5
    <2> QED
      BY <2>1, <2>6
  <1> HIDE DEF T, N
  <1>6. \A x \in 0..N : x \in T
    BY <1>1, <1>4, <1>5, UpTo
  <1>7. (b - a) - 1 \in 0..N /\ (a + ((b - a) - 1)) + 1 = b
    BY <1>1 DEF N
  <1>8. (b - a) - 1 \in T
    BY <1>6, <1>7
  <1> QED
    BY <1>7, <1>8 DEF T

\* The header and the file that a copy of the segment at o writes.
CopyHeader(d, acc, o) ==
    IF d[o].size = 1 THEN d[o]
    ELSE [d[o] EXCEPT !.previous = acc.previous, !.skip = acc.table[BitOf(acc.n + 1)]]
CopyBody(d, o) == {x \in DOMAIN d : x >= o + d[o].size /\ x < After(o, d[o])}
CopyFile(d, acc, o) ==
    [x \in DOMAIN acc.file \cup {acc.at} \cup {y - o + acc.at : y \in CopyBody(d, o)} |->
        IF x = acc.at THEN CopyHeader(d, acc, o)
        ELSE IF x - acc.at + o \in CopyBody(d, o) THEN d[x - acc.at + o]
        ELSE acc.file[x]]

\* What a copy of a segment does.
LEMMA CopySegmentIs ==
  ASSUME NEW d, NEW acc, NEW o
  PROVE  LET x == CopySegment(d, acc, o)
         IN  /\ x.n = acc.n + 1 /\ x.previous = acc.at
             /\ x.table = RecordOffset(acc.table, acc.n + 1, acc.at)
             /\ x.at = acc.at + d[o].size + d[o].body
             /\ x.file = CopyFile(d, acc, o)
  <1>1. CopySegment(d, acc, o) = Copied(d, acc, o, CopyHeader(d, acc, o))
    BY DEF CopySegment, CopyHeader
  <1> DEFINE g == CopyHeader(d, acc, o)
  <1> HIDE DEF g
  <1>2. Copied(d, acc, o, g).file = [x \in DOMAIN acc.file \cup {acc.at} \cup {y - o + acc.at : y \in CopyBody(d, o)} |->
        IF x = acc.at THEN g
        ELSE IF x - acc.at + o \in CopyBody(d, o) THEN d[x - acc.at + o]
        ELSE acc.file[x]]
    BY DEF Copied, CopyBody
  <1>3. /\ Copied(d, acc, o, g).n = acc.n + 1 /\ Copied(d, acc, o, g).previous = acc.at
        /\ Copied(d, acc, o, g).table = RecordOffset(acc.table, acc.n + 1, acc.at)
        /\ Copied(d, acc, o, g).at = acc.at + d[o].size + d[o].body
    BY DEF Copied
  <1> QED
    BY <1>1, <1>2, <1>3 DEF CopyFile, g

\* It leaves what comes before its place as it is, copies the frames, and writes
\* nothing but batches and a header.
LEMMA CopyFileFacts ==
  ASSUME NEW d, Cells(d), NEW acc, Cells(acc.file), acc.at \in Nat, NEW o \in Nat, d[o] \in SegmentSet,
         CopyHeader(d, acc, o) \in SegmentSet, NEW dst
  PROVE  /\ Agree(acc.file, CopyFile(d, acc, o), dst, acc.at)
         /\ Moved(d, CopyFile(d, acc, o), o + d[o].size, After(o, d[o]), acc.at - o)
         /\ acc.at \in DOMAIN CopyFile(d, acc, o) /\ CopyFile(d, acc, o)[acc.at] = CopyHeader(d, acc, o)
         /\ Cells(CopyFile(d, acc, o))
  <1> DEFINE to == acc.at
             f == acc.file
             z == d[o].size
             B == CopyBody(d, o)
             e == CopyFile(d, acc, o)
             g == CopyHeader(d, acc, o)
             M == {y - o + to : y \in B}
  <1>1. to \in Nat /\ z \in Nat /\ z >= 1
    BY DEF SegmentSet
  <1>2. ASSUME NEW y \in B PROVE y \in Nat /\ y >= o + z /\ y \in DOMAIN d
    BY DEF CopyBody, Cells
  <1>3. ASSUME NEW y \in DOMAIN d, y >= o + z, y < After(o, d[o]) PROVE y \in B
    BY <1>3 DEF CopyBody
  <1>4. e = [x \in (DOMAIN f \cup {to}) \cup M |->
               IF x = to THEN g ELSE IF x - to + o \in B THEN d[x - to + o] ELSE f[x]]
    BY DEF CopyFile
  <1> HIDE DEF to, f, z, B, e, g
  <1>5. DOMAIN e = (DOMAIN f \cup {to}) \cup M
    BY <1>4
  <1>6. to \in DOMAIN e /\ e[to] = g
    BY <1>4
  <1>7. Agree(f, e, dst, to)
    <2>1. SUFFICES ASSUME NEW x \in Nat, x \in DOMAIN f, x < to PROVE x \in DOMAIN e /\ e[x] = f[x]
      BY DEF Agree
    <2>2. x # to
      BY <1>1, <2>1
    <2>3. x - to + o \notin B
      BY <1>1, <1>2, <2>1
    <2> QED
      BY <1>4, <2>1, <2>2, <2>3
  <1>8. Moved(d, e, o + z, After(o, d[o]), to - o)
    <2>1. SUFFICES ASSUME NEW y \in Nat, y \in DOMAIN d, y >= o + z, y < After(o, d[o])
                   PROVE  y + (to - o) \in DOMAIN e /\ e[y + (to - o)] = d[y]
      BY DEF Moved
    <2>2. y \in B
      BY <1>3, <2>1
    <2> DEFINE x == y + (to - o)
    <2>3. x = y - o + to /\ x - to + o = y /\ x # to
      BY <1>1, <2>1
    <2> HIDE DEF x
    <2>4. x \in M
      BY <2>2, <2>3
    <2>5. x \in DOMAIN e /\ e[x] = d[x - to + o]
      <3>1. x - to + o \in B
        BY <2>2, <2>3
      <3> QED
        BY <1>4, <2>3, <2>4, <3>1
    <2> QED
      BY <2>3, <2>5 DEF x
  <1>9. Cells(e)
    <2>1. SUFFICES ASSUME NEW x \in DOMAIN e PROVE x \in Nat /\ e[x] \in FrameSet \cup SegmentSet
      BY DEF Cells
    <2>2. x \in Nat
      <3>1. CASE x \in DOMAIN f
        BY <3>1 DEF Cells, f
      <3>2. CASE x = to
        BY <1>1, <3>2
      <3>3. CASE x \in M
        <4>1. PICK y \in B : x = y - o + to
          BY <3>3
        <4> QED
          BY <1>1, <1>2, <4>1
      <3> QED
        BY <1>5, <2>1, <3>1, <3>2, <3>3
    <2>3. CASE x = to
      BY <1>6, <2>2, <2>3 DEF g
    <2>4. CASE x # to /\ x - to + o \in B
      <3>1. e[x] = d[x - to + o]
        BY <1>4, <1>5, <2>1, <2>4
      <3>2. x - to + o \in DOMAIN d
        BY <1>2, <2>4
      <3> QED
        BY <2>2, <3>1, <3>2 DEF Cells
    <2>5. CASE x # to /\ x - to + o \notin B
      <3>1. e[x] = f[x]
        BY <1>4, <1>5, <2>1, <2>5
      <3>2. x \notin M
        <4>1. SUFFICES ASSUME x \in M PROVE FALSE
          OBVIOUS
        <4>2. PICK y \in B : x = y - o + to
          BY <4>1
        <4>3. x - to + o = y
          BY <1>1, <1>2, <4>2
        <4> QED
          BY <2>5, <4>3
      <3>3. x \in DOMAIN f
        BY <1>5, <2>1, <2>5, <3>2
      <3> QED
        BY <2>2, <3>1, <3>3 DEF Cells, f
    <2> QED
      BY <2>3, <2>4, <2>5
  <1> QED
    BY <1>6, <1>7, <1>8, <1>9 DEF to, f, z, B, e, g

\* Two headers that differ at most in their links.
SameSegment(s, t) ==
    /\ s.size = t.size /\ s.first = t.first /\ s.last = t.last /\ s.body = t.body
    /\ s.minimum = t.minimum /\ s.maximum = t.maximum /\ s.ordered = t.ordered

\* n of the first k segments, in their order.
Chosen(n, k, src) ==
    /\ src \in [1..n -> 1..k]
    /\ \A x, y \in 1..n : x < y => src[x] < src[y]

\* What has been copied to dst after k segments: segments of a linked layout, each
\* with the batches of a segment that does not expire, and none of those is missing.
CopiedTo(d, st, sf, cutoff, dst, k, acc, tt, tf, ta, src) ==
    /\ acc.n \in 0..k /\ Cells(acc.file)
    /\ Layout(acc.file, dst, acc.at, acc.n, tt, tf, ta) /\ Linked(acc.file, acc.n, tt)
    /\ acc.previous = StartOf(tt, acc.n) /\ acc.table = Table(tt, acc.n)
    /\ acc.at + st[1] <= dst + st[k + 1]
    /\ Chosen(acc.n, k, src)
    /\ \A x \in 1..acc.n : /\ tf[x] = sf[src[x]]
                           /\ SameSegment(acc.file[tt[x]], d[st[src[x]]])
                           /\ ~SegmentExpires(d, st[src[x]], cutoff)
    /\ \A y \in 1..k : SegmentExpires(d, st[y], cutoff) \/ \E x \in 1..acc.n : src[x] = y
    /\ (\A y \in 1..k : ~SegmentExpires(d, st[y], cutoff)) => acc.n = k /\ \A x \in 1..k : src[x] = x

\* Nothing is copied at first.
LEMMA CopyNone ==
  ASSUME NEW d, Cells(d), NEW st, NEW sf, NEW cutoff, NEW dst \in Nat, st[1] \in Nat
  PROVE  CopiedTo(d, st, sf, cutoff, dst, 0, CopyStart(d, dst), [i \in 1..1 |-> dst], <<>>, <<>>, <<>>)
  <1> DEFINE acc == CopyStart(d, dst)
             tt == [i \in 1..1 |-> dst]
  <1>1. acc.n = 0 /\ acc.file = d /\ acc.at = dst /\ acc.previous = 0 /\ acc.table = NoOffsets
    BY DEF CopyStart
  <1>2. tt[1] = dst /\ tt \in [1..(0 + 1) -> Nat]
    OBVIOUS
  <1>3. 1..0 = {} /\ 1..(0 - 1) = {} /\ 0 \in 0..0 /\ 0 + 1 = 1
    OBVIOUS
  <1>4. NoOffsets = Table(tt, 0)
    BY TableEmpty
  <1> HIDE DEF acc, tt
  <1>5. Layout(d, dst, dst, 0, tt, <<>>, <<>>)
    BY <1>2, <1>3 DEF Layout
  <1>6. Linked(d, 0, tt)
    BY <1>3 DEF Linked
  <1>7. StartOf(tt, 0) = 0
    BY DEF StartOf
  <1>8. Chosen(0, 0, <<>>)
    BY <1>3 DEF Chosen
  <1>9. dst + st[1] <= dst + st[0 + 1]
    BY <1>3
  <1> QED
    BY <1>1, <1>3, <1>4, <1>5, <1>6, <1>7, <1>8, <1>9 DEF CopiedTo, acc, tt

\* A segment that expires is left out.
LEMMA CopyExpired ==
  ASSUME NEW d, NEW root, NEW end, NEW n, NEW st, NEW sf, NEW sa, Layout(d, root, end, n, st, sf, sa),
         NEW cutoff, NEW dst \in Nat, NEW k \in 0..(n - 1), NEW acc, NEW tt, NEW tf, NEW ta, NEW src,
         CopiedTo(d, st, sf, cutoff, dst, k, acc, tt, tf, ta, src), SegmentExpires(d, st[k + 1], cutoff)
  PROVE  CopiedTo(d, st, sf, cutoff, dst, k + 1, acc, tt, tf, ta, src)
  <1>1. n \in Nat /\ k \in Nat /\ k + 1 \in 1..n /\ k + 1 \in 1..(n + 1) /\ (k + 1) + 1 \in 1..(n + 1) /\ 1 \in 1..(n + 1)
    BY LayoutFacts
  <1>2. st[k + 1] \in Nat /\ st[(k + 1) + 1] \in Nat /\ st[1] \in Nat
    BY <1>1, LayoutFacts
  <1>3. st[k + 1] + 2 <= st[(k + 1) + 1]
    BY <1>1, LayoutFacts
  <1>4. /\ acc.n \in 0..k /\ Cells(acc.file)
        /\ Layout(acc.file, dst, acc.at, acc.n, tt, tf, ta) /\ Linked(acc.file, acc.n, tt)
        /\ acc.previous = StartOf(tt, acc.n) /\ acc.table = Table(tt, acc.n)
    BY DEF CopiedTo
  <1>5. acc.at + st[1] <= dst + st[k + 1]
    BY DEF CopiedTo
  <1>6. acc.at \in Nat
    BY <1>4, LayoutFacts
  <1>7. acc.at + st[1] <= dst + st[(k + 1) + 1]
    BY <1>2, <1>3, <1>5, <1>6
  <1>8. acc.n \in 0..(k + 1)
    BY <1>1, <1>4
  <1>9. Chosen(acc.n, k, src)
    BY DEF CopiedTo
  <1>10. Chosen(acc.n, k + 1, src)
    <2>1. 1..k \subseteq 1..(k + 1)
      BY <1>1
    <2> QED
      BY <1>9, <2>1 DEF Chosen
  <1>11. \A x \in 1..acc.n : /\ tf[x] = sf[src[x]]
                             /\ SameSegment(acc.file[tt[x]], d[st[src[x]]])
                             /\ ~SegmentExpires(d, st[src[x]], cutoff)
    BY DEF CopiedTo
  <1>12. \A y \in 1..(k + 1) : SegmentExpires(d, st[y], cutoff) \/ \E x \in 1..acc.n : src[x] = y
    <2>1. \A y \in 1..k : SegmentExpires(d, st[y], cutoff) \/ \E x \in 1..acc.n : src[x] = y
      BY DEF CopiedTo
    <2>2. \A y \in 1..(k + 1) : y \in 1..k \/ y = k + 1
      BY <1>1
    <2> QED
      BY <2>1, <2>2
  <1>13. k + 1 \in 1..(k + 1)
    BY <1>1
  <1>14. ~(\A y \in 1..(k + 1) : ~SegmentExpires(d, st[y], cutoff))
    BY <1>13
  <1> QED
    BY <1>4, <1>7, <1>8, <1>10, <1>11, <1>12, <1>14 DEF CopiedTo

\* The links of header g are those of segment a + 1.
LinksOf(g, tt, a) ==
    IF g.size = 2
    THEN g.previous = StartOf(tt, a) /\ g.skip = StartOf(tt, (a + 1) - LowBit(a + 1))
    ELSE g.previous = 0 /\ g.skip = 0

\* The links of a copied header are those of its new number.
LEMMA CopyLinks ==
  ASSUME NEW d, NEW o, d[o] \in SegmentSet, d[o].size = 1 => d[o].previous = 0 /\ d[o].skip = 0,
         NEW acc, NEW dst, NEW tt, NEW tf, NEW ta,
         Layout(acc.file, dst, acc.at, acc.n, tt, tf, ta), acc.n + 1 < Power[24],
         acc.previous = StartOf(tt, acc.n), acc.table = Table(tt, acc.n)
  PROVE  /\ CopyHeader(d, acc, o) \in SegmentSet /\ SameSegment(CopyHeader(d, acc, o), d[o])
         /\ LinksOf(CopyHeader(d, acc, o), tt, acc.n)
  <1> DEFINE n == acc.n
             p == acc.previous
             s == acc.table[BitOf(n + 1)]
             g == CopyHeader(d, acc, o)
             t == (n + 1) - LowBit(n + 1)
  <1>1. n \in Nat
    BY LayoutFacts
  <1>2. n + 1 \in Nat /\ n + 1 # 0 /\ (n + 1) - 1 = n
    BY <1>1
  <1>3. LowBit(n + 1) \in 1..(n + 1)
    BY <1>2, BitFacts
  <1>4. Table(tt, (n + 1) - 1)[BitOf(n + 1)] = StartOf(tt, (n + 1) - LowBit(n + 1))
    BY <1>2, TableSkip
  <1>5. s = StartOf(tt, t)
    BY <1>2, <1>4
  <1>6. p \in Nat
    <2>1. n \in 0..(n + 1)
      BY <1>1
    <2> QED
      BY <2>1, StartNat
  <1>7. s \in Nat
    <2>1. t \in 0..(n + 1)
      BY <1>1, <1>3
    <2> HIDE DEF t
    <2> QED
      BY <1>5, <2>1, StartNat
  <1>8. CASE d[o].size = 1
    <2>1. g = d[o]
      BY <1>8 DEF CopyHeader
    <2> QED
      BY <1>8, <2>1 DEF SameSegment, LinksOf
  <1>9. CASE d[o].size # 1
    <2>1. d[o].size = 2
      BY <1>9 DEF SegmentSet
    <2>2. g = [d[o] EXCEPT !.previous = p, !.skip = s]
      BY <1>9 DEF CopyHeader
    <2> HIDE DEF p, s, g
    <2>3. /\ g \in SegmentSet /\ SameSegment(g, d[o])
          /\ g.previous = p /\ g.skip = s
      BY <1>6, <1>7, <2>2 DEF SegmentSet, SameSegment
    <2>4. g.size = 2
      BY <2>1, <2>3 DEF SameSegment
    <2>5. g.previous = StartOf(tt, acc.n)
      BY <2>3 DEF p
    <2>6. g.skip = StartOf(tt, (acc.n + 1) - LowBit(acc.n + 1))
      BY <1>5, <2>3
    <2> QED
      BY <2>3, <2>4, <2>5, <2>6 DEF g, LinksOf
  <1> QED
    BY <1>8, <1>9

\* The rest of what a copy of one more segment leaves.
CopyMore(d, st, sf, sa, k, acc, dst, tt, tf, ta) ==
    LET o == st[k + 1]
        e == CopyFile(d, acc, o)
        ax == [i \in 1..(Len(sf[k + 1]) + 1) |-> sa[k + 1][i] + (acc.at - o)]
        z == After(acc.at, e[acc.at])
        ut == Longer(tt, acc.n + 1, z)
    IN  /\ Cells(e)
        /\ z = acc.at + d[o].size + d[o].body
        /\ Layout(e, dst, z, acc.n + 1, ut, Longer(tf, acc.n, sf[k + 1]), Longer(ta, acc.n, ax))
        /\ \A x \in 1..(acc.n + 1) : ut[x] = tt[x]
        /\ \A x \in 1..acc.n : e[tt[x]] = acc.file[tt[x]] /\ Longer(tf, acc.n, sf[k + 1])[x] = tf[x]
        /\ Longer(tf, acc.n, sf[k + 1])[acc.n + 1] = sf[k + 1]
        /\ tt[acc.n + 1] = acc.at /\ e[acc.at] = CopyHeader(d, acc, o)
        /\ Linked(e, acc.n + 1, ut)
        /\ Table(ut, acc.n + 1) = RecordOffset(acc.table, acc.n + 1, acc.at)
        /\ SameSegment(e[acc.at], d[o])

\* A copied segment extends the layout.
LEMMA CopyExtends ==
  ASSUME NEW d, Cells(d), NEW root, NEW end, NEW n, NEW st, NEW sf, NEW sa, Layout(d, root, end, n, st, sf, sa),
         Linked(d, n, st), n < Power[24],
         NEW cutoff, NEW dst \in Nat, NEW k \in 0..(n - 1), NEW acc, NEW tt, NEW tf, NEW ta, NEW src,
         CopiedTo(d, st, sf, cutoff, dst, k, acc, tt, tf, ta, src)
  PROVE  CopyMore(d, st, sf, sa, k, acc, dst, tt, tf, ta)
  <1> DEFINE o == st[k + 1]
             a == acc.n
             to == acc.at
             f == acc.file
             e == CopyFile(d, acc, o)
             fr == sf[k + 1]
             g == CopyHeader(d, acc, o)
             ax == [i \in 1..(Len(fr) + 1) |-> sa[k + 1][i] + (to - o)]
  <1>1. n \in Nat /\ k \in Nat /\ k + 1 \in 1..n /\ k + 1 \in 1..(n + 1)
    BY LayoutFacts
  <1>2. o \in Nat /\ SegmentWhole(d, o, fr, sa[k + 1])
    BY <1>1, LayoutFacts
  <1>3. /\ a \in 0..k /\ Cells(f) /\ Layout(f, dst, to, a, tt, tf, ta) /\ Linked(f, a, tt)
        /\ acc.previous = StartOf(tt, a) /\ acc.table = Table(tt, a) /\ Chosen(a, k, src)
    BY DEF CopiedTo
  <1>4. to \in Nat /\ a \in Nat /\ tt[a + 1] = to
    BY <1>3, LayoutFacts
  <1>5. d[o] \in SegmentSet /\ d[o].minimum <= d[o].maximum /\ o \in DOMAIN d /\ fr # <<>>
    BY <1>2 DEF SegmentWhole
  <1>6. d[o].size = 1 => d[o].previous = 0 /\ d[o].skip = 0
    BY <1>1 DEF Linked
  <1>7. a + 1 < Power[24]
    <2>1. Power[24] \in Nat
      <3>1. 24 \in 0..24
        OBVIOUS
      <3> QED
        BY <3>1, Powers
    <2> QED
      BY <1>1, <1>3, <2>1
  <1>8. g \in SegmentSet /\ SameSegment(g, d[o])
    BY <1>3, <1>5, <1>6, <1>7, CopyLinks
  <1>9. LinksOf(g, tt, a)
    BY <1>3, <1>5, <1>6, <1>7, CopyLinks
  <1>10. /\ Agree(f, e, dst, to)
         /\ Moved(d, e, o + d[o].size, After(o, d[o]), to - o)
         /\ to \in DOMAIN e /\ e[to] = g /\ Cells(e)
    BY <1>2, <1>3, <1>4, <1>5, <1>8, CopyFileFacts
  <1>11. /\ g.size = d[o].size /\ g.first = d[o].first /\ g.last = d[o].last /\ g.body = d[o].body
         /\ g.minimum = d[o].minimum /\ g.maximum = d[o].maximum /\ g.ordered = d[o].ordered
    BY <1>8 DEF SameSegment
  <1>12. /\ IsFrames(d, o + d[o].size, After(o, d[o]), d[o].first, fr, sa[k + 1])
         /\ d[o].last = d[o].first + (Len(fr) - 1)
    BY <1>2 DEF SegmentWhole
  <1>13. /\ d[o].size \in Nat /\ d[o].body \in Nat
         /\ After(o, d[o]) = (o + d[o].size) + d[o].body
    <2>1. d[o].size \in {1, 2} /\ d[o].body \in Nat
      BY <1>2, WholeFacts
    <2> QED
      BY <2>1 DEF After
  <1> HIDE DEF o, a, to, f, e, fr, g
  <1>14. IsFrames(e, (o + d[o].size) + (to - o), After(o, d[o]) + (to - o), d[o].first, fr, ax)
    <2>1. to - o \in Int /\ (o + d[o].size) + (to - o) \in Nat
      BY <1>2, <1>4, <1>13
    <2> QED
      BY <1>10, <1>12, <2>1, FramesMove
  <1>15. (o + d[o].size) + (to - o) = to + g.size /\ After(o, d[o]) + (to - o) = After(to, g)
    BY <1>2, <1>4, <1>11, <1>13 DEF After
  <1>16. SegmentWhole(e, to, fr, ax)
    <2> HIDE DEF ax
    <2>1. IsFrames(e, to + g.size, After(to, g), g.first, fr, ax)
      BY <1>11, <1>14, <1>15
    <2>2. g.last = g.first + (Len(fr) - 1) /\ g.minimum <= g.maximum
      BY <1>5, <1>11, <1>12
    <2> QED
      BY <1>5, <1>8, <1>10, <2>1, <2>2 DEF SegmentWhole
  <1>17. a # 0 => f[tt[a]].last < e[to].first
    <2>1. SUFFICES ASSUME a # 0 PROVE f[tt[a]].last < d[o].first
      BY <1>10, <1>11
    <2>2. a \in 1..a
      BY <1>4, <2>1
    <2>3. SameSegment(f[tt[a]], d[st[src[a]]])
      BY <2>2 DEF CopiedTo, a, f
    <2>4. src[a] \in 1..k
      BY <1>3, <2>2 DEF Chosen
    <2>5. src[a] \in 1..n /\ src[a] < k + 1
      BY <1>1, <2>4
    <2>6. d[st[src[a]]].last < d[st[k + 1]].first
      BY <1>1, <2>5, SequencesApart
    <2> QED
      BY <2>3, <2>6 DEF SameSegment, o
  <1> DEFINE z == After(to, e[to])
             ut == Longer(tt, a + 1, z)
             uf == Longer(tf, a, fr)
             ua == Longer(ta, a, ax)
  <1> HIDE DEF ax
  <1>18. Layout(e, dst, z, a + 1, ut, uf, ua)
    BY <1>3, <1>10, <1>16, <1>17, LayoutExtends
  <1>19. \A x \in 1..(a + 1) : ut[x] = tt[x]
    BY <1>3, <1>10, <1>16, <1>17, LayoutExtends
  <1>20. \A x \in 1..a : e[tt[x]] = f[tt[x]] /\ uf[x] = tf[x]
    BY <1>3, <1>10, <1>16, <1>17, LayoutExtends
  <1>21. uf[a + 1] = fr
    BY <1>3, <1>10, <1>16, <1>17, LayoutExtends
  <1> HIDE DEF ut, uf, ua
  <1>22. Linked(e, a + 1, ut)
    <2>1. IF e[tt[a + 1]].size = 2
          THEN e[tt[a + 1]].previous = StartOf(tt, a) /\ e[tt[a + 1]].skip = StartOf(tt, (a + 1) - LowBit(a + 1))
          ELSE e[tt[a + 1]].previous = 0 /\ e[tt[a + 1]].skip = 0
      BY <1>4, <1>9, <1>10 DEF LinksOf
    <2>2. \A x \in 1..a : e[tt[x]] = f[tt[x]]
      BY <1>20
    <2> QED
      BY <1>3, <1>4, <1>7, <1>19, <2>1, <2>2, LinkedExtends
  <1>23. Table(ut, a + 1) = RecordOffset(acc.table, a + 1, to)
    <2>1. a + 1 \in Nat /\ a + 1 # 0 /\ (a + 1) - 1 = a /\ a < Power[24] /\ a + 1 \in 1..(a + 1)
      <3>1. Power[24] \in Nat
        <4>1. 24 \in 0..24
          OBVIOUS
        <4> QED
          BY <4>1, Powers
      <3> QED
        BY <1>4, <1>7, <3>1
    <2>2. RecordOffset(Table(ut, (a + 1) - 1), a + 1, ut[a + 1]) = Table(ut, a + 1)
      BY <1>7, <2>1, TableNext
    <2>3. ut[a + 1] = to
      BY <1>4, <1>19, <2>1
    <2>4. \A x \in 1..a : ut[x] = tt[x]
      <3>1. 1..a \subseteq 1..(a + 1)
        BY <1>4
      <3> QED
        BY <1>19, <3>1
    <2>5. Table(ut, a) = Table(tt, a)
      BY <1>4, <2>1, <2>4, TableSame
    <2> QED
      BY <1>3, <2>1, <2>2, <2>3, <2>5
  <1>24. z = to + d[o].size + d[o].body
    BY <1>4, <1>10, <1>11, <1>13 DEF After
  <1> QED
    BY <1>4, <1>8, <1>10, <1>18, <1>19, <1>20, <1>21, <1>22, <1>23, <1>24
       DEF CopyMore, o, a, to, f, e, fr, g, ax, z, ut, uf, ua

\* A segment that does not expire is copied.
LEMMA CopyKept ==
  ASSUME NEW d, Cells(d), NEW root, NEW end, NEW n, NEW st, NEW sf, NEW sa, Layout(d, root, end, n, st, sf, sa),
         Linked(d, n, st), n < Power[24],
         NEW cutoff, NEW dst \in Nat, NEW k \in 0..(n - 1), NEW acc, NEW tt, NEW tf, NEW ta, NEW src,
         CopiedTo(d, st, sf, cutoff, dst, k, acc, tt, tf, ta, src), ~SegmentExpires(d, st[k + 1], cutoff)
  PROVE  \E ut, uf, ua, us :
            CopiedTo(d, st, sf, cutoff, dst, k + 1, CopySegment(d, acc, st[k + 1]), ut, uf, ua, us)
  <1> DEFINE o == st[k + 1]
             a == acc.n
             to == acc.at
             f == acc.file
             e == CopyFile(d, acc, o)
             fr == sf[k + 1]
             ax == [i \in 1..(Len(fr) + 1) |-> sa[k + 1][i] + (to - o)]
             z == After(to, e[to])
             ut == Longer(tt, a + 1, z)
             uf == Longer(tf, a, fr)
             ua == Longer(ta, a, ax)
             us == Longer(src, a, k + 1)
             nx == CopySegment(d, acc, o)
  <1>1. n \in Nat /\ k \in Nat /\ k + 1 \in 1..n /\ k + 1 \in 1..(n + 1) /\ (k + 1) + 1 \in 1..(n + 1) /\ 1 \in 1..(n + 1)
    BY LayoutFacts
  <1>2. CopyMore(d, st, sf, sa, k, acc, dst, tt, tf, ta)
    BY CopyExtends
  <1>3. /\ nx.n = a + 1 /\ nx.previous = to
        /\ nx.table = RecordOffset(acc.table, a + 1, to)
        /\ nx.at = to + d[o].size + d[o].body
        /\ nx.file = e
    BY CopySegmentIs
  <1>4. /\ Cells(e) /\ z = to + d[o].size + d[o].body
        /\ Layout(e, dst, z, a + 1, ut, uf, ua) /\ Linked(e, a + 1, ut)
        /\ Table(ut, a + 1) = RecordOffset(acc.table, a + 1, to)
    BY <1>2 DEF CopyMore
  <1>5. \A x \in 1..(a + 1) : ut[x] = tt[x]
    BY <1>2 DEF CopyMore
  <1>6. \A x \in 1..a : e[tt[x]] = f[tt[x]] /\ uf[x] = tf[x]
    BY <1>2 DEF CopyMore
  <1>7. uf[a + 1] = fr /\ tt[a + 1] = to /\ SameSegment(e[to], d[o])
    BY <1>2 DEF CopyMore
  <1>8. a \in 0..k /\ Chosen(a, k, src) /\ to + st[1] <= dst + st[k + 1]
    BY DEF CopiedTo
  <1>9. a \in Nat /\ a + 1 \in 0..(k + 1) /\ a + 1 \in 1..(a + 1) /\ a + 1 # 0
    BY <1>1, <1>8
  <1>10. \A x \in 1..(a + 1) : x \in 1..a \/ x = a + 1
    BY <1>9
  <1>11. us \in [1..(a + 1) -> 1..(k + 1)] /\ us[a + 1] = k + 1 /\ \A x \in 1..a : us[x] = src[x] /\ src[x] \in 1..k
    <2>1. \A x \in 1..a : x \in 1..(a + 1) /\ x # a + 1
      BY <1>9
    <2>2. \A x \in 1..a : src[x] \in 1..k
      BY <1>8 DEF Chosen
    <2>3. us[a + 1] = k + 1 /\ \A x \in 1..a : us[x] = src[x]
      BY <1>9, <2>1 DEF Longer
    <2>4. \A x \in 1..(a + 1) : us[x] \in 1..(k + 1)
      <3>1. 1..k \subseteq 1..(k + 1) /\ k + 1 \in 1..(k + 1)
        BY <1>1
      <3> QED
        BY <1>10, <2>2, <2>3, <3>1
    <2>5. us = [x \in 1..(a + 1) |-> us[x]]
      BY DEF Longer
    <2> HIDE DEF us
    <2> QED
      BY <2>2, <2>3, <2>4, <2>5
  <1> HIDE DEF o, a, to, f, e, fr, ax, z, ut, uf, ua, us, nx
  <1>12. Chosen(a + 1, k + 1, us)
    <2>1. ASSUME NEW x \in 1..(a + 1), NEW y \in 1..(a + 1), x < y PROVE us[x] < us[y]
      <3>1. x \in 1..a
        BY <1>9, <2>1
      <3>2. us[x] = src[x] /\ src[x] \in 1..k
        BY <1>11, <3>1
      <3>3. CASE y = a + 1
        BY <1>1, <1>11, <3>2, <3>3
      <3>4. CASE y # a + 1
        <4>1. y \in 1..a
          BY <1>10, <3>4
        <4>2. src[x] < src[y]
          BY <1>8, <2>1, <3>1, <4>1 DEF Chosen
        <4> QED
          BY <1>11, <3>2, <4>1, <4>2
      <3> QED
        BY <3>3, <3>4
    <2> QED
      BY <1>11, <2>1 DEF Chosen
  <1>13. nx.previous = StartOf(ut, a + 1) /\ nx.table = Table(ut, a + 1)
    <2>1. ut[a + 1] = to
      BY <1>5, <1>7, <1>9
    <2> QED
      BY <1>3, <1>4, <1>9, <2>1 DEF StartOf
  <1>14. nx.at + st[1] <= dst + st[(k + 1) + 1]
    <2>1. st[(k + 1) + 1] = After(o, d[o])
      BY <1>1, LayoutFacts DEF o
    <2>2. st[k + 1] \in Nat /\ st[1] \in Nat
      BY <1>1, LayoutFacts
    <2>3. SegmentWhole(d, st[k + 1], sf[k + 1], sa[k + 1])
      BY <1>1, LayoutFacts
    <2>4. d[o].size \in {1, 2} /\ d[o].body \in Nat
      BY <2>2, <2>3, WholeFacts DEF o
    <2>5. to \in Nat
      <3>1. Layout(f, dst, to, a, tt, tf, ta)
        BY DEF CopiedTo, f, to, a
      <3> QED
        BY <3>1, LayoutFacts
    <2>6. st[(k + 1) + 1] = o + d[o].size + d[o].body
      BY <2>1, <2>4 DEF After
    <2>7. to + st[1] <= dst + o
      BY <1>8 DEF o
    <2>8. o \in Nat
      BY <2>2 DEF o
    <2> QED
      BY <1>3, <2>2, <2>4, <2>5, <2>6, <2>7, <2>8
  <1>15. ASSUME NEW x \in 1..(a + 1)
         PROVE  /\ uf[x] = sf[us[x]]
                /\ SameSegment(e[ut[x]], d[st[us[x]]])
                /\ ~SegmentExpires(d, st[us[x]], cutoff)
    <2>1. ut[x] = tt[x]
      BY <1>5
    <2>2. CASE x = a + 1
      BY <1>7, <1>11, <2>1, <2>2 DEF fr, o
    <2>3. CASE x # a + 1
      <3>1. x \in 1..a
        BY <1>10, <2>3
      <3>2. /\ tf[x] = sf[src[x]]
            /\ SameSegment(f[tt[x]], d[st[src[x]]])
            /\ ~SegmentExpires(d, st[src[x]], cutoff)
        BY <3>1 DEF CopiedTo, a, f
      <3>3. e[tt[x]] = f[tt[x]] /\ uf[x] = tf[x] /\ us[x] = src[x]
        BY <1>6, <1>11, <3>1
      <3> QED
        BY <2>1, <3>2, <3>3
    <2> QED
      BY <2>2, <2>3
  <1>16. ASSUME NEW y \in 1..(k + 1)
         PROVE  SegmentExpires(d, st[y], cutoff) \/ \E x \in 1..(a + 1) : us[x] = y
    <2>1. CASE y = k + 1
      BY <1>9, <1>11, <2>1
    <2>2. CASE y # k + 1
      <3>1. y \in 1..k
        BY <1>1, <2>2
      <3>2. SegmentExpires(d, st[y], cutoff) \/ \E x \in 1..a : src[x] = y
        BY <3>1 DEF CopiedTo, a
      <3>3. ASSUME NEW x \in 1..a, src[x] = y PROVE \E v \in 1..(a + 1) : us[v] = y
        <4>1. x \in 1..(a + 1) /\ us[x] = y
          BY <1>9, <1>11, <3>3
        <4> QED
          BY <4>1
      <3> QED
        BY <3>2, <3>3
    <2> QED
      BY <2>1, <2>2
  <1>17. ASSUME \A y \in 1..(k + 1) : ~SegmentExpires(d, st[y], cutoff)
         PROVE  a + 1 = k + 1 /\ \A x \in 1..(k + 1) : us[x] = x
    <2>1. \A y \in 1..k : ~SegmentExpires(d, st[y], cutoff)
      <3>1. 1..k \subseteq 1..(k + 1)
        BY <1>1
      <3> QED
        BY <1>17, <3>1
    <2>2. a = k /\ \A x \in 1..k : src[x] = x
      BY <2>1 DEF CopiedTo, a
    <2>3. ASSUME NEW x \in 1..(k + 1) PROVE us[x] = x
      <3>1. x \in 1..k \/ x = k + 1
        BY <1>1
      <3> QED
        BY <1>11, <2>2, <3>1
    <2> QED
      BY <2>2, <2>3
  <1>18. nx.at = z
    BY <1>3, <1>4
  <1>19. CopiedTo(d, st, sf, cutoff, dst, k + 1, nx, ut, uf, ua, us)
    BY <1>3, <1>4, <1>9, <1>12, <1>13, <1>14, <1>15, <1>16, <1>17, <1>18 DEF CopiedTo
  <1> QED
    BY <1>19 DEF nx, o

\* copy_segments copies the segments that do not expire.
LEMMA CopyFound ==
  ASSUME NEW d, Cells(d), NEW root, NEW end, NEW n, NEW st, NEW sf, NEW sa, Layout(d, root, end, n, st, sf, sa),
         Linked(d, n, st), n < Power[24], NEW cutoff, NEW dst \in Nat
  PROVE  \E tt, tf, ta, src :
            CopiedTo(d, st, sf, cutoff, dst, n, CopySegments(d, root, n, cutoff, dst), tt, tf, ta, src)
  <1> DEFINE w == CopyWalk(d, root, n, cutoff, dst)
             T == {k \in 0..n : \E tt, tf, ta, src : CopiedTo(d, st, sf, cutoff, dst, k, w[k], tt, tf, ta, src)}
  <1>1. n \in Nat /\ n \in 0..n /\ 1 \in 1..(n + 1)
    BY LayoutFacts
  <1>2. SegmentStarts(d, root, n) = st
    BY <1>1, StartsFound
  <1>3. /\ w[0] = CopyStart(d, dst)
        /\ \A k \in 0..(n - 1) : w[k + 1] = CopyStep(d, SegmentStarts(d, root, n), cutoff, (k + 1), w[k])
    BY <1>1, CopyTurns
  <1> HIDE DEF w
  <1>4. st[1] \in Nat
    BY <1>1, LayoutFacts
  <1>5. 0 \in T
    <2>1. CopiedTo(d, st, sf, cutoff, dst, 0, w[0], [i \in 1..1 |-> dst], <<>>, <<>>, <<>>)
      BY <1>3, <1>4, CopyNone
    <2>2. 0 \in 0..n
      BY <1>1
    <2> QED
      BY <2>1, <2>2
  <1>6. ASSUME NEW k \in 0..(n - 1), k \in T PROVE k + 1 \in T
    <2>1. PICK tt, tf, ta, src : CopiedTo(d, st, sf, cutoff, dst, k, w[k], tt, tf, ta, src)
      BY <1>6
    <2>2. k + 1 \in 0..n
      BY <1>1
    <2>3. w[k + 1] = CopyStep(d, st, cutoff, k + 1, w[k])
      BY <1>2, <1>3
    <2>4. CASE SegmentExpires(d, st[k + 1], cutoff)
      <3>1. w[k + 1] = w[k]
        BY <2>3, <2>4 DEF CopyStep
      <3>2. CopiedTo(d, st, sf, cutoff, dst, k + 1, w[k], tt, tf, ta, src)
        BY <2>1, <2>4, CopyExpired
      <3> QED
        BY <2>2, <3>1, <3>2
    <2>5. CASE ~SegmentExpires(d, st[k + 1], cutoff)
      <3>1. w[k + 1] = CopySegment(d, w[k], st[k + 1])
        BY <2>3, <2>5 DEF CopyStep
      <3>2. \E ut, uf, ua, us :
              CopiedTo(d, st, sf, cutoff, dst, k + 1, CopySegment(d, w[k], st[k + 1]), ut, uf, ua, us)
        BY <2>1, <2>5, CopyKept
      <3> QED
        BY <2>2, <3>1, <3>2
    <2> QED
      BY <2>4, <2>5
  <1> HIDE DEF T
  <1>7. \A k \in 0..n : k \in T
    BY <1>1, <1>5, <1>6, UpTo
  <1>8. n \in T
    BY <1>1, <1>7
  <1> QED
    BY <1>8 DEF T, w, CopySegments

\* The compacted file: segments of a linked layout, each with the batches of a
\* segment that does not expire, and none of those is missing.
ExpiredTo(st, sf, cutoff, F, back, tt, tf, ta, src) ==
    /\ Cells(F) /\ \A o \in DOMAIN F : DataStart <= o /\ o < back.at
    /\ Layout(F, DataStart, back.at, back.n, tt, tf, ta) /\ Linked(F, back.n, tt)
    /\ back.previous = StartOf(tt, back.n) /\ back.at <= h.dataEnd
    /\ Chosen(back.n, h.generation, src)
    /\ \A x \in 1..back.n : /\ tf[x] = sf[src[x]]
                            /\ SameSegment(F[tt[x]], db[st[src[x]]])
                            /\ ~SegmentExpires(db, st[src[x]], cutoff)
    /\ \A y \in 1..h.generation : SegmentExpires(db, st[y], cutoff) \/ \E x \in 1..back.n : src[x] = y

\* Copying the segments that do not expire past the data and back yields it.
LEMMA ExpiredFound ==
  ASSUME NEW st, NEW sf, NEW sa, NEW wf, NEW wa, Stored(db, wal, manifest, h, st, sf, sa, wf, wa), NEW cutoff
  PROVE  \E tt, tf, ta, src :
            ExpiredTo(st, sf, cutoff,
                      Cut(CopiedBack(Survivors(cutoff)).file, DataStart, CopiedBack(Survivors(cutoff)).at),
                      CopiedBack(Survivors(cutoff)), tt, tf, ta, src)
  <1> DEFINE n == h.generation
             D == h.dataEnd
             out == Survivors(cutoff)
             back == CopiedBack(out)
             F == Cut(back.file, DataStart, back.at)
  <1>1. /\ Cells(db) /\ Layout(db, DataStart, D, n, st, sf, sa) /\ Linked(db, n, st)
        /\ n \in Nat /\ n < Power[24] /\ D \in Nat
    BY StoredFacts
  <1>2. \E tt, tf, ta, src : CopiedTo(db, st, sf, cutoff, D, n, out, tt, tf, ta, src)
    BY <1>1, CopyFound DEF Survivors
  <1>3. PICK t1, f1, a1, s1 : CopiedTo(db, st, sf, cutoff, D, n, out, t1, f1, a1, s1)
    BY <1>2
  <1> HIDE DEF out
  <1>4. /\ out.n \in 0..n /\ Cells(out.file)
        /\ Layout(out.file, D, out.at, out.n, t1, f1, a1) /\ Linked(out.file, out.n, t1)
        /\ out.at + st[1] <= D + st[n + 1] /\ Chosen(out.n, n, s1)
    BY <1>3 DEF CopiedTo
  <1>5. out.n < Power[24] /\ out.n \in Nat
    <2>1. Power[24] \in Nat
      <3>1. 24 \in 0..24
        OBVIOUS
      <3> QED
        BY <3>1, Powers
    <2> QED
      BY <1>1, <1>4, <2>1
  <1>6. DataStart \in Nat
    BY DEF DataStart
  <1>7. \E tt, tf, ta, src : CopiedTo(out.file, t1, f1, 0, DataStart, out.n, back, tt, tf, ta, src)
    BY <1>4, <1>5, <1>6, CopyFound DEF CopiedBack
  <1>8. PICK tt, tf, ta, s2 : CopiedTo(out.file, t1, f1, 0, DataStart, out.n, back, tt, tf, ta, s2)
    BY <1>7
  <1> HIDE DEF back
  <1>9. /\ back.n \in 0..out.n /\ Cells(back.file)
        /\ Layout(back.file, DataStart, back.at, back.n, tt, tf, ta) /\ Linked(back.file, back.n, tt)
        /\ back.previous = StartOf(tt, back.n)
        /\ back.at + t1[1] <= DataStart + t1[out.n + 1]
    BY <1>8 DEF CopiedTo
  <1>10. \A y \in 1..out.n : ~SegmentExpires(out.file, t1[y], 0)
    <2>1. SUFFICES ASSUME NEW y \in 1..out.n PROVE ~SegmentExpires(out.file, t1[y], 0)
      OBVIOUS
    <2>2. y \in 1..(out.n + 1)
      BY <1>5
    <2>3. t1[y] \in Nat /\ SegmentWhole(out.file, t1[y], f1[y], a1[y])
      BY <1>4, <2>2, LayoutFacts
    <2>4. out.file[t1[y]].maximum \in Times
      BY <2>3, WholeFacts
    <2>5. ~(out.file[t1[y]].maximum < 0)
      BY <2>4 DEF Times
    <2> QED
      BY <2>5 DEF SegmentExpires
  <1>11. back.n = out.n /\ \A x \in 1..out.n : s2[x] = x
    BY <1>8, <1>10 DEF CopiedTo
  <1>12. back.at <= D
    <2>1. st[1] = DataStart /\ st[n + 1] = D
      BY <1>1, LayoutFacts
    <2>2. t1[1] = D /\ t1[out.n + 1] = out.at /\ out.at \in Nat
      BY <1>4, LayoutFacts
    <2>3. back.at \in Nat
      BY <1>9, LayoutFacts
    <2>4. out.at + DataStart <= D + D /\ back.at + D <= DataStart + out.at
      BY <1>4, <1>9, <2>1, <2>2
    <2> QED
      BY <1>1, <1>6, <2>2, <2>3, <2>4
  <1>13. \A o \in DOMAIN F : o \in DOMAIN back.file /\ DataStart <= o /\ o < back.at /\ F[o] = back.file[o] /\ o \in Nat
    <2>1. \A o \in DOMAIN F : o \in DOMAIN back.file /\ o >= DataStart /\ o < back.at /\ F[o] = back.file[o]
      BY DEF Cut
    <2>2. \A o \in DOMAIN F : o \in Nat
      BY <1>9, <2>1 DEF Cells
    <2> QED
      BY <1>6, <2>1, <2>2
  <1>14. Agree(back.file, F, DataStart, back.at)
    BY DEF Agree, Cut
  <1> HIDE DEF F
  <1>15. Cells(F) /\ \A o \in DOMAIN F : DataStart <= o /\ o < back.at
    BY <1>9, <1>13 DEF Cells
  <1>16. Layout(F, DataStart, back.at, back.n, tt, tf, ta)
    BY <1>9, <1>14, LayoutAgree
  <1>17. \A x \in 1..back.n : F[tt[x]] = back.file[tt[x]]
    <2>1. HeadersKept(back.file, F, back.n, tt)
      BY <1>9, <1>14, LayoutAgree
    <2> QED
      BY <2>1 DEF HeadersKept
  <1>18. Linked(F, back.n, tt)
    BY <1>9, <1>17 DEF Linked
  <1>19. Chosen(back.n, n, s1)
    BY <1>4, <1>11
  <1>20. ASSUME NEW x \in 1..back.n
         PROVE  /\ tf[x] = sf[s1[x]]
                /\ SameSegment(F[tt[x]], db[st[s1[x]]])
                /\ ~SegmentExpires(db, st[s1[x]], cutoff)
    <2>1. x \in 1..out.n /\ s2[x] = x
      BY <1>11
    <2>2. /\ f1[x] = sf[s1[x]]
          /\ SameSegment(out.file[t1[x]], db[st[s1[x]]])
          /\ ~SegmentExpires(db, st[s1[x]], cutoff)
      BY <1>3, <2>1 DEF CopiedTo
    <2>3. /\ tf[x] = f1[s2[x]]
          /\ SameSegment(back.file[tt[x]], out.file[t1[s2[x]]])
      BY <1>8 DEF CopiedTo
    <2>4. F[tt[x]] = back.file[tt[x]]
      BY <1>17
    <2> QED
      BY <2>1, <2>2, <2>3, <2>4 DEF SameSegment
  <1>21. \A y \in 1..n : SegmentExpires(db, st[y], cutoff) \/ \E x \in 1..back.n : s1[x] = y
    BY <1>3, <1>11 DEF CopiedTo
  <1>22. ExpiredTo(st, sf, cutoff, F, back, tt, tf, ta, s1)
    BY <1>9, <1>12, <1>15, <1>16, <1>18, <1>19, <1>20, <1>21 DEF ExpiredTo
  <1> QED
    BY <1>22 DEF F, back, out

\* The handle after an expiry.
ExpiredHandle(back, span) ==
    [h EXCEPT !.generation = back.n, !.retention = TRUE, !.dataEnd = back.at,
              !.lastSegment = back.previous, !.spanStart = span]

\* The segments of the compacted file fit, and an open accepts them.
LEMMA ExpiredSegments ==
  ASSUME NEW st, NEW sf, NEW sa, NEW wf, NEW wa, Stored(db, wal, manifest, h, st, sf, sa, wf, wa), NEW cutoff,
         NEW F, NEW back, NEW tt, NEW tf, NEW ta, NEW src, ExpiredTo(st, sf, cutoff, F, back, tt, tf, ta, src)
  PROVE  /\ Segments(F, back.at, back.n, h.installed, TRUE, h.installedTime, tt, tf, ta)
         /\ CheckSegments(F, CompactManifest(back)).ok = TRUE
         /\ SpanIs(F, tt, back.n, CheckSegments(F, CompactManifest(back)).span)
  <1> DEFINE n == h.generation
             b == back.n
             m == CompactManifest(back)
  <1>1. /\ Layout(db, DataStart, h.dataEnd, n, st, sf, sa) /\ TimesKept(db, n, st, sf)
        /\ n \in Nat /\ h.dataEnd \in Nat /\ h.dataEnd <= DbCapacity
    BY StoredFacts
  <1>2. h.installed \in 0..SeqMax
    BY StoredFacts
  <1>3. LastOf(db, st, n) <= h.installed
    BY StoredFacts
  <1>4. /\ Cells(F) /\ \A o \in DOMAIN F : DataStart <= o /\ o < back.at
        /\ Layout(F, DataStart, back.at, b, tt, tf, ta) /\ Linked(F, b, tt)
        /\ back.previous = StartOf(tt, b) /\ back.at <= h.dataEnd
        /\ Chosen(b, n, src)
    BY DEF ExpiredTo
  <1>5. ASSUME NEW x \in 1..b
        PROVE  tf[x] = sf[src[x]] /\ SameSegment(F[tt[x]], db[st[src[x]]]) /\ src[x] \in 1..n
    BY <1>4 DEF ExpiredTo, Chosen
  <1>6. TimesKept(F, b, tt, tf)
    <2>1. SUFFICES ASSUME NEW x \in 1..b PROVE HeaderTimes(F[tt[x]], tf[x])
      BY DEF TimesKept
    <2> DEFINE y == src[x]
    <2>2. tf[x] = sf[y] /\ SameSegment(F[tt[x]], db[st[y]]) /\ y \in 1..n
      BY <1>5
    <2> HIDE DEF y
    <2>3. HeaderTimes(db[st[y]], sf[y])
      BY <1>1, <2>2 DEF TimesKept
    <2> QED
      BY <2>2, <2>3 DEF HeaderTimes, SameSegment
  <1>7. b \in Nat /\ back.at \in Nat
    BY <1>4, LayoutFacts
  <1>8. back.at <= DbCapacity
    BY <1>1, <1>4, <1>7, ReaderAssumption
  <1>9. LastOf(F, tt, b) <= h.installed
    <2>1. CASE b = 0
      BY <1>2, <2>1 DEF LastOf
    <2>2. CASE b # 0
      <3> DEFINE y == src[b]
      <3>1. b \in 1..b
        BY <1>7, <2>2
      <3>2. SameSegment(F[tt[b]], db[st[y]]) /\ y \in 1..n
        BY <1>5, <3>1
      <3> HIDE DEF y
      <3>3. F[tt[b]].last = db[st[y]].last
        BY <3>2 DEF SameSegment
      <3>4. db[st[y]].last <= db[st[n]].last /\ n # 0
        <4>1. n \in 1..n /\ n # 0
          BY <1>1, <3>2
        <4>2. ASSUME NEW q \in 1..n PROVE db[st[q]].first \in 1..SeqMax /\ db[st[q]].last \in 1..SeqMax /\ db[st[q]].first <= db[st[q]].last
          <5>1. st[q] \in Nat /\ SegmentWhole(db, st[q], sf[q], sa[q])
            BY StoredSegments
          <5> QED
            BY <5>1, WholeFacts
        <4>3. CASE y = n
          BY <4>1, <4>2, <4>3, LimitAssumption
        <4>4. CASE y # n
          <5>1. y < n
            BY <1>1, <3>2, <4>4
          <5>2. db[st[y]].last < db[st[n]].first
            BY <1>1, <3>2, <4>1, <5>1, SequencesApart
          <5>3. db[st[y]].last \in 1..SeqMax
            BY <3>2, <4>2
          <5>4. db[st[n]].first \in 1..SeqMax /\ db[st[n]].last \in 1..SeqMax /\ db[st[n]].first <= db[st[n]].last
            BY <4>1, <4>2
          <5> QED
            BY <4>1, <5>2, <5>3, <5>4, LimitAssumption
        <4> QED
          BY <4>3, <4>4
      <3>5. LastOf(db, st, n) = db[st[n]].last /\ LastOf(F, tt, b) = F[tt[b]].last
        BY <2>2, <3>4 DEF LastOf
      <3>6. LastOf(db, st, n) \in 0..SeqMax
        <4>1. n \in 0..n
          BY <1>1
        <4> QED
          BY <1>1, <4>1, SequencesGrow
      <3>7. LastOf(F, tt, b) \in 0..SeqMax
        <4>1. b \in 0..b
          BY <1>7
        <4> QED
          BY <1>4, <4>1, SequencesGrow
      <3>8. LastOf(F, tt, b) <= LastOf(db, st, n)
        BY <3>3, <3>4, <3>5
      <3> QED
        BY <1>2, <1>3, <3>6, <3>7, <3>8, LimitAssumption
    <2> QED
      BY <2>1, <2>2
  <1>10. h.installedTime \in Times
    BY DEF Stored, HandleSays, HandleSet
  <1>11. Segments(F, back.at, b, h.installed, TRUE, h.installedTime, tt, tf, ta)
    BY <1>2, <1>4, <1>6, <1>8, <1>9, <1>10 DEF Segments
  <1>12. /\ m.count = b /\ m.end = back.at /\ m.last = h.installed /\ m.time = h.installedTime
         /\ m.tail = back.previous /\ m.hasTime = TRUE /\ m.retain = TRUE
    BY DEF CompactManifest
  <1> HIDE DEF m
  <1>13. ManifestTimes(m, h.installedTime, StartOf(tt, m.count))
    BY <1>4, <1>12 DEF ManifestTimes
  <1>14. Segments(F, m.end, m.count, m.last, m.retain, h.installedTime, tt, tf, ta)
    BY <1>11, <1>12
  <1>15. CheckSegments(F, m).ok = TRUE
    BY <1>13, <1>14, CheckResult
  <1>16. SpanIs(F, tt, m.count, CheckSegments(F, m).span)
    BY <1>13, <1>14, CheckResult
  <1> QED
    BY <1>11, <1>12, <1>15, <1>16 DEF m

\* An expiry leaves files and a handle that fit.
LEMMA ExpiredStored ==
  ASSUME NEW st, NEW sf, NEW sa, NEW wf, NEW wa, Stored(db, wal, manifest, h, st, sf, sa, wf, wa), NEW cutoff,
         NEW F, NEW back, NEW tt, NEW tf, NEW ta, NEW src, ExpiredTo(st, sf, cutoff, F, back, tt, tf, ta, src),
         NEW span, SpanIs(F, tt, back.n, span)
  PROVE  Stored(F, wal, CompactManifest(back), ExpiredHandle(back, span), tt, tf, ta, wf, wa)
  <1> DEFINE x == ExpiredHandle(back, span)
             m == CompactManifest(back)
             b == back.n
             q == back.previous
             E == back.at
  <1>1. Segments(F, E, b, h.installed, TRUE, h.installedTime, tt, tf, ta)
    BY ExpiredSegments
  <1>2. /\ Layout(F, DataStart, E, b, tt, tf, ta) /\ q = StartOf(tt, b)
    BY DEF ExpiredTo
  <1>3. b \in Nat /\ E \in Nat
    BY <1>2, LayoutFacts
  <1>4. q \in Nat
    <2>1. b \in 0..(b + 1)
      BY <1>3
    <2> QED
      BY <1>2, <2>1, StartNat
  <1>5. span \in Nat
    <2>1. span \in 1..(b + 1)
      BY DEF SpanIs
    <2> QED
      BY <1>3, <2>1
  <1>6. h \in HandleSet
    BY DEF Stored, HandleSays
  <1>7. x = [h EXCEPT !.generation = b, !.retention = TRUE, !.dataEnd = E, !.lastSegment = q, !.spanStart = span]
    BY DEF ExpiredHandle
  <1>8. /\ m.count = b /\ m.end = E /\ m.last = h.installed /\ m.time = h.installedTime
        /\ m.tail = q /\ m.hasTime = TRUE /\ m.retain = TRUE
    BY DEF CompactManifest
  <1> HIDE DEF x, m, b, q, E
  <1>9. /\ x \in HandleSet /\ x.generation = b /\ x.retention = TRUE /\ x.dataEnd = E
        /\ x.lastSegment = q /\ x.spanStart = span
    BY <1>3, <1>4, <1>5, <1>6, <1>7 DEF HandleSet
  <1>10. /\ x.end = h.end /\ x.sequence = h.sequence /\ x.installed = h.installed /\ x.lastTime = h.lastTime
         /\ x.installedTime = h.installedTime /\ x.walFirst = h.walFirst /\ x.walMin = h.walMin
         /\ x.walMax = h.walMax /\ x.walOrdered = h.walOrdered /\ x.failed = h.failed
    BY <1>6, <1>7 DEF HandleSet
  <1>11. ManifestOf(m, x)
    BY <1>8, <1>9, <1>10 DEF ManifestOf, ManifestTimes
  <1>12. HandleSays(db, h, st, wf)
    BY DEF Stored
  <1>13. SpanIs(F, tt, x.generation, x.spanStart)
    BY <1>9 DEF b
  <1>14. HandleSays(F, x, tt, wf)
    BY <1>2, <1>9, <1>10, <1>12, <1>13 DEF HandleSays
  <1>15. Log(wal, x.end, x.installed, wf, wa)
    BY <1>10 DEF Stored
  <1>16. Segments(F, x.dataEnd, x.generation, x.installed, x.retention, x.installedTime, tt, tf, ta)
    BY <1>1, <1>9, <1>10
  <1> QED
    BY <1>11, <1>14, <1>15, <1>16 DEF Stored, x, m

\* The cursor that seek and expiry leave on END is at the last place.
LEMMA ViewedEnd ==
  ASSUME NEW d, NEW w, NEW m, NEW hd, NEW lv, NEW P, Viewed(d, w, m, hd, lv, P), NEW cur \in CursorType
  PROVE  <<EndCursor(hd, cur), Len(lv) + 1>> \in P
  <1>1. PICK st, sf, sa, wf, wa, lo : /\ Stored(d, w, m, hd, st, sf, sa, wf, wa)
                                      /\ Flat(hd.generation, sf, wf, lo, lv)
                                      /\ P = Places(d, hd, st, sf, sa, wf, wa, lo)
    BY DEF Viewed
  <1> DEFINE n == hd.generation
             k == n + 1
             j == Len(wf) + 1
             e == EndCursor(hd, cur)
  <1>2. At(d, hd, st, sf, sa, wf, wa, e, k, j)
    BY <1>1, EndAt
  <1> HIDE DEF k, j, e
  <1>3. <<e, lo[k] + j>> \in P /\ lo[k] \in Nat
    BY <1>1, <1>2, AtPlace
  <1>4. Len(lv) = lo[n + 1] + Len(wf)
    BY <1>1 DEF Flat
  <1>5. Len(wf) \in Nat
    BY <1>1, StoredSegments
  <1>6. lo[k] + j = Len(lv) + 1
    BY <1>3, <1>4, <1>5 DEF k, j
  <1> QED
    BY <1>3, <1>6 DEF e

\* The place of the first batch whose sequence is wanted or later.
WantedPlace(lv, wanted) ==
    LET hits == {x \in 1..Len(lv) : lv[x].seq >= wanted}
    IN  IF wanted = 0 \/ hits = {} THEN Len(lv) + 1 ELSE Min(hits)

\* Expiry finds the cursor's batch, or the first surviving one after it.
LEMMA RelocateFound ==
  ASSUME NEW d, NEW m, NEW hd, NEW lv, NEW P, Viewed(d, wal, m, hd, lv, P), NEW wanted
  PROVE  <<Relocate(d, hd, wanted), WantedPlace(lv, wanted)>> \in P /\ Relocate(d, hd, wanted) # Bad
  <1> DEFINE read == Reads(d, wal, hd, ResetCursor)
             N == Len(lv)
             hits == {x \in 1..N : lv[x].seq >= wanted}
             S == {j \in 2..Len(read) : read[j].kind # "read" \/ read[j].frame.seq >= wanted}
             k == Min(S)
             r == Relocate(d, hd, wanted)
  <1>1. Follows(d, wal, hd, lv, P)
    BY ViewedFacts
  <1>2. <<ResetCursor, 1>> \in P
    BY ViewedFacts
  <1>3. N \in Nat /\ lv \in Seq(FrameSet)
    BY ViewedFacts
  <1>4. ReadToEnd(read, lv, P, ResetCursor, 1)
    BY <1>1, <1>2, ReadsFound
  <1>5. r = IF wanted = 0 THEN EndCursor(hd, ResetCursor)
            ELSE IF read[k] = Done THEN EndCursor(hd, read[k - 1].cur)
            ELSE IF read[k] = Bad THEN Bad
            ELSE read[k - 1].cur
    BY DEF Relocate
  <1>6. (N - 1) + 1 = N
    BY <1>3
  <1> HIDE DEF read, r, N
  <1>7. Len(read) = N + 2 /\ read[N + 2] = Done
    BY <1>4, <1>6 DEF ReadToEnd, N
  <1>8. \A y \in 1..(N + 1) : read[y].kind = "read" /\ <<read[y].cur, (1 + y) - 1>> \in P
    BY <1>4, <1>6 DEF ReadToEnd, N
  <1>9. \A y \in 2..(N + 1) : read[y].frame = lv[(1 + y) - 2]
    BY <1>4, <1>6 DEF ReadToEnd, N
  <1>10. \A y \in 1..(N + 1) : (1 + y) - 1 = y /\ <<read[y].cur, y>> \in P
    <2>1. \A y \in 1..(N + 1) : (1 + y) - 1 = y
      BY <1>3
    <2> QED
      BY <1>8, <2>1
  <1>11. \A y \in 2..(N + 1) : read[y].frame = lv[y - 1] /\ y - 1 \in 1..N
    <2>1. \A y \in 2..(N + 1) : (1 + y) - 2 = y - 1 /\ y - 1 \in 1..N
      BY <1>3
    <2> QED
      BY <1>9, <2>1
  <1>12. P \subseteq CursorType \X (1..(Len(lv) + 1))
    BY <1>1 DEF Follows
  <1>13. ASSUME NEW cur, NEW i, <<cur, i>> \in P PROVE cur \in CursorType /\ cur # Bad
    <2>1. cur \in CursorType
      BY <1>12, <1>13
    <2> QED
      BY <2>1 DEF CursorType, Bad
  <1>14. ASSUME NEW y \in S PROVE y \in 2..(N + 2) /\ (y = N + 2 \/ y - 1 \in hits)
    <2>1. y \in 2..(N + 2)
      BY <1>7
    <2>2. CASE y = N + 2
      BY <2>1, <2>2
    <2>3. CASE y # N + 2
      <3>1. y \in 2..(N + 1) /\ y \in 1..(N + 1)
        BY <1>3, <2>1, <2>3
      <3>2. read[y].kind = "read"
        BY <1>8, <3>1
      <3>3. read[y].frame.seq >= wanted
        BY <3>2
      <3> QED
        BY <1>11, <2>1, <3>1, <3>3
    <2> QED
      BY <2>2, <2>3
  <1>15. N + 2 \in S
    <2>1. N + 2 \in 2..Len(read)
      BY <1>3, <1>7
    <2> QED
      BY <1>7, <2>1, DoneFacts
  <1>16. S \subseteq Int
    OBVIOUS
  <1>17. CASE wanted = 0
    <2>1. ResetCursor \in CursorType
      BY <1>2, <1>13
    <2>2. <<EndCursor(hd, ResetCursor), Len(lv) + 1>> \in P
      BY <2>1, ViewedEnd
    <2>3. r = EndCursor(hd, ResetCursor) /\ WantedPlace(lv, wanted) = Len(lv) + 1
      BY <1>5, <1>17 DEF WantedPlace
    <2> QED
      BY <1>13, <2>2, <2>3 DEF r
  <1>18. CASE wanted # 0 /\ hits = {}
    <2>1. ASSUME NEW y \in S PROVE N + 2 <= y
      <3>1. y = N + 2 \/ y - 1 \in hits
        BY <1>14
      <3>2. y = N + 2
        BY <1>18, <3>1
      <3> QED
        BY <1>3, <3>2
    <2>2. k = N + 2
      <3> HIDE DEF S
      <3> QED
        BY <1>15, <1>16, <2>1, MinIs
    <2>3. k - 1 \in 1..(N + 1)
      BY <1>3, <2>2
    <2> DEFINE cur == read[k - 1].cur
    <2> HIDE DEF k
    <2>4. cur \in CursorType
      BY <1>10, <1>13, <2>3
    <2>5. <<EndCursor(hd, cur), Len(lv) + 1>> \in P
      BY <2>4, ViewedEnd
    <2>6. r = EndCursor(hd, cur)
      BY <1>5, <1>7, <1>18, <2>2
    <2>7. WantedPlace(lv, wanted) = Len(lv) + 1
      BY <1>18 DEF WantedPlace, N
    <2> QED
      BY <1>13, <2>5, <2>6, <2>7 DEF r
  <1>19. CASE wanted # 0 /\ hits # {}
    <2> DEFINE x == Min(hits)
    <2>1. hits \subseteq Nat
      BY <1>3
    <2>2. x \in hits /\ \A y \in hits : x <= y
      <3> HIDE DEF hits
      <3> QED
        BY <1>19, <2>1, MinExists
    <2>3. x \in 1..N /\ lv[x].seq >= wanted
      BY <2>2
    <2> HIDE DEF x
    <2>4. x + 1 \in 2..(N + 1) /\ x + 1 \in 2..Len(read) /\ (x + 1) - 1 = x /\ x \in 1..(N + 1) /\ x + 1 \in 1..(N + 1)
      BY <1>3, <1>7, <2>3
    <2>5. x + 1 \in S
      <3>1. read[x + 1].frame = lv[(x + 1) - 1]
        BY <1>11, <2>4
      <3> QED
        BY <2>3, <2>4, <3>1
    <2>6. ASSUME NEW y \in S PROVE x + 1 <= y
      <3>1. y \in 2..(N + 2) /\ (y = N + 2 \/ y - 1 \in hits)
        BY <1>14
      <3>2. CASE y = N + 2
        BY <1>3, <2>3, <3>2
      <3>3. CASE y - 1 \in hits
        <4>1. x <= y - 1
          BY <2>2, <3>3
        <4> QED
          BY <1>3, <2>3, <3>1, <4>1
      <3> QED
        BY <3>1, <3>2, <3>3
    <2>7. k = x + 1
      <3> HIDE DEF S
      <3> QED
        BY <1>16, <2>5, <2>6, MinIs
    <2> HIDE DEF k
    <2>8. read[k].kind = "read"
      BY <1>8, <2>4, <2>7
    <2>9. read[k] # Done /\ read[k] # Bad
      BY <2>8, DoneFacts
    <2>10. r = read[x].cur
      BY <1>5, <1>19, <2>4, <2>7, <2>9
    <2>11. <<r, x>> \in P
      BY <1>10, <2>4, <2>10
    <2>12. WantedPlace(lv, wanted) = x
      BY <1>19 DEF WantedPlace, N, x
    <2> QED
      BY <1>13, <2>11, <2>12 DEF r
  <1> QED
    BY <1>17, <1>18, <1>19

\* An expiry preserves the invariant.
LEMMA ExpireWhole ==
  ASSUME Whole(db, wal, manifest, h, c), NEW cutoff, ExpireBefore(cutoff)
  PROVE  Whole(db, wal, manifest, h, c)'
  <1>1. PICK st, sf, sa, wf, wa : Stored(db, wal, manifest, h, st, sf, sa, wf, wa)
    BY DEF Whole
  <1> DEFINE back == CopiedBack(Survivors(cutoff))
             F == Cut(back.file, DataStart, back.at)
             m == CompactManifest(back)
             span == CheckSegments(F, m).span
             x == ExpiredHandle(back, span)
             r == Relocate(F, x, c.readSequence)
  <1>2. \E tt, tf, ta, src : ExpiredTo(st, sf, cutoff, F, back, tt, tf, ta, src)
    BY <1>1, ExpiredFound
  <1>3. PICK tt, tf, ta, src : ExpiredTo(st, sf, cutoff, F, back, tt, tf, ta, src)
    BY <1>2
  <1>4. Compact(F, m, CheckSegments(F, m))
    BY DEF ExpireBefore, ExpireTo, CompactTo
  <1> HIDE DEF back, F
  <1>5. CheckSegments(F, m).ok = TRUE
    BY <1>1, <1>3, ExpiredSegments
  <1>6. SpanIs(F, tt, back.n, span)
    BY <1>1, <1>3, ExpiredSegments
  <1> HIDE DEF span
  <1>7. Stored(F, wal, m, x, tt, tf, ta, wf, wa)
    BY <1>1, <1>3, <1>6, ExpiredStored
  <1>8. [h EXCEPT !.generation = m.count, !.retention = TRUE, !.dataEnd = m.end,
                  !.lastSegment = m.tail, !.spanStart = CheckSegments(F, m).span] = x
    BY DEF ExpiredHandle, CompactManifest, span
  <1>9. /\ db' = F /\ manifest' = m /\ wal' = wal
        /\ IF r # Bad THEN h' = x /\ c' = r ELSE h' = [h EXCEPT !.failed = TRUE] /\ c' = c
    BY <1>4, <1>5, <1>8 DEF Compact
  <1> HIDE DEF m, x
  <1>10. At(F, x, tt, tf, ta, wf, wa, ResetCursor, 1, 1)
    BY <1>7, ResetAt
  <1>11. Whole(F, wal, m, x, ResetCursor)
    BY <1>7, <1>10 DEF Whole
  <1>12. \E lv, P, i : Viewed(F, wal, m, x, lv, P) /\ <<ResetCursor, i>> \in P
    BY <1>11, WholeViewed
  <1>13. PICK lv, P : Viewed(F, wal, m, x, lv, P)
    BY <1>12
  <1>14. <<r, WantedPlace(lv, c.readSequence)>> \in P /\ r # Bad
    BY <1>13, RelocateFound
  <1> HIDE DEF r
  <1>15. Whole(F, wal, m, x, r)
    BY <1>13, <1>14, ViewedWhole
  <1>16. db' = F /\ manifest' = m /\ wal' = wal /\ h' = x /\ c' = r
    BY <1>9, <1>14
  <1> QED
    BY <1>15, <1>16

------------------------------------------------------------------------------
(* The specifications preserve the invariant. *)

\* The first open establishes it.
LEMMA InvInit ==
  Init => Inv
  <1> SUFFICES ASSUME Init PROVE Inv
    OBVIOUS
  <1>1. Whole(db, wal, manifest, h, c)
    BY InitWhole
  <1>2. live = LiveBatches(db, wal, h) /\ unread = Drain(db, wal, h, c)
    BY DEF Init
  <1> QED
    BY <1>1, <1>2 DEF Inv

\* Every writing call preserves it.
LEMMA InvWriting ==
  Inv /\ Writing /\ Mapped => Inv'
  <1> SUFFICES ASSUME Inv, Writing, Mapped PROVE Inv'
    OBVIOUS
  <1>1. Whole(db, wal, manifest, h, c)
    BY DEF Inv
  <1>2. Whole(db, wal, manifest, h, c)'
    <2>1. CASE \E records \in Inputs : AppendBatch(records)
      <3>1. PICK records \in Inputs : AppendBatch(records)
        BY <2>1
      <3> QED
        BY <1>1, <3>1, AppendWhole
    <2>2. CASE Checkpoint
      BY <1>1, <2>2, CheckpointWhole
    <2>3. CASE \E t \in Cutoffs : ExpireBefore(t)
      <3>1. PICK t \in Cutoffs : ExpireBefore(t)
        BY <2>3
      <3> QED
        BY <1>1, <3>1, ExpireWhole
    <2>4. CASE Reopen
      BY <1>1, <2>4, ReopenWhole
    <2> QED
      BY <2>1, <2>2, <2>3, <2>4 DEF Writing
  <1>3. live' = LiveBatches(db', wal', h') /\ unread' = Drain(db', wal', h', c')
    BY DEF Mapped
  <1> QED
    BY <1>2, <1>3 DEF Inv

\* So does every reading call.
LEMMA InvReading ==
  Inv /\ Reading /\ Mapped => Inv'
  <1> SUFFICES ASSUME Inv, Reading, Mapped PROVE Inv'
    OBVIOUS
  <1>1. Whole(db, wal, manifest, h, c)
    BY DEF Inv
  <1>2. Whole(db, wal, manifest, h, c)'
    <2>1. CASE NextBatch
      BY <1>1, <2>1, NextBatchWhole
    <2>2. CASE Rewind
      BY <1>1, <2>2, RewindWhole
    <2>3. CASE \E t \in Times : Seek(t)
      <3>1. PICK t \in Times : Seek(t)
        BY <2>3
      <3> QED
        BY <1>1, <3>1, SeekWhole
    <2>4. CASE \E range \in Ranges : NextRange(range)
      <3>1. PICK range \in Ranges : NextRange(range)
        BY <2>4
      <3> QED
        BY <1>1, <3>1, NextRangeWhole
    <2> QED
      BY <2>1, <2>2, <2>3, <2>4 DEF Reading
  <1>3. live' = LiveBatches(db', wal', h') /\ unread' = Drain(db', wal', h', c')
    BY DEF Mapped
  <1> QED
    BY <1>2, <1>3 DEF Inv

\* Nothing else changes it.
LEMMA InvStutter ==
  Inv /\ UNCHANGED vars => Inv'
  <1> SUFFICES ASSUME Inv, UNCHANGED vars PROVE Inv'
    OBVIOUS
  <1>1. db' = db /\ wal' = wal /\ manifest' = manifest /\ h' = h /\ c' = c /\ live' = live /\ unread' = unread
    BY DEF vars
  <1>2. Whole(db, wal, manifest, h, c) /\ live = LiveBatches(db, wal, h) /\ unread = Drain(db, wal, h, c)
    BY DEF Inv
  <1>3. Whole(db', wal', manifest', h', c')
    BY <1>1, <1>2
  <1>4. live' = LiveBatches(db', wal', h') /\ unread' = Drain(db', wal', h', c')
    BY <1>1, <1>2
  <1> QED
    BY <1>3, <1>4 DEF Inv

\* In every state that an application reaches by any calls, and so by writing
\* calls alone, the files, the handle and the cursor fit each other.
THEOREM ReaderInvariant ==
  (Spec => []Inv) /\ (IndexSpec => []Inv)
  <1>1. Init => Inv
    BY InvInit
  <1>2. Inv /\ [Next]_vars => Inv'
    BY InvWriting, InvReading, InvStutter DEF Next
  <1>3. Inv /\ [Writing /\ Mapped]_vars => Inv'
    BY InvWriting, InvStutter
  <1>4. Spec => []Inv
    BY <1>1, <1>2, PTL DEF Spec
  <1>5. IndexSpec => []Inv
    BY <1>1, <1>3, PTL DEF IndexSpec
  <1> QED
    BY <1>4, <1>5

\* Every field stays in its domain: no append, checkpoint or expiry passes a
\* capacity, and sequences and read sequences stay 64-bit numbers.
THEOREM ReaderType ==
  Spec => []TypeOK
  <1>1. Inv => TypeOK
    BY InvType
  <1> QED
    BY <1>1, ReaderInvariant, PTL

\* segment_at finds every segment through the links that checkpoints write and
\* expiries rewrite, whatever calls are made and in whatever order.
THEOREM ReaderIndex ==
  (Spec => []IndexFindsSegments) /\ (IndexSpec => []IndexFindsSegments)
  <1>1. Inv => IndexFindsSegments
    BY InvIndex
  <1> QED
    BY <1>1, ReaderInvariant, PTL

\* What the handle keeps about order between calls is what an open would compute.
THEOREM ReaderOrder ==
  (Spec => []OrderMatchesReopen) /\ (IndexSpec => []OrderMatchesReopen)
  <1>1. Inv => OrderMatchesReopen
    BY InvOrder
  <1> QED
    BY <1>1, ReaderInvariant, PTL

\* timelite_batches_seek finds the first batch that does not end before the given
\* time, through a linear and a binary search, and END exactly where there is none.
THEOREM ReaderSeek ==
  (Spec => []SeekExact) /\ (IndexSpec => []SeekExact)
  <1>1. Inv => SeekExact
    BY InvSeekExact
  <1> QED
    BY <1>1, ReaderInvariant, PTL

------------------------------------------------------------------------------
(* Queries. *)

\* Where a batch of an ordered sequence starts, no later batch has an older record.
LEMMA OrderedLater ==
  ASSUME NEW s \in Seq(FrameSet), Ordered(s), NEW a \in 1..Len(s), NEW b \in a..Len(s), NEW t \in TimesOf(s[b])
  PROVE  FirstTimeOf(s[a]) <= t
  <1>1. Len(s) \in Nat /\ b \in 1..Len(s) /\ s[a] \in FrameSet /\ s[b] \in FrameSet
    OBVIOUS
  <1>2. FrameOrdered(s[a]) /\ FrameOrdered(s[b])
    BY <1>1 DEF Ordered
  <1>3. FirstTimeOf(s[b]) <= t /\ t \in TimesOf(s[b]) /\ TimesOf(s[b]) \subseteq Times
    BY <1>1, <1>2, OrderedBounds, EndTimes
  <1>4. LastTimeOf(s[a]) \in TimesOf(s[a])
    BY <1>1, EndTimes
  <1>5. FirstTimeOf(s[a]) <= LastTimeOf(s[a])
    BY <1>1, <1>2, <1>4, OrderedBounds
  <1>6. FirstTimeOf(s[a]) \in Times /\ LastTimeOf(s[a]) \in Times /\ FirstTimeOf(s[b]) \in Times /\ t \in Times
    <2>1. FirstTimeOf(s[a]) \in Times /\ LastTimeOf(s[a]) \in Times /\ FirstTimeOf(s[b]) \in Times
      BY <1>1, FrameFacts
    <2> QED
      BY <1>3, <2>1
  <1>7. CASE a = b
    BY <1>3, <1>7
  <1>8. CASE a < b
    <2>1. LastTimeOf(s[a]) <= FirstTimeOf(s[b])
      BY <1>1, <1>8, OrderedPairs
    <2> QED
      BY <1>3, <1>5, <1>6, <2>1, LimitAssumption DEF Times
  <1> QED
    BY <1>1, <1>7, <1>8

\* Batch x of all batches is batch j of segment k, or of the log.
BatchAt(n, sf, wf, lo, lv, x, k, j) ==
    /\ k \in 1..(n + 1) /\ j \in Nat /\ j >= 1 /\ x = lo[k] + j
    /\ k <= n => j <= Len(sf[k]) /\ lv[x] = sf[k][j]
    /\ k = n + 1 => j <= Len(wf) /\ lv[x] = wf[j]

\* A batch after those of the first segments is in one of the others or in the log.
LEMMA BatchAfter ==
  ASSUME NEW n \in Nat, NEW sf, \A k \in 1..n : sf[k] \in Seq(FrameSet), NEW wf, Len(wf) \in Nat, NEW lo, NEW lv,
         Flat(n, sf, wf, lo, lv), NEW X \in 1..(n + 1), NEW x \in 1..Len(lv), lo[X] < x
  PROVE  \E k \in X..(n + 1), j \in Nat : BatchAt(n, sf, wf, lo, lv, x, k, j)
  <1>1. /\ lo \in [1..(n + 1) -> Nat] /\ Len(lv) = lo[n + 1] + Len(wf) /\ Len(lv) \in Nat
        /\ \A k \in 1..n : lo[k + 1] = lo[k] + Len(sf[k])
        /\ \A k \in 1..n : \A j \in 1..Len(sf[k]) : lv[lo[k] + j] = sf[k][j]
        /\ \A j \in 1..Len(wf) : lv[lo[n + 1] + j] = wf[j]
    BY DEF Flat
  <1>2. x \in 1..(Len(lv) + 1)
    BY <1>1
  <1>3. PICK k \in 1..(n + 1), j \in Nat : PlaceOf(n, sf, wf, lo, x, k, j)
    BY <1>2, FlatPlace
  <1>4. x = lo[k] + j /\ lo[k] \in Nat /\ lo[X] \in Nat
    BY <1>1, <1>3 DEF PlaceOf
  <1>5. CASE k \in 1..n /\ j \in 1..Len(sf[k])
    <2>0. Len(sf[k]) \in Nat
      BY <1>5
    <2>1. lv[x] = sf[k][j] /\ j >= 1 /\ j <= Len(sf[k]) /\ k # n + 1
      <3>1. lv[lo[k] + j] = sf[k][j]
        BY <1>1, <1>5
      <3> QED
        BY <1>4, <1>5, <2>0, <3>1
    <2>2. X <= k
      <3>1. SUFFICES ASSUME k < X PROVE FALSE
        BY <1>5
      <3>2. k + 1 \in 1..X /\ k + 1 \in 1..(n + 1)
        BY <1>5, <3>1
      <3>3. lo[k + 1] <= lo[X]
        BY <3>2, FlatGrows
      <3>4. lo[k + 1] = lo[k] + Len(sf[k]) /\ Len(sf[k]) \in Nat
        BY <1>1, <1>5
      <3> DEFINE a == lo[k]
                 l == Len(sf[k])
                 u == lo[X]
      <3>5. a \in Nat /\ l \in Nat /\ u \in Nat /\ j \in Nat
        BY <1>4, <2>0
      <3>6. a + l <= u /\ j <= l /\ u < a + j
        BY <1>4, <2>1, <3>3, <3>4
      <3> HIDE DEF a, l, u
      <3> QED
        BY <3>5, <3>6
    <2>3. BatchAt(n, sf, wf, lo, lv, x, k, j) /\ k \in X..(n + 1)
      BY <1>4, <1>5, <2>1, <2>2 DEF BatchAt
    <2> QED
      BY <2>3
  <1>6. CASE k = n + 1 /\ j \in 1..(Len(wf) + 1)
    <2>1. j \in 1..Len(wf)
      BY <1>1, <1>4, <1>6
    <2>2. lv[x] = wf[j] /\ ~(k <= n) /\ k \in X..(n + 1)
      BY <1>1, <1>4, <1>6, <2>1
    <2>3. BatchAt(n, sf, wf, lo, lv, x, k, j)
      BY <1>4, <1>6, <2>1, <2>2 DEF BatchAt
    <2> QED
      BY <2>2, <2>3
  <1> QED
    BY <1>3, <1>5, <1>6 DEF PlaceOf

\* The places of two batches are in the order of the batches.
NotAfter(k, j, p, q) == k <= p /\ (k = p => j <= q)

\* Batches in commit order are at places in that order.
LEMMA BatchOrder ==
  ASSUME NEW n \in Nat, NEW sf, \A k \in 1..n : sf[k] \in Seq(FrameSet), NEW wf, Len(wf) \in Nat, NEW lo, NEW lv,
         Flat(n, sf, wf, lo, lv), NEW x, NEW y, NEW k, NEW j, NEW p, NEW q,
         BatchAt(n, sf, wf, lo, lv, x, k, j), BatchAt(n, sf, wf, lo, lv, y, p, q), x <= y
  PROVE  NotAfter(k, j, p, q)
  <1>1. /\ lo \in [1..(n + 1) -> Nat]
        /\ \A i \in 1..n : lo[i + 1] = lo[i] + Len(sf[i])
    BY DEF Flat
  <1>2. k \in 1..(n + 1) /\ j \in Nat /\ j >= 1 /\ x = lo[k] + j /\ lo[k] \in Nat
    BY <1>1 DEF BatchAt
  <1>3. p \in 1..(n + 1) /\ q \in Nat /\ q >= 1 /\ y = lo[p] + q /\ lo[p] \in Nat /\ (p <= n => q <= Len(sf[p]))
    BY <1>1 DEF BatchAt
  <1>4. k <= p
    <2>1. SUFFICES ASSUME p < k PROVE FALSE
      BY <1>2, <1>3
    <2>2. p \in 1..n /\ p + 1 \in 1..k
      BY <1>2, <1>3, <2>1
    <2>3. lo[p + 1] <= lo[k] /\ lo[p + 1] = lo[p] + Len(sf[p]) /\ Len(sf[p]) \in Nat
      <3>1. lo[p + 1] <= lo[k]
        BY <1>2, <2>2, FlatGrows
      <3> QED
        BY <1>1, <2>2, <3>1
    <2>4. q <= Len(sf[p])
      BY <1>3, <2>2
    <2>5. y <= lo[p + 1] /\ x > lo[k] /\ lo[p + 1] \in Nat
      <3>1. p + 1 \in 1..(n + 1)
        BY <2>2
      <3>2. lo[p + 1] \in Nat
        BY <1>1, <3>1
      <3> DEFINE L == Len(sf[p])
                 u == lo[p]
                 v == lo[k]
                 r == lo[p + 1]
      <3>3. L \in Nat /\ u \in Nat /\ v \in Nat /\ r \in Nat /\ q \in Nat /\ j \in Nat /\ j >= 1 /\ r = u + L /\ q <= L /\ y = u + q /\ x = v + j
        BY <1>2, <1>3, <2>3, <2>4, <3>2
      <3> HIDE DEF L, u, v, r
      <3>4. y <= r /\ x > v /\ r \in Nat
        BY <3>3
      <3> QED
        BY <3>4 DEF r, v
    <2>6. x \in Int /\ y \in Int
      BY <1>2, <1>3
    <2> QED
      BY <1>2, <2>3, <2>5, <2>6
  <1>5. k = p => j <= q
    BY <1>2, <1>3
  <1> QED
    BY <1>4, <1>5 DEF NotAfter

\* No batch of the ordered suffix has a record older than a batch before it starts;
\* nor has the log, if it is ordered and starts after the suffix ends.
LEMMA SuffixLater ==
  ASSUME NEW st, NEW sf, NEW sa, NEW wf, NEW wa, Stored(db, wal, manifest, h, st, sf, sa, wf, wa),
         NEW lo, NEW lv, Flat(h.generation, sf, wf, lo, lv), Ordered(wf),
         NEW x, NEW y, NEW k, NEW j, NEW p, NEW q,
         BatchAt(h.generation, sf, wf, lo, lv, x, k, j), BatchAt(h.generation, sf, wf, lo, lv, y, p, q),
         x <= y, h.spanStart <= k,
         k <= h.generation /\ wf # <<>> => db[st[h.generation]].maximum <= FirstTimeOf(wf[1]),
         NEW t \in TimesOf(lv[y])
  PROVE  FirstTimeOf(lv[x]) <= t
  <1> DEFINE n == h.generation
             X == h.spanStart
  <1>1. /\ n \in Nat /\ (\A i \in 1..n : sf[i] \in Seq(FrameSet)) /\ wf \in Seq(FrameSet) /\ Len(wf) \in Nat
    BY StoredSegments
  <1>2. k <= p /\ (k = p => j <= q)
    <2>1. NotAfter(k, j, p, q)
      BY <1>1, BatchOrder
    <2> QED
      BY <2>1 DEF NotAfter
  <1>3. k \in 1..(n + 1) /\ j \in Nat /\ j >= 1 /\ (k <= n => j <= Len(sf[k]) /\ lv[x] = sf[k][j]) /\ (k = n + 1 => j <= Len(wf) /\ lv[x] = wf[j])
    BY DEF BatchAt
  <1>4. p \in 1..(n + 1) /\ q \in Nat /\ q >= 1 /\ (p <= n => q <= Len(sf[p]) /\ lv[y] = sf[p][q]) /\ (p = n + 1 => q <= Len(wf) /\ lv[y] = wf[q])
    BY DEF BatchAt
  <1>5. Layout(db, DataStart, h.dataEnd, n, st, sf, sa) /\ SpanIs(db, st, n, X) /\ TimesKept(db, n, st, sf)
    BY StoredFacts
  <1>6. X \in 1..(n + 1)
    BY <1>5 DEF SpanIs
  <1> HIDE DEF n, X
  <1>7. ASSUME NEW i \in X..n PROVE db[st[i]].ordered /\ i \in 1..n
    BY <1>1, <1>5, <1>6 DEF SpanIs
  <1>8. ASSUME NEW i \in 1..n PROVE HeaderTimes(db[st[i]], sf[i]) /\ sf[i] \in Seq(FrameSet) /\ Len(sf[i]) \in Nat
                                    /\ db[st[i]].minimum \in Times /\ db[st[i]].maximum \in Times
    <2>1. HeaderTimes(db[st[i]], sf[i]) /\ sf[i] \in Seq(FrameSet) /\ Len(sf[i]) \in Nat
      BY <1>1, <1>5 DEF TimesKept
    <2>2. SegmentWhole(db, st[i], sf[i], sa[i]) /\ i \in 1..(n + 1)
      BY <1>1, <1>5 DEF Layout
    <2>3. st[i] \in Nat
      BY <1>5, <2>2, LayoutFacts
    <2> QED
      BY <2>1, <2>2, <2>3, WholeFacts
  <1>9. ASSUME NEW i \in 1..n, NEW u \in 1..Len(sf[i]), NEW z \in TimesOf(sf[i][u])
        PROVE  z \in Times /\ db[st[i]].minimum <= z /\ z <= db[st[i]].maximum
    <2>1. sf[i][u] \in FrameSet
      BY <1>8
    <2>2. z \in Times
      BY <1>9, <2>1, EndTimes
    <2> QED
      BY <1>8, <2>2 DEF HeaderTimes
  <1>10. CASE k = n + 1
    <2>1. p = n + 1 /\ j \in 1..Len(wf) /\ q \in j..Len(wf) /\ lv[x] = wf[j] /\ lv[y] = wf[q]
      BY <1>1, <1>2, <1>3, <1>4, <1>10
    <2> QED
      BY <1>1, <2>1, OrderedLater
  <1>11. CASE k <= n
    <2>1. k \in X..n /\ k \in 1..n /\ j \in 1..Len(sf[k]) /\ lv[x] = sf[k][j]
      BY <1>1, <1>3, <1>6, <1>8, <1>11 DEF X
    <2>2. lv[x] \in FrameSet /\ FirstTimeOf(lv[x]) \in TimesOf(sf[k][j])
      <3>1. sf[k][j] \in FrameSet
        BY <1>8, <2>1
      <3> QED
        BY <2>1, <3>1, EndTimes
    <2>3. FirstTimeOf(lv[x]) \in Times /\ FirstTimeOf(lv[x]) <= db[st[k]].maximum /\ db[st[k]].maximum \in Times
      BY <1>8, <1>9, <2>1, <2>2
    <2>4. CASE p = k
      <3>1. q \in j..Len(sf[k]) /\ lv[y] = sf[k][q]
        BY <1>2, <1>4, <1>8, <1>11, <2>1, <2>4
      <3>2. Ordered(sf[k]) /\ sf[k] \in Seq(FrameSet)
        BY <1>7, <1>8, <2>1 DEF HeaderTimes
      <3> QED
        BY <2>1, <3>1, <3>2, OrderedLater
    <2>5. CASE k < p /\ p <= n
      <3>1. p \in 1..n /\ p - 1 \in k..n /\ p - 1 \in 1..n /\ p \in (X + 1)..n /\ q \in 1..Len(sf[p]) /\ lv[y] = sf[p][q]
        BY SMTT(30), <1>1, <1>4, <1>6, <1>8, <2>1, <2>5
      <3>2. db[st[p]].minimum >= db[st[p - 1]].maximum
        BY <1>5, <3>1 DEF SpanIs
      <3>3. db[st[k]].maximum <= db[st[p - 1]].maximum
        BY <1>5, <2>1, <3>1, SpanGrows
      <3>4. t \in Times /\ db[st[p]].minimum <= t
        BY <1>9, <3>1
      <3>5. db[st[p]].minimum \in Times /\ db[st[p - 1]].maximum \in Times
        BY <1>8, <3>1
      <3> QED
        BY <2>3, <3>2, <3>3, <3>4, <3>5, LimitAssumption DEF Times
    <2>6. CASE p = n + 1
      <3>1. q \in 1..Len(wf) /\ lv[y] = wf[q] /\ 1 \in 1..Len(wf) /\ q \in 1..Len(wf) /\ wf # <<>>
        BY <1>1, <1>4, <2>6
      <3>2. FirstTimeOf(wf[1]) <= t
        BY <1>1, <3>1, OrderedLater
      <3>3. db[st[n]].maximum <= FirstTimeOf(wf[1])
        BY <1>11, <3>1 DEF n
      <3>4. n \in k..n /\ n \in 1..n
        BY <1>1, <2>1
      <3>5. db[st[k]].maximum <= db[st[n]].maximum
        BY <1>5, <2>1, <3>4, SpanGrows
      <3>6. db[st[n]].maximum \in Times
        BY <1>8, <3>4
      <3>7. FirstTimeOf(wf[1]) \in Times /\ t \in Times
        <4>1. wf[1] \in FrameSet /\ wf[q] \in FrameSet
          BY <1>1, <3>1
        <4>2. t \in TimesOf(wf[q]) /\ TimesOf(wf[q]) \subseteq Times
          BY <3>1, <4>1, EndTimes
        <4> QED
          BY <4>1, <4>2, FrameFacts
      <3> QED
        BY <2>3, <3>2, <3>3, <3>5, <3>6, <3>7, LimitAssumption DEF Times
    <2> QED
      BY <1>1, <1>2, <1>4, <2>1, <2>4, <2>5, <2>6
  <1> QED
    BY <1>1, <1>3, <1>10, <1>11

\* The least sequence from which next_range takes the batches to be ordered: that of
\* the log's first batch, or of the ordered suffix if the log starts after it ends.
BoundIs(st, wf, x) ==
    \/ x = h.installed + 1
    \/ /\ h.spanStart <= h.generation /\ x = db[st[h.spanStart]].first
       /\ wf # <<>> => db[st[h.generation]].maximum <= FirstTimeOf(wf[1])

\* next_range finds that bound.
LEMMA BoundFound ==
  ASSUME NEW st, NEW sf, NEW sa, NEW wf, NEW wa, Stored(db, wal, manifest, h, st, sf, sa, wf, wa),
         ~BoundWraps, h.walOrdered
  PROVE  BoundIs(st, wf, OrderedSequence)
  <1> DEFINE n == h.generation
             X == h.spanStart
             o == SegmentAt(db, h.dataEnd, h.generation, h.lastSegment, h.spanStart)
             last == IF h.retention THEN db[h.lastSegment].maximum ELSE h.installedTime
  <1>1. /\ Layout(db, DataStart, h.dataEnd, n, st, sf, sa) /\ Linked(db, n, st) /\ n \in Nat /\ n < Power[24]
        /\ h.dataEnd \in Nat /\ h.installed \in 0..SeqMax /\ h.lastSegment = StartOf(st, n)
        /\ SpanIs(db, st, n, X) /\ h.sequence = h.installed + Len(wf) /\ h.sequence \in 0..SeqMax
        /\ wf \in Seq(FrameSet) /\ Len(wf) \in Nat
    BY StoredFacts
  <1>2. X \in 1..(n + 1)
    BY <1>1 DEF SpanIs
  <1>3. h.installed # SeqMax => Wrap(h.installed + 1) = h.installed + 1
    <2>1. h.installed + 1 \in Nat /\ (h.installed # SeqMax => h.installed + 1 <= SeqMax)
      BY <1>1, LimitAssumption
    <2> QED
      BY <2>1, WrapFacts
  <1>4. h.end = WalStart <=> wf = <<>>
    BY EmptyLog
  <1>5. wf # <<>> => h.installed # SeqMax
    <2>1. wf # <<>> => Len(wf) # 0
      BY <1>1
    <2> QED
      BY <1>1, <2>1, LimitAssumption
  <1>6. CASE X > n
    <2>1. h.installed # SeqMax
      BY <1>6 DEF BoundWraps
    <2>2. OrderedSequence = Wrap(h.installed + 1)
      BY <1>6 DEF OrderedSequence
    <2> QED
      BY <1>3, <2>1, <2>2 DEF BoundIs
  <1>7. CASE ~(X > n)
    <2>1. X \in 1..n /\ X <= n /\ n # 0
      BY <1>1, <1>2, <1>7
    <2>2. o = st[X]
      <3>1. SegmentAt(db, h.dataEnd, n, StartOf(st, n), X) = st[X]
        <4>1. h.dataEnd \in Int /\ h.dataEnd <= h.dataEnd
          BY <1>1
        <4> QED
          BY <1>1, <2>1, <4>1, SegmentFound
      <3> QED
        BY <1>1, <3>1
    <2>3. last = db[st[n]].maximum
      <3>1. CASE h.retention
        BY <1>1, <2>1, <3>1 DEF StartOf
      <3>2. CASE ~h.retention
        BY <2>1, <3>2, PriorMaxIs
      <3> QED
        BY <3>1, <3>2
    <2>4. CASE h.end = WalStart \/ h.walFirst >= last
      <3>1. OrderedSequence = db[o].first
        BY <1>7, <2>4 DEF OrderedSequence
      <3>2. ASSUME wf # <<>> PROVE db[st[n]].maximum <= FirstTimeOf(wf[1])
        <4>1. h.walFirst >= last
          BY <1>4, <2>4, <3>2
        <4>2. h.walFirst = FirstTimeOf(wf[1])
          BY <3>2 DEF Stored, HandleSays
        <4>3. wf[1] \in FrameSet
          BY <1>1, <3>2
        <4>4. FirstTimeOf(wf[1]) \in Times
          BY <4>3, FrameFacts
        <4>5. db[st[n]].maximum \in Times
          <5>1. n \in 1..n /\ n \in 1..(n + 1)
            BY <1>1, <2>1
          <5>2. SegmentWhole(db, st[n], sf[n], sa[n]) /\ st[n] \in Nat
            BY <1>1, <5>1, LayoutFacts
          <5> QED
            BY <5>2, WholeFacts
        <4> HIDE DEF last
        <4> QED
          BY <2>3, <4>1, <4>2, <4>4, <4>5, LimitAssumption DEF Times
      <3> QED
        BY <2>1, <2>2, <3>1, <3>2 DEF BoundIs
    <2>5. CASE ~(h.end = WalStart \/ h.walFirst >= last)
      <3>1. OrderedSequence = Wrap(h.installed + 1)
        BY <1>7, <2>5 DEF OrderedSequence
      <3>2. h.installed # SeqMax
        BY <1>4, <1>5, <2>5
      <3> QED
        BY <1>3, <3>1, <3>2 DEF BoundIs
    <2> QED
      BY <2>4, <2>5
  <1> QED
    BY <1>6, <1>7

\* From such a sequence on, no batch has a record older than the start of one before it.
LEMMA PastBound ==
  ASSUME NEW st, NEW sf, NEW sa, NEW wf, NEW wa, Stored(db, wal, manifest, h, st, sf, sa, wf, wa),
         NEW lo, NEW lv, Flat(h.generation, sf, wf, lo, lv), h.walOrdered,
         NEW b, BoundIs(st, wf, b), NEW x \in 1..Len(lv), lv[x].seq >= b,
         NEW y \in x..Len(lv), NEW t \in TimesOf(lv[y])
  PROVE  FirstTimeOf(lv[x]) <= t
  <1> DEFINE n == h.generation
             X == h.spanStart
  <1>1. /\ Layout(db, DataStart, h.dataEnd, n, st, sf, sa) /\ n \in Nat
        /\ h.installed \in 0..SeqMax /\ LastOf(db, st, n) <= h.installed
        /\ SpanIs(db, st, n, X)
    BY StoredFacts
  <1>2. /\ n \in Nat /\ (\A i \in 1..n : sf[i] \in Seq(FrameSet)) /\ wf \in Seq(FrameSet) /\ Len(wf) \in Nat
    BY StoredSegments
  <1>3. X \in 1..(n + 1)
    BY <1>1 DEF SpanIs
  <1>4. Ordered(wf)
    BY DEF Stored, HandleSays
  <1>5. lo \in [1..(n + 1) -> Nat] /\ lv \in Seq(FrameSet) /\ Len(lv) \in Nat
    BY DEF Flat
  <1>6. y \in 1..Len(lv) /\ x <= y /\ x \in Nat /\ y \in Nat
    BY <1>5
  <1>7. lv[x].seq \in 1..SeqMax
    <2>1. lv[x] \in FrameSet
      BY <1>5
    <2> QED
      BY <2>1, FrameFacts
  <1>8. ASSUME NEW Y \in 1..(n + 1), X <= Y, lo[Y] < x,
               Y <= n /\ wf # <<>> => db[st[n]].maximum <= FirstTimeOf(wf[1])
        PROVE  FirstTimeOf(lv[x]) <= t
    <2>1. lo[Y] < y
      BY <1>5, <1>6, <1>8
    <2>2. PICK k \in Y..(n + 1), j \in Nat : BatchAt(n, sf, wf, lo, lv, x, k, j)
      BY <1>2, <1>8, BatchAfter
    <2>3. PICK p \in Y..(n + 1), q \in Nat : BatchAt(n, sf, wf, lo, lv, y, p, q)
      BY <1>2, <1>6, <2>1, BatchAfter
    <2>4. X <= k
      BY <1>2, <1>3, <1>8, <2>2
    <2>5. k <= n /\ wf # <<>> => db[st[n]].maximum <= FirstTimeOf(wf[1])
      BY <1>2, <1>8, <2>2
    <2> QED
      BY <1>4, <1>6, <2>2, <2>3, <2>4, <2>5, SuffixLater
  <1>9. CASE b = h.installed + 1
    <2>1. n + 1 \in 1..(n + 1) /\ X <= n + 1 /\ ~(n + 1 <= n) /\ (n + 1) - 1 = n
      <3>1. n \in Nat /\ X \in 1..(n + 1)
        BY <1>2, <1>3
      <3> HIDE DEF n, X
      <3> QED
        BY <3>1
    <2>2. lo[n + 1] < x
      <3>1. SUFFICES ASSUME x <= lo[n + 1] PROVE FALSE
        <4>1. lo[n + 1] \in Nat
          BY <1>5, <2>1
        <4> QED
          BY <1>6, <4>1
      <3>2. x \in 1..lo[n + 1]
        <4>1. lo[n + 1] \in Nat
          BY <1>5, <2>1
        <4> QED
          BY <1>5, <3>1, <4>1
      <3>3. lv[x].seq <= LastOf(db, st, (n + 1) - 1)
        BY <2>1, <3>2, FlatBelow
      <3>4. LastOf(db, st, n) \in 0..SeqMax
        <4>1. n \in 0..n
          BY <1>2
        <4> QED
          BY <1>1, <4>1, SequencesGrow
      <3> QED
        BY SMTT(30), <1>1, <1>7, <1>9, <2>1, <3>3, <3>4, LimitAssumption
    <2> QED
      BY <1>8, <2>1, <2>2
  <1>10. CASE X <= n /\ b = db[st[X]].first /\ (wf # <<>> => db[st[n]].maximum <= FirstTimeOf(wf[1]))
    <2>1. X \in 1..n /\ X - 1 \in 0..n /\ (X - 1) + 1 = X /\ X - 1 < n /\ X <= X
      BY SMTT(30), <1>2, <1>3, <1>10
    <2>2. lo[X] < x
      <3>0. lo[X] \in Nat
        BY <1>3, <1>5
      <3>1. SUFFICES ASSUME x <= lo[X] PROVE FALSE
        BY <1>6, <3>0
      <3>2. x \in 1..lo[X]
        BY <1>5, <3>0, <3>1
      <3>3. lv[x].seq <= LastOf(db, st, X - 1)
        BY <1>3, <3>2, FlatBelow
      <3>4. LastOf(db, st, X - 1) \in 0..SeqMax /\ LastOf(db, st, X - 1) < db[st[(X - 1) + 1]].first
        BY <1>1, <2>1, SequencesGrow
      <3>5. db[st[X]].first \in 1..SeqMax
        <4>1. SegmentWhole(db, st[X], sf[X], sa[X]) /\ st[X] \in Nat
          <5>1. X \in 1..n /\ Layout(db, DataStart, h.dataEnd, n, st, sf, sa)
            BY <1>1, <2>1
          <5> QED
            BY <5>1, LayoutFacts
        <4> QED
          BY <4>1, WholeFacts
      <3>6. lv[x].seq >= db[st[X]].first
        BY <1>10
      <3>7. LastOf(db, st, X - 1) < db[st[X]].first
        BY <2>1, <3>4
      <3> DEFINE u == LastOf(db, st, X - 1)
                 v == db[st[X]].first
                 r == lv[x].seq
      <3>8. u \in Int /\ v \in Int /\ r \in Int /\ r <= u /\ u < v /\ r >= v
        BY <1>7, <3>3, <3>4, <3>5, <3>6, <3>7, LimitAssumption
      <3> HIDE DEF u, v, r
      <3> QED
        BY <3>8
    <2> QED
      BY <1>3, <1>8, <1>10, <2>1, <2>2
  <1> QED
    BY <1>9, <1>10 DEF BoundIs

\* What a range may be.
Interval(range) == range.from \in Nat /\ range.until \in Nat /\ range.from <= range.until

\* The ranges of queries are.
LEMMA RangeFacts ==
  ASSUME NEW range \in Ranges
  PROVE  Interval(range)
  <1>1. range \in [from : Times, until : Times, filter : BOOLEAN, series : Nat] /\ range.from <= range.until
    BY ReaderAssumption
  <1>2. range.from \in Times /\ range.until \in Times
    BY <1>1
  <1> QED
    BY <1>1, <1>2, LimitAssumption DEF Times, Interval

\* A batch whose records are all past a range has none in it.
LEMMA MatchingLate ==
  ASSUME NEW range, Interval(range), NEW f \in FrameSet, \A t \in TimesOf(f) : range.until <= t
  PROVE  Matching(f, range) = {}
  <1>1. SUFFICES ASSUME NEW x \in Matching(f, range) PROVE FALSE
    OBVIOUS
  <1>2. x \in DOMAIN f.records /\ f.records[x].time < range.until
    BY <1>1 DEF Matching
  <1>3. f.records[x].time \in TimesOf(f)
    BY <1>2 DEF TimesOf
  <1>4. range.until <= f.records[x].time
    BY <1>3
  <1>5. f.records[x].time \in Times
    BY <1>2, FrameFacts
  <1>6. range.until \in Nat
    BY DEF Interval
  <1> QED
    BY <1>2, <1>4, <1>5, <1>6, LimitAssumption DEF Times

\* An empty range has no records.
LEMMA MatchingEmpty ==
  ASSUME NEW range, Interval(range), range.from = range.until, NEW f \in FrameSet
  PROVE  Matching(f, range) = {}
  <1>1. SUFFICES ASSUME NEW x \in Matching(f, range) PROVE FALSE
    OBVIOUS
  <1>2. x \in DOMAIN f.records /\ f.records[x].time < range.until /\ f.records[x].time >= range.from
    BY <1>1 DEF Matching
  <1>3. f.records[x].time \in Times
    BY <1>2, FrameFacts
  <1>4. range.until \in Nat /\ range.from \in Nat
    BY DEF Interval
  <1> QED
    BY <1>2, <1>3, <1>4, LimitAssumption DEF Times

\* The batches from place i on that have a record in the range, and a query that
\* delivers the first of them and leaves its cursor in front of the next batch.
MatchesIn(lv, i, range) == {x \in i..Len(lv) : Matching(lv[x], range) # {}}
Answered(r, hits, lv, P) ==
    IF hits = {} THEN r = Done
    ELSE \E nx : r = [kind |-> "read", frame |-> lv[Min(hits)], cur |-> nx] /\ <<nx, Min(hits) + 1>> \in P

\* A batch past the range, in the part taken to be ordered, is followed by no match.
LEMMA NoMatchPast ==
  ASSUME NEW lv, NEW P, Viewed(db, wal, manifest, h, lv, P), ~BoundWraps, h.walOrdered, NEW range, Interval(range),
         NEW x \in 1..Len(lv), lv[x].seq >= OrderedSequence, FirstTimeOf(lv[x]) >= range.until,
         NEW y \in x..Len(lv)
  PROVE  Matching(lv[y], range) = {}
  <1>1. PICK st, sf, sa, wf, wa, lo : Stored(db, wal, manifest, h, st, sf, sa, wf, wa) /\ Flat(h.generation, sf, wf, lo, lv)
    BY DEF Viewed
  <1>2. lv \in Seq(FrameSet) /\ Len(lv) \in Nat
    BY ViewedFacts
  <1>3. lv[y] \in FrameSet /\ lv[x] \in FrameSet
    BY <1>2
  <1>4. BoundIs(st, wf, OrderedSequence)
    BY <1>1, BoundFound
  <1>5. ASSUME NEW t \in TimesOf(lv[y]) PROVE range.until <= t
    <2>1. FirstTimeOf(lv[x]) <= t
      BY <1>1, <1>4, PastBound
    <2>2. FirstTimeOf(lv[x]) \in Times
      BY <1>3, FrameFacts
    <2>3. t \in Times
      BY <1>3, EndTimes
    <2>4. range.until \in Nat
      BY DEF Interval
    <2> QED
      BY <2>1, <2>2, <2>3, <2>4, LimitAssumption DEF Times
  <1> QED
    BY <1>3, <1>5, MatchingLate

\* next_range finds the first batch from its cursor on that has a record in the range.
LEMMA RangeFound ==
  ASSUME NEW lv, NEW P, Viewed(db, wal, manifest, h, lv, P), NEW cur, NEW i, <<cur, i>> \in P,
         ~BoundWraps, NEW range, Interval(range)
  PROVE  Answered(NextRangeFrom(cur, range), MatchesIn(lv, i, range), lv, P)
  <1>2. Follows(db, wal, h, lv, P)
    BY ViewedFacts
  <1> DEFINE s == Reads(db, wal, h, cur)
             T == RangeStops(s, range)
             k == Min(T)
             z == (Len(lv) - i) + 1
             hits == MatchesIn(lv, i, range)
             r == NextRangeFrom(cur, range)
  <1>3. ReadToEnd(s, lv, P, cur, i)
    BY <1>2, ReadsFound
  <1>4. lv \in Seq(FrameSet) /\ Len(lv) \in Nat /\ i \in 1..(Len(lv) + 1)
    BY <1>2 DEF Follows
  <1>5. z \in Nat /\ i \in Nat
    BY <1>4
  <1>6. r = IF range.from = range.until THEN Done
            ELSE IF s[k].kind = "read" /\ Matching(s[k].frame, range) = {} THEN Done
            ELSE s[k]
    BY DEF NextRangeFrom, RangeStops
  <1>7. CASE range.from = range.until
    <2>1. ASSUME NEW x \in i..Len(lv) PROVE Matching(lv[x], range) = {}
      <3>1. lv[x] \in FrameSet
        BY <1>4
      <3> QED
        BY <1>7, <3>1, MatchingEmpty
    <2>2. hits = {}
      BY <2>1 DEF MatchesIn
    <2>3. r = Done
      BY <1>6, <1>7
    <2> QED
      BY <2>2, <2>3 DEF Answered
  <1>8. CASE range.from # range.until
    <2> HIDE DEF s, k
    <2>1. Len(s) = z + 2 /\ s[z + 2] = Done /\ s \in Seq(ReadSet)
      BY <1>3 DEF ReadToEnd
    <2>2. T \subseteq Nat /\ z + 2 \in T
      BY <1>5, <2>1, DoneFacts DEF RangeStops
    <2>3. k \in T /\ \A j \in T : k <= j
      <3> HIDE DEF T
      <3> QED
        BY <2>2, MinExists DEF k
    <2>4. k \in 2..(z + 2) /\ k \in Nat
      BY <1>5, <2>1, <2>3 DEF RangeStops
    <2>5. ASSUME NEW m \in 2..(z + 1) PROVE /\ s[m].kind = "read" /\ s[m].frame = lv[(i + m) - 2] /\ <<s[m].cur, (i + m) - 1>> \in P
                                            /\ (i + m) - 2 \in i..Len(lv) /\ (i + m) - 2 \in 1..Len(lv)
                                            /\ s[m] = [kind |-> "read", frame |-> lv[(i + m) - 2], cur |-> s[m].cur]
      <3>1. m \in 1..(z + 1) /\ m \in 1..Len(s)
        BY <1>5, <2>1
      <3>2. s[m].kind = "read" /\ <<s[m].cur, (i + m) - 1>> \in P
        BY <1>3, <3>1 DEF ReadToEnd
      <3>3. s[m].frame = lv[(i + m) - 2]
        BY <1>3 DEF ReadToEnd
      <3>4. (i + m) - 2 \in i..Len(lv) /\ (i + m) - 2 \in 1..Len(lv)
        BY <1>4
      <3>5. s[m] \in ReadSet
        BY <2>1, <3>1
      <3>6. s[m] \in [kind : {"read"}, frame : FrameSet \cup {Bad}, cur : CursorType]
        BY <3>2, <3>5, DoneFacts DEF ReadSet
      <3>7. s[m] = [kind |-> "read", frame |-> s[m].frame, cur |-> s[m].cur]
        BY <3>6
      <3> QED
        BY <3>2, <3>3, <3>4, <3>7
    <2>6. ASSUME NEW x \in i..Len(lv), x < (i + k) - 2 PROVE Matching(lv[x], range) = {}
      <3> DEFINE m == (x - i) + 2
      <3>1. m \in 2..(z + 1) /\ m < k /\ (i + m) - 2 = x /\ m \in 2..Len(s) /\ m \in Nat
        BY <1>4, <1>5, <2>1, <2>4, <2>6
      <3> HIDE DEF m
      <3>2. m \notin T
        BY <2>3, <2>4, <3>1
      <3>3. Matching(s[m].frame, range) = {}
        BY <3>1, <3>2 DEF RangeStops
      <3>4. s[m].frame = lv[(i + m) - 2]
        BY <2>5, <3>1
      <3> QED
        BY <3>1, <3>3, <3>4
    <2>7. CASE k = z + 2
      <3>1. r = Done
        BY <1>6, <1>8, <2>1, <2>7, DoneFacts
      <3>2. ASSUME NEW x \in i..Len(lv) PROVE x < (i + k) - 2
        BY <1>4, <2>7
      <3>3. hits = {}
        BY <2>6, <3>2 DEF MatchesIn
      <3> QED
        BY <3>1, <3>3 DEF Answered
    <2>8. CASE k # z + 2
      <3> DEFINE x0 == (i + k) - 2
      <3>1. k \in 2..(z + 1)
        BY <1>5, <2>4, <2>8
      <3>2. /\ s[k].kind = "read" /\ s[k].frame = lv[x0] /\ <<s[k].cur, (i + k) - 1>> \in P
            /\ x0 \in i..Len(lv) /\ x0 \in 1..Len(lv)
            /\ s[k] = [kind |-> "read", frame |-> lv[x0], cur |-> s[k].cur]
        BY <2>5, <3>1
      <3>3. (i + k) - 1 = x0 + 1
        BY <1>5, <2>4
      <3>4. CASE Matching(lv[x0], range) # {}
        <4>1. r = s[k]
          BY <1>6, <1>8, <3>2, <3>4
        <4>2. x0 \in hits
          BY <3>2, <3>4 DEF MatchesIn
        <4>3. hits \subseteq Int /\ \A y \in hits : x0 <= y
          <5>1. ASSUME NEW y \in hits PROVE y \in Int /\ x0 <= y
            <6>1. y \in i..Len(lv) /\ Matching(lv[y], range) # {}
              BY <5>1 DEF MatchesIn
            <6>2. y \in Int
              BY <1>4, <6>1
            <6>4. ~(y < x0)
              <7>1. SUFFICES ASSUME y < x0 PROVE FALSE
                OBVIOUS
              <7>2. Matching(lv[y], range) = {}
                BY <2>6, <6>1, <7>1
              <7> QED
                BY <6>1, <7>2
            <6>3. x0 \in Int
              BY <3>2
            <6> HIDE DEF x0
            <6> QED
              BY <6>2, <6>3, <6>4
          <5> QED
            BY <5>1
        <4>4. Min(hits) = x0
          <5> HIDE DEF hits, x0
          <5> QED
            BY <4>2, <4>3, MinIs
        <4>5. r = [kind |-> "read", frame |-> lv[Min(hits)], cur |-> s[k].cur] /\ <<s[k].cur, Min(hits) + 1>> \in P
          BY <3>2, <3>3, <4>1, <4>4
        <4>6. hits # {}
          BY <4>2
        <4> HIDE DEF hits, r
        <4>7. Answered(r, hits, lv, P)
          BY <4>5, <4>6 DEF Answered
        <4> QED
          BY <4>7 DEF r, hits
      <3>5. CASE Matching(lv[x0], range) = {}
        <4>1. r = Done
          BY <1>6, <1>8, <3>2, <3>5
        <4>2. s[k].frame.seq >= OrderedSequence /\ h.walOrdered /\ FirstTimeOf(s[k].frame) >= range.until
          BY <2>3, <3>2, <3>5 DEF RangeStops
        <4>3. lv[x0].seq >= OrderedSequence /\ FirstTimeOf(lv[x0]) >= range.until
          BY <3>2, <4>2
        <4>4. ASSUME NEW y \in x0..Len(lv) PROVE Matching(lv[y], range) = {}
          <5> HIDE DEF x0
          <5> QED
            BY <3>2, <4>2, <4>3, NoMatchPast
        <4>5. ASSUME NEW y \in i..Len(lv) PROVE Matching(lv[y], range) = {}
          <5>1. CASE y < x0
            BY <2>6, <5>1
          <5>2. CASE ~(y < x0)
            <6>1. y \in x0..Len(lv)
              BY <1>4, <3>2, <5>2
            <6> QED
              BY <4>4, <6>1
          <5> QED
            BY <5>1, <5>2
        <4>6. hits = {}
          BY <4>5 DEF MatchesIn
        <4> QED
          BY <4>1, <4>6 DEF Answered
      <3> QED
        BY <3>4, <3>5
    <2> QED
      BY <2>7, <2>8
  <1> QED
    BY <1>7, <1>8

\* Where the files and the handle fit, next_range is complete.
LEMMA InvRange ==
  ASSUME Inv
  PROVE  RangeComplete
  <1>1. PICK lv, P, i : Viewed(db, wal, manifest, h, lv, P) /\ <<c, i>> \in P
    BY WholeViewed DEF Inv
  <1>2. unread = Rest(lv, i)
    BY <1>1, ViewedDrain DEF Inv
  <1>3. lv \in Seq(FrameSet) /\ Len(lv) \in Nat
    BY <1>1, ViewedFacts
  <1>11. Follows(db, wal, h, lv, P)
    BY <1>1, ViewedFacts
  <1>4. i \in 1..(Len(lv) + 1)
    BY <1>1, <1>11 DEF Follows
  <1>5. Len(unread) = (Len(lv) - i) + 1 /\ DOMAIN unread = 1..((Len(lv) - i) + 1)
        /\ \A j \in 1..((Len(lv) - i) + 1) : unread[j] = lv[(i + j) - 1]
    BY <1>2, <1>3, <1>4 DEF Rest
  <1> SUFFICES ASSUME ~BoundWraps, NEW range \in Ranges
               PROVE  LET r == NextRangeFrom(c, range)
                          hits == {j \in DOMAIN unread : Matching(unread[j], range) # {}}
                      IN  IF hits = {} THEN r = Done
                          ELSE r.kind = "read" /\ r.frame = unread[Min(hits)]
    BY DEF RangeComplete
  <1> DEFINE r == NextRangeFrom(c, range)
             hits == {j \in DOMAIN unread : Matching(unread[j], range) # {}}
             all == MatchesIn(lv, i, range)
  <1>6. Answered(r, all, lv, P)
    BY <1>1, RangeFacts, RangeFound
  <1>7. ASSUME NEW j \in hits PROVE (i + j) - 1 \in all /\ j \in Int
    <2>1. j \in 1..((Len(lv) - i) + 1) /\ Matching(unread[j], range) # {} /\ unread[j] = lv[(i + j) - 1]
      BY <1>5
    <2>2. (i + j) - 1 \in i..Len(lv)
      BY <1>3, <1>4, <2>1
    <2> QED
      BY <2>1, <2>2 DEF MatchesIn
  <1>8. ASSUME NEW x \in all PROVE (x - i) + 1 \in hits /\ x \in Nat
    <2>1. x \in i..Len(lv) /\ Matching(lv[x], range) # {}
      BY <1>8 DEF MatchesIn
    <2>2. (x - i) + 1 \in 1..((Len(lv) - i) + 1) /\ (i + ((x - i) + 1)) - 1 = x /\ x \in Nat
      BY <1>3, <1>4, <2>1
    <2>3. unread[(x - i) + 1] = lv[x]
      BY <1>5, <2>2
    <2> QED
      BY <1>5, <2>1, <2>2, <2>3
  <1> HIDE DEF hits, all, r
  <1>9. CASE all = {}
    <2>1. hits = {}
      BY <1>7, <1>9
    <2>2. r = Done
      BY <1>6, <1>9 DEF Answered
    <2> QED
      BY <2>1, <2>2 DEF hits, r
  <1>10. CASE all # {}
    <2>1. PICK nx : r = [kind |-> "read", frame |-> lv[Min(all)], cur |-> nx]
      BY <1>6, <1>10 DEF Answered
    <2>2. Min(all) \in all /\ \A y \in all : Min(all) <= y
      <3>1. all \subseteq Nat
        BY <1>8
      <3> QED
        BY <1>10, <3>1, MinExists
    <2> DEFINE x == Min(all)
               j == (x - i) + 1
    <2>3. j \in hits /\ x \in Nat /\ (i + j) - 1 = x /\ j \in Int
      <3>1. j \in hits /\ x \in Nat
        BY <1>8, <2>2
      <3> HIDE DEF x
      <3> QED
        BY <1>4, <3>1
    <2>4. ASSUME NEW y \in hits PROVE j <= y /\ y \in Int
      <3>1. (i + y) - 1 \in all /\ y \in Int
        BY <1>7
      <3>2. x <= (i + y) - 1
        BY <2>2, <3>1
      <3> HIDE DEF x
      <3> QED
        BY <1>4, <2>3, <3>1, <3>2
    <2>5. Min(hits) = j
      <3>1. hits \subseteq Int /\ \A y \in hits : j <= y
        BY <2>4
      <3> HIDE DEF j
      <3> QED
        BY <2>3, <3>1, MinIs
    <2>6. unread[j] = lv[x]
      <3>1. j \in 1..((Len(lv) - i) + 1)
        <4>1. j \in DOMAIN unread
          BY <2>3 DEF hits
        <4> QED
          BY <4>1, <1>5
      <3> HIDE DEF x, j
      <3> QED
        BY <1>5, <2>3, <3>1
    <2>7. r.kind = "read" /\ r.frame = unread[Min(hits)]
      BY <2>1, <2>5, <2>6
    <2>8. hits # {}
      BY <2>3
    <2> QED
      BY <2>7, <2>8 DEF hits, r
  <1> QED
    BY <1>9, <1>10

\* next_range delivers the first batch from the cursor on that has a record in its
\* range, and ends a query early only where no later batch has one.
THEOREM ReaderRange ==
  (Spec => []RangeComplete) /\ (IndexSpec => []RangeComplete)
  <1>1. Inv => RangeComplete
    BY InvRange
  <1> QED
    BY <1>1, ReaderInvariant, PTL

------------------------------------------------------------------------------
(* Aggregates. *)

\* A set of numbers that is empty or has a least and a greatest one.
Extremes(V) ==
    V = {} \/ ((\E a \in V : \A v \in V : a <= v) /\ (\E b \in V : \A v \in V : v <= b))

\* One more number.
LEMMA ExtremesAdd ==
  ASSUME NEW V, V \subseteq Int, Extremes(V), NEW x \in Int
  PROVE  Extremes(V \cup {x})
  <1> DEFINE W == V \cup {x}
  <1>1. CASE V = {}
    <2>1. W = {x}
      BY <1>1
    <2>2. x <= x
      OBVIOUS
    <2> HIDE DEF W
    <2>3. Extremes(W)
      BY <2>1, <2>2 DEF Extremes
    <2> QED
      BY <2>3 DEF W
  <1>2. CASE V # {}
    <2>1. PICK a \in V : \A v \in V : a <= v
      BY <1>2 DEF Extremes
    <2>2. PICK b \in V : \A v \in V : v <= b
      BY <1>2 DEF Extremes
    <2>3. a \in Int /\ b \in Int
      BY <2>1, <2>2
    <2>4. \E p \in W : \A v \in W : p <= v
      <3>1. CASE a <= x
        BY <2>1, <3>1
      <3>2. CASE ~(a <= x)
        <4>1. ASSUME NEW v \in W PROVE x <= v
          BY <2>1, <2>3, <3>2
        <4> QED
          BY <4>1
      <3> QED
        BY <3>1, <3>2
    <2>5. \E p \in W : \A v \in W : v <= p
      <3>1. CASE x <= b
        BY <2>2, <3>1
      <3>2. CASE ~(x <= b)
        <4>1. ASSUME NEW v \in W PROVE v <= x
          BY <2>2, <2>3, <3>2
        <4> QED
          BY <4>1
      <3> QED
        BY <3>1, <3>2
    <2> QED
      BY <2>4, <2>5 DEF Extremes
  <1> QED
    BY <1>1, <1>2

\* The numbers at some places of a sequence of them.
LEMMA ExtremesAt ==
  ASSUME NEW n \in Nat, NEW g, NEW S, S \subseteq 1..n, \A i \in S : g[i] \in Int
  PROVE  Extremes({g[i] : i \in S})
  <1> DEFINE V(k) == {g[i] : i \in S \cap (1..k)}
             T == {k \in Nat : Extremes(V(k))}
  <1>1. 0 \in T
    <2>1. V(0) = {}
      OBVIOUS
    <2>2. Extremes(V(0))
      BY <2>1 DEF Extremes
    <2> QED
      BY <2>2
  <1>2. ASSUME NEW k \in 0..(n - 1), k \in T PROVE k + 1 \in T
    <2>1. Extremes(V(k)) /\ k \in Nat /\ k + 1 \in Nat
      BY <1>2
    <2>2. V(k) \subseteq Int
      OBVIOUS
    <2>3. CASE k + 1 \in S
      <3>1. S \cap (1..(k + 1)) = (S \cap (1..k)) \cup {k + 1}
        BY <2>1, <2>3
      <3>2. V(k + 1) = V(k) \cup {g[k + 1]}
        BY <3>1
      <3>3. g[k + 1] \in Int
        BY <2>3
      <3>4. Extremes(V(k) \cup {g[k + 1]})
        <4> HIDE DEF V
        <4> QED
          BY <2>1, <2>2, <3>3, ExtremesAdd
      <3> QED
        BY <2>1, <3>2, <3>4
    <2>4. CASE k + 1 \notin S
      <3>1. S \cap (1..(k + 1)) = S \cap (1..k)
        BY <2>1, <2>4
      <3>2. V(k + 1) = V(k)
        BY <3>1
      <3> QED
        BY <2>1, <3>2
    <2> QED
      BY <2>3, <2>4
  <1>3. n \in T
    <2> HIDE DEF T
    <2>1. \A k \in 0..n : k \in T
      BY <1>1, <1>2, UpTo
    <2> QED
      BY <2>1
  <1>4. S \cap (1..n) = S
    OBVIOUS
  <1> QED
    BY <1>3, <1>4

\* The values that a batch has in a range.
ValuesIn(f, range) == {f.records[i].value : i \in Matching(f, range)}

\* They are finitely many whole numbers.
LEMMA ValuesFacts ==
  ASSUME NEW f \in FrameSet, NEW range
  PROVE  /\ ValuesIn(f, range) \subseteq Int /\ Extremes(ValuesIn(f, range))
         /\ IsFiniteSet(Matching(f, range))
         /\ Matching(f, range) # {} => ValuesIn(f, range) # {}
  <1> DEFINE n == Len(f.records)
             S == Matching(f, range)
             g == [i \in 1..n |-> f.records[i].value]
  <1>1. f.records \in Seq(Records)
    BY FrameFacts
  <1>2. n \in Nat /\ DOMAIN f.records = 1..n
    BY <1>1
  <1>3. S \subseteq 1..n
    BY <1>2 DEF Matching
  <1>4. ASSUME NEW i \in S PROVE f.records[i].value \in Int /\ g[i] = f.records[i].value
    <2>1. i \in 1..n
      BY <1>3
    <2>2. f.records[i] \in Records
      BY <1>1, <2>1
    <2> QED
      BY <2>1, <2>2 DEF Records
  <1> HIDE DEF g, S
  <1>5. {g[i] : i \in S} = {f.records[i].value : i \in S}
    BY <1>4
  <1>6. \A i \in S : g[i] \in Int
    BY <1>4
  <1>7. Extremes({g[i] : i \in S})
    <2> HIDE DEF n
    <2> QED
      BY <1>2, <1>3, <1>6, ExtremesAt
  <1>8. IsFiniteSet(1..n)
    BY <1>2, FS_Interval
  <1>9. IsFiniteSet(S)
    BY <1>3, <1>8, FS_Subset
  <1>10. {f.records[i].value : i \in S} \subseteq Int
    BY <1>4
  <1> QED
    BY <1>5, <1>7, <1>9, <1>10 DEF S, ValuesIn

\* The records in a range of the batches in front of place x, and their values.
Hits(lv, x, range) == UNION {{i} \X Matching(lv[i], range) : i \in 1..(x - 1)}
HitValues(lv, x, range) == {lv[p[1]].records[p[2]].value : p \in Hits(lv, x, range)}

\* The least and the greatest of some numbers.
Bounds(a, b, S) == a \in S /\ b \in S /\ \A v \in S : a <= v /\ v <= b

\* They are what Min and Max find.
LEMMA BoundsAre ==
  ASSUME NEW S, S \subseteq Int, NEW a, NEW b, Bounds(a, b, S)
  PROVE  Min(S) = a /\ Max(S) = b
  <1>1. a \in S /\ b \in S /\ \A v \in S : a <= v /\ v <= b
    BY DEF Bounds
  <1>2. \A v \in S : b >= v
    BY <1>1
  <1>3. Min(S) = a
    BY <1>1, MinIs
  <1>4. Max(S) = b
    BY <1>1, <1>2, MaxIs
  <1> QED
    BY <1>3, <1>4

\* The extremes so far stand for the numbers so far.
LEMMA BoundsJoin ==
  ASSUME NEW V, NEW W, V \subseteq Int, W \subseteq Int, NEW a, NEW b, Bounds(a, b, V), NEW wa, NEW wb, Bounds(wa, wb, W)
  PROVE  \E p, q : Bounds(p, q, V \cup W) /\ Bounds(p, q, W \cup {a, b})
  <1> DEFINE p == IF a <= wa THEN a ELSE wa
             q == IF wb <= b THEN b ELSE wb
  <1>1. a \in V /\ b \in V /\ \A v \in V : a <= v /\ v <= b
    BY DEF Bounds
  <1>2. wa \in W /\ wb \in W /\ \A v \in W : wa <= v /\ v <= wb
    BY DEF Bounds
  <1>3. a \in Int /\ b \in Int /\ wa \in Int /\ wb \in Int /\ a <= b
    BY <1>1, <1>2
  <1>4. p \in {a, wa} /\ q \in {b, wb} /\ p \in Int /\ q \in Int /\ p <= a /\ p <= wa /\ b <= q /\ wb <= q
    BY <1>3
  <1> HIDE DEF p, q
  <1>5. ASSUME NEW v \in V PROVE p <= v /\ v <= q
    <2>1. v \in Int /\ a <= v /\ v <= b
      BY <1>1
    <2> QED
      BY <1>3, <1>4, <2>1
  <1>6. ASSUME NEW v \in W PROVE p <= v /\ v <= q
    <2>1. v \in Int /\ wa <= v /\ v <= wb
      BY <1>2
    <2> QED
      BY <1>3, <1>4, <2>1
  <1>7. Bounds(p, q, V \cup W)
    BY <1>1, <1>2, <1>4, <1>5, <1>6 DEF Bounds
  <1>8. Bounds(p, q, W \cup {a, b})
    BY <1>1, <1>2, <1>4, <1>5, <1>6 DEF Bounds
  <1> QED
    BY <1>7, <1>8

\* A total that is exact for some records and their values.
Tallied(acc, at, V) ==
    /\ IsFiniteSet(at) /\ V \subseteq Int
    /\ \/ at = {} /\ V = {} /\ acc = NoTotal
       \/ at # {} /\ \E a, b : acc = [count |-> Cardinality(at), min |-> a, max |-> b] /\ Bounds(a, b, V)

\* Adding a batch's records to an exact total.
LEMMA TallyOn ==
  ASSUME NEW acc, NEW at, NEW V, Tallied(acc, at, V), NEW f \in FrameSet, NEW range, Matching(f, range) # {},
         NEW m, at \cap ({m} \X Matching(f, range)) = {}
  PROVE  Tallied(Added(acc, f, range), at \cup ({m} \X Matching(f, range)), V \cup ValuesIn(f, range))
  <1> DEFINE S == Matching(f, range)
             X == {m} \X S
             W == ValuesIn(f, range)
             U == W \cup (IF acc.count = 0 THEN {} ELSE {acc.min, acc.max})
  <1>1. IsFiniteSet(at) /\ V \subseteq Int
    BY DEF Tallied
  <1>2. W \subseteq Int /\ Extremes(W) /\ IsFiniteSet(S) /\ W # {}
    BY ValuesFacts
  <1>3. Added(acc, f, range) = [count |-> acc.count + Cardinality(S), min |-> Min(U), max |-> Max(U)]
    BY DEF Added, ValuesIn
  <1>0. S # {} /\ at \cap X = {}
    OBVIOUS
  <1> HIDE DEF S, W, U
  <1>4. IsFiniteSet(X) /\ Cardinality(X) = Cardinality(S) /\ Cardinality(S) \in Nat
    <2>1. IsFiniteSet({m}) /\ Cardinality({m}) = 1
      BY FS_Singleton
    <2>2. IsFiniteSet(X) /\ Cardinality(X) = Cardinality({m}) * Cardinality(S)
      BY <1>2, <2>1, FS_Product
    <2>3. Cardinality(S) \in Nat
      BY <1>2, FS_CardinalityType
    <2> QED
      BY <2>1, <2>2, <2>3
  <1>9. at \cup X # {}
    <2>1. PICK j : j \in S
      BY <1>0
    <2>2. <<m, j>> \in X
      BY <2>1
    <2> QED
      BY <2>2
  <1> HIDE DEF X
  <1>5. IsFiniteSet(at \cup X) /\ Cardinality(at \cup X) = Cardinality(at) + Cardinality(S) /\ Cardinality(at) \in Nat
    <2>2. IsFiniteSet(at \cup X) /\ Cardinality(at \cup X) = Cardinality(at) + Cardinality(X) - Cardinality(at \cap X)
      BY <1>1, <1>4, FS_Union
    <2>3. Cardinality(at \cap X) = 0
      BY <1>0, FS_EmptySet
    <2>4. Cardinality(at) \in Nat
      BY <1>1, FS_CardinalityType
    <2> QED
      BY <1>4, <2>2, <2>3, <2>4
  <1>6. PICK wa, wb : Bounds(wa, wb, W)
    BY <1>2 DEF Extremes, Bounds
  <1>7. V \cup W \subseteq Int
    BY <1>1, <1>2
  <1>10. CASE at = {} /\ V = {} /\ acc = NoTotal
    <2>1. acc.count = 0 /\ Cardinality(at) = 0
      BY <1>10, FS_EmptySet DEF NoTotal
    <2>2. U = W /\ V \cup W = W
      BY <1>10, <2>1 DEF U
    <2>3. Min(U) = wa /\ Max(U) = wb
      BY <1>2, <1>6, <2>2, BoundsAre
    <2>4. acc.count + Cardinality(S) = Cardinality(at \cup X)
      BY <1>4, <1>5, <2>1
    <2>5. Added(acc, f, range) = [count |-> Cardinality(at \cup X), min |-> wa, max |-> wb] /\ Bounds(wa, wb, V \cup W)
      BY <1>3, <1>6, <2>2, <2>3, <2>4
    <2>6. Tallied(Added(acc, f, range), at \cup X, V \cup W)
      BY <1>5, <1>7, <1>9, <2>5 DEF Tallied
    <2> QED
      BY <2>6 DEF X, S, W
  <1>11. CASE at # {}
    <2>1. PICK a, b : acc = [count |-> Cardinality(at), min |-> a, max |-> b] /\ Bounds(a, b, V)
      BY <1>11 DEF Tallied
    <2>2. Cardinality(at) # 0
      BY <1>1, <1>11, FS_EmptySet
    <2>3. acc.count = Cardinality(at) /\ acc.min = a /\ acc.max = b
      BY <2>1
    <2>4. U = W \cup {a, b}
      BY <2>2, <2>3 DEF U
    <2>5. PICK p, q : Bounds(p, q, V \cup W) /\ Bounds(p, q, W \cup {a, b})
      BY <1>1, <1>2, <1>6, <2>1, BoundsJoin
    <2>6. U \subseteq Int
      BY <1>1, <1>2, <2>1, <2>4 DEF Bounds
    <2>7. Min(U) = p /\ Max(U) = q
      BY <2>4, <2>5, <2>6, BoundsAre
    <2>8. acc.count + Cardinality(S) = Cardinality(at \cup X)
      BY <1>5, <2>3
    <2>9. Added(acc, f, range) = [count |-> Cardinality(at \cup X), min |-> p, max |-> q] /\ Bounds(p, q, V \cup W)
      BY <1>3, <2>5, <2>7, <2>8
    <2>10. Tallied(Added(acc, f, range), at \cup X, V \cup W)
      BY <1>5, <1>7, <1>9, <2>9 DEF Tallied
    <2> QED
      BY <2>10 DEF X, S, W
  <1>12. (at = {} /\ V = {} /\ acc = NoTotal) \/ at # {}
    BY DEF Tallied
  <1> QED
    BY <1>10, <1>11, <1>12

\* No batch from place x to place n has a record in the range.
NoneIn(lv, x, n, range) == \A y \in x..n : Matching(lv[y], range) = {}

\* The records up to the next batch that has any are that batch's records.
LEMMA HitsOn ==
  ASSUME NEW lv, NEW range, NEW x \in Nat, x >= 1, NEW m \in Nat, x <= m, NoneIn(lv, x, m - 1, range)
  PROVE  /\ Hits(lv, m + 1, range) = Hits(lv, x, range) \cup ({m} \X Matching(lv[m], range))
         /\ HitValues(lv, m + 1, range) = HitValues(lv, x, range) \cup ValuesIn(lv[m], range)
         /\ Hits(lv, x, range) \cap ({m} \X Matching(lv[m], range)) = {}
  <1> DEFINE A == Hits(lv, x, range)
             B == {m} \X Matching(lv[m], range)
             C == Hits(lv, m + 1, range)
  <1>1. (m + 1) - 1 = m
    OBVIOUS
  <1>2. ASSUME NEW p \in C PROVE p \in A \cup B
    <2>1. PICK i \in 1..m : p \in {i} \X Matching(lv[i], range)
      BY <1>1 DEF Hits
    <2>2. CASE i = m
      BY <2>1, <2>2
    <2>3. CASE i \in 1..(x - 1)
      BY <2>1, <2>3 DEF Hits
    <2>4. CASE i \in x..(m - 1)
      <3>1. Matching(lv[i], range) = {}
        BY <2>4 DEF NoneIn
      <3> QED
        BY <2>1, <3>1
    <2>5. i = m \/ i \in 1..(x - 1) \/ i \in x..(m - 1)
      OBVIOUS
    <2> QED
      BY <2>2, <2>3, <2>4, <2>5
  <1>3. ASSUME NEW p \in A PROVE p \in C
    <2>1. PICK i \in 1..(x - 1) : p \in {i} \X Matching(lv[i], range)
      BY DEF Hits
    <2>2. i \in 1..((m + 1) - 1)
      BY <1>1
    <2> QED
      BY <2>1, <2>2 DEF Hits
  <1>4. ASSUME NEW p \in B PROVE p \in C
    <2>1. m \in 1..((m + 1) - 1)
      OBVIOUS
    <2> QED
      BY <2>1 DEF Hits
  <1>5. C = A \cup B
    BY <1>2, <1>3, <1>4
  <1>6. ASSUME NEW p \in A, p \in B PROVE FALSE
    <2>1. PICK i \in 1..(x - 1) : p \in {i} \X Matching(lv[i], range)
      BY DEF Hits
    <2>2. p[1] = i /\ p[1] = m
      BY <1>6, <2>1
    <2> QED
      BY <2>2
  <1>7. {lv[p[1]].records[p[2]].value : p \in B} = ValuesIn(lv[m], range)
    <2>1. ASSUME NEW p \in B PROVE lv[p[1]].records[p[2]].value \in ValuesIn(lv[m], range)
      <3>1. p[1] = m /\ p[2] \in Matching(lv[m], range)
        OBVIOUS
      <3> QED
        BY <3>1 DEF ValuesIn
    <2>2. ASSUME NEW j \in Matching(lv[m], range)
          PROVE lv[m].records[j].value \in {lv[p[1]].records[p[2]].value : p \in B}
      <3>1. <<m, j>> \in B /\ <<m, j>>[1] = m /\ <<m, j>>[2] = j
        OBVIOUS
      <3> HIDE DEF B
      <3> QED
        BY <3>1
    <2> HIDE DEF B
    <2> QED
      BY <2>1, <2>2 DEF ValuesIn
  <1> HIDE DEF A, B, C
  <1>8. {lv[p[1]].records[p[2]].value : p \in C}
          = {lv[p[1]].records[p[2]].value : p \in A} \cup {lv[p[1]].records[p[2]].value : p \in B}
    BY <1>5
  <1>9. A \cap B = {}
    BY <1>6
  <1> QED
    BY <1>5, <1>7, <1>8, <1>9 DEF A, B, C, HitValues

\* Where no batch from x on has a record in the range, all the records are in
\* front of it.
LEMMA HitsEnd ==
  ASSUME NEW lv, NEW range, NEW x \in Nat, x >= 1, NEW n \in Nat, x <= n + 1, NoneIn(lv, x, n, range)
  PROVE  Hits(lv, n + 1, range) = Hits(lv, x, range)
  <1>1. (n + 1) - 1 = n
    OBVIOUS
  <1>2. ASSUME NEW p \in Hits(lv, n + 1, range) PROVE p \in Hits(lv, x, range)
    <2>1. PICK i \in 1..n : p \in {i} \X Matching(lv[i], range)
      BY <1>1 DEF Hits
    <2>2. CASE i \in 1..(x - 1)
      BY <2>1, <2>2 DEF Hits
    <2>3. CASE i \in x..n
      <3>1. Matching(lv[i], range) = {}
        BY <2>3 DEF NoneIn
      <3> QED
        BY <2>1, <3>1
    <2>4. i \in 1..(x - 1) \/ i \in x..n
      OBVIOUS
    <2> QED
      BY <2>2, <2>3, <2>4
  <1>3. ASSUME NEW p \in Hits(lv, x, range) PROVE p \in Hits(lv, n + 1, range)
    <2>1. PICK i \in 1..(x - 1) : p \in {i} \X Matching(lv[i], range)
      BY DEF Hits
    <2>2. i \in 1..((n + 1) - 1)
      BY <1>1
    <2> QED
      BY <2>1, <2>2 DEF Hits
  <1> QED
    BY <1>2, <1>3

\* Queries made one after another from a cursor: each starts where the one before
\* it left the cursor, k of them delivered a batch, and the places they leave the
\* cursor at only grow.
AnswersSoFar(s, k, P, cur, range) ==
    /\ s \in Seq(ReadSet) /\ Len(s) = k + 1 /\ s[1].cur = cur
    /\ \A j \in 1..(k + 1) : s[j].kind = "read"
    /\ \A j \in 1..k : s[j + 1] = NextRangeFrom(s[j].cur, range)
    /\ \E x \in Nat : <<s[k + 1].cur, x>> \in P /\ x >= k + 1

\* n of them delivered a batch, and the one after them found the end.
AnswersToEnd(s, n, cur, range) ==
    /\ s \in Seq(ReadSet) /\ n \in Nat /\ Len(s) = n + 2 /\ s[1].cur = cur /\ s[n + 2] = Done
    /\ \A j \in 1..(n + 1) : s[j].kind = "read" /\ s[j + 1] = NextRangeFrom(s[j].cur, range)

AnswersGo(s, k, P, cur, range) == AnswersSoFar(s, k, P, cur, range) \/ \E n : AnswersToEnd(s, n, cur, range)

\* One more of them.
LEMMA AnswerOneMore ==
  ASSUME NEW lv, NEW P, Viewed(db, wal, manifest, h, lv, P), ~BoundWraps, NEW range \in Ranges,
         NEW cur, NEW k \in Nat, NEW s, AnswersGo(s, k, P, cur, range)
  PROVE  AnswersGo(AnswerStep(range, s), k + 1, P, cur, range)
  <1> DEFINE e == s[Len(s)]
             r == NextRangeFrom(e.cur, range)
             t == Append(s, r)
  <1>1. CASE \E n : AnswersToEnd(s, n, cur, range)
    <2>1. PICK n : AnswersToEnd(s, n, cur, range)
      BY <1>1
    <2>2. e = Done
      BY <2>1 DEF AnswersToEnd
    <2>3. AnswerStep(range, s) = s
      BY <2>2, DoneFacts DEF AnswerStep
    <2> QED
      BY <2>1, <2>3 DEF AnswersGo
  <1>2. CASE AnswersSoFar(s, k, P, cur, range)
    <2>1. /\ s \in Seq(ReadSet) /\ Len(s) = k + 1 /\ s[1].cur = cur
          /\ \A j \in 1..(k + 1) : s[j].kind = "read"
          /\ \A j \in 1..k : s[j + 1] = NextRangeFrom(s[j].cur, range)
      BY <1>2 DEF AnswersSoFar
    <2>2. PICK x \in Nat : <<s[k + 1].cur, x>> \in P /\ x >= k + 1
      BY <1>2 DEF AnswersSoFar
    <2>3. e = s[k + 1] /\ e.kind = "read"
      BY <2>1
    <2>4. AnswerStep(range, s) = t
      BY <2>3 DEF AnswerStep
    <2>5. Answered(r, MatchesIn(lv, x, range), lv, P)
      <3> HIDE DEF e
      <3> QED
        BY <2>2, <2>3, RangeFacts, RangeFound
    <2>6. lv \in Seq(FrameSet) /\ Len(lv) \in Nat /\ P \subseteq CursorType \X (1..(Len(lv) + 1))
      <3>1. Follows(db, wal, h, lv, P)
        BY ViewedFacts
      <3> QED
        BY <3>1 DEF Follows
    <2> DEFINE hits == MatchesIn(lv, x, range)
    <2>7. CASE hits = {}
      <3>1. r = Done
        BY <2>5, <2>7 DEF Answered
      <3>2. r \in ReadSet
        BY <3>1 DEF ReadSet
      <3> HIDE DEF r, e
      <3>3. t \in Seq(ReadSet) /\ Len(t) = (k + 1) + 1 /\ t[(k + 1) + 1] = Done /\ \A j \in 1..(k + 1) : t[j] = s[j]
        BY <2>1, <3>1, <3>2
      <3>4. (k + 1) + 1 = k + 2 /\ 1 \in 1..(k + 1)
        OBVIOUS
      <3> HIDE DEF t
      <3>5. ASSUME NEW j \in 1..(k + 1) PROVE t[j].kind = "read" /\ t[j + 1] = NextRangeFrom(t[j].cur, range)
        <4>1. t[j] = s[j] /\ s[j].kind = "read"
          BY <2>1, <3>3
        <4>2. CASE j = k + 1
          BY <2>3, <3>1, <3>3, <4>1, <4>2 DEF r
        <4>3. CASE j \in 1..k
          <5>1. j + 1 \in 1..(k + 1)
            BY <4>3
          <5> QED
            BY <2>1, <3>3, <4>1, <4>3, <5>1
        <4> QED
          BY <4>2, <4>3
      <3>6. AnswersToEnd(t, k, cur, range)
        BY <2>1, <3>3, <3>4, <3>5 DEF AnswersToEnd
      <3> QED
        BY <2>4, <3>6 DEF AnswersGo
    <2>8. CASE hits # {}
      <3>1. PICK nx : r = [kind |-> "read", frame |-> lv[Min(hits)], cur |-> nx] /\ <<nx, Min(hits) + 1>> \in P
        BY <2>5, <2>8 DEF Answered
      <3>2. Min(hits) \in hits
        <4>1. hits \subseteq Nat
          BY <2>6 DEF MatchesIn
        <4> HIDE DEF hits
        <4> QED
          BY <2>8, <4>1, MinExists
      <3> DEFINE y == Min(hits)
      <3>3. y \in x..Len(lv) /\ y \in Nat /\ y + 1 \in Nat /\ y + 1 >= (k + 1) + 1
        <4>1. y \in x..Len(lv)
          BY <3>2 DEF MatchesIn
        <4> HIDE DEF y
        <4> QED
          BY <2>2, <2>6, <4>1
      <3>4. lv[y] \in FrameSet /\ nx \in CursorType
        <4>1. y \in 1..Len(lv)
          <5> HIDE DEF y
          <5> QED
            BY <2>2, <2>6, <3>3
        <4> HIDE DEF y
        <4>2. nx \in CursorType
          BY <2>6, <3>1 DEF y
        <4> QED
          BY <2>6, <4>1, <4>2
      <3>5. r \in ReadSet /\ r.kind = "read" /\ r.cur = nx
        <4> HIDE DEF y, r
        <4>1. r = [kind |-> "read", frame |-> lv[y], cur |-> nx]
          BY <3>1 DEF y
        <4> QED
          BY <3>4, <4>1 DEF ReadSet
      <3> HIDE DEF r, e, y, hits
      <3>6. t \in Seq(ReadSet) /\ Len(t) = (k + 1) + 1 /\ t[(k + 1) + 1] = r /\ \A j \in 1..(k + 1) : t[j] = s[j]
        BY <2>1, <3>5
      <3>7. 1 \in 1..(k + 1)
        OBVIOUS
      <3> HIDE DEF t
      <3>8. ASSUME NEW j \in 1..((k + 1) + 1) PROVE t[j].kind = "read"
        <4>1. CASE j = (k + 1) + 1
          BY <3>5, <3>6, <4>1
        <4>2. CASE j \in 1..(k + 1)
          BY <2>1, <3>6, <4>2
        <4> QED
          BY <4>1, <4>2
      <3>9. ASSUME NEW j \in 1..(k + 1) PROVE t[j + 1] = NextRangeFrom(t[j].cur, range)
        <4>1. t[j] = s[j]
          BY <3>6
        <4>2. CASE j = k + 1
          BY <2>3, <3>6, <4>1, <4>2 DEF r
        <4>3. CASE j \in 1..k
          <5>1. j + 1 \in 1..(k + 1)
            BY <4>3
          <5> QED
            BY <2>1, <3>6, <4>1, <4>3, <5>1
        <4> QED
          BY <4>2, <4>3
      <3>10. <<t[(k + 1) + 1].cur, y + 1>> \in P
        BY <3>1, <3>5, <3>6 DEF y
      <3>11. \E u \in Nat : <<t[(k + 1) + 1].cur, u>> \in P /\ u >= (k + 1) + 1
        BY <3>3, <3>10
      <3>12. AnswersSoFar(t, k + 1, P, cur, range)
        BY <2>1, <3>6, <3>7, <3>8, <3>9, <3>11 DEF AnswersSoFar
      <3> QED
        BY <2>4, <3>12 DEF AnswersGo
    <2> QED
      BY <2>7, <2>8
  <1> QED
    BY <1>1, <1>2 DEF AnswersGo

\* A reader that queries to the end gets there: no more queries deliver a batch
\* than there are batches.
LEMMA AnswersFound ==
  ASSUME NEW lv, NEW P, Viewed(db, wal, manifest, h, lv, P), ~BoundWraps, NEW range \in Ranges,
         NEW cur, NEW i, <<cur, i>> \in P
  PROVE  \E n : AnswersToEnd(Answers(cur, range), n, cur, range)
  <1> DEFINE f == AnswerLoop(cur, range)
             q == h.sequence + 1
             T == {k \in Nat : AnswersGo(f[k], k, P, cur, range)}
  <1>1. Follows(db, wal, h, lv, P)
    BY ViewedFacts
  <1>2. /\ lv \in Seq(FrameSet) /\ Len(lv) \in Nat /\ P \subseteq CursorType \X (1..(Len(lv) + 1))
        /\ h.sequence \in Nat /\ Len(lv) <= h.sequence
    BY <1>1, LimitAssumption DEF Follows
  <1>3. i \in 1..(Len(lv) + 1) /\ cur \in CursorType
    BY <1>2
  <1>4. f[0] = ReadStart(cur) /\ \A k \in 0..((h.sequence + 1) - 1) : f[k + 1] = AnswerStep(range, f[k])
    BY <1>2, AnsweringTurns
  <1> HIDE DEF f
  <1>5. 0 \in T
    <2> DEFINE r == [kind |-> "read", frame |-> Bad, cur |-> cur]
    <2>1. r \in ReadSet /\ r.kind = "read" /\ r.cur = cur
      BY <1>3 DEF ReadSet
    <2> HIDE DEF r
    <2>2. f[0] = <<r>>
      BY <1>4 DEF ReadStart, r
    <2>3. <<r>> \in Seq(ReadSet) /\ Len(<<r>>) = 0 + 1 /\ <<r>>[1] = r
      BY <2>1
    <2>4. i \in Nat /\ i >= 0 + 1
      BY <1>2, <1>3
    <2>5. \A m \in 1..(0 + 1) : m = 1
      OBVIOUS
    <2>6. \A m \in 1..0 : FALSE
      OBVIOUS
    <2>8. 0 + 1 = 1
      OBVIOUS
    <2>9. \E x \in Nat : <<f[0][0 + 1].cur, x>> \in P /\ x >= 0 + 1
      BY <2>1, <2>2, <2>3, <2>4, <2>8
    <2>7. AnswersSoFar(f[0], 0, P, cur, range)
      BY <2>1, <2>2, <2>3, <2>5, <2>6, <2>9 DEF AnswersSoFar
    <2> QED
      BY <2>7 DEF AnswersGo
  <1>6. ASSUME NEW k \in 0..(q - 1), k \in T PROVE k + 1 \in T
    <2>1. k \in Nat /\ AnswersGo(f[k], k, P, cur, range) /\ f[k + 1] = AnswerStep(range, f[k])
      BY <1>4, <1>6
    <2>2. AnswersGo(AnswerStep(range, f[k]), k + 1, P, cur, range)
      BY <2>1, AnswerOneMore
    <2> QED
      BY <2>1, <2>2
  <1>7. q \in T
    <2>1. q \in Nat
      BY <1>2
    <2> HIDE DEF T, q
    <2>2. \A k \in 0..q : k \in T
      BY <1>5, <1>6, <2>1, UpTo
    <2> QED
      BY <2>1, <2>2
  <1>8. ~AnswersSoFar(f[q], q, P, cur, range)
    <2>1. SUFFICES ASSUME AnswersSoFar(f[q], q, P, cur, range) PROVE FALSE
      OBVIOUS
    <2>2. PICK x \in Nat : <<f[q][q + 1].cur, x>> \in P /\ x >= q + 1
      BY <2>1 DEF AnswersSoFar
    <2>3. x \in 1..(Len(lv) + 1)
      BY <1>2, <2>2
    <2> QED
      BY <1>2, <2>2, <2>3
  <1>9. \E n : AnswersToEnd(f[q], n, cur, range)
    BY <1>7, <1>8 DEF AnswersGo
  <1> QED
    BY <1>9 DEF Answers, f

\* The totals of those answers are exact for the batches they have passed.
LEMMA TotalsFound ==
  ASSUME NEW lv, NEW P, Viewed(db, wal, manifest, h, lv, P), ~BoundWraps, NEW range \in Ranges,
         NEW cur, <<cur, 1>> \in P, NEW s, NEW n, AnswersToEnd(s, n, cur, range)
  PROVE  Tallied(Totals(s, n, range)[n], Hits(lv, Len(lv) + 1, range), HitValues(lv, Len(lv) + 1, range))
  <1> DEFINE F == Totals(s, n, range)
             Good(k, x) == /\ <<s[k + 1].cur, x>> \in P
                           /\ Tallied(F[k], Hits(lv, x, range), HitValues(lv, x, range))
             T == {k \in Nat : \E x : Good(k, x)}
  <1>1. n \in Nat /\ s[1].cur = cur /\ s[n + 2] = Done
        /\ \A j \in 1..(n + 1) : s[j].kind = "read" /\ s[j + 1] = NextRangeFrom(s[j].cur, range)
    BY DEF AnswersToEnd
  <1>2. F[0] = NoTotal /\ \A k \in 0..(n - 1) : F[k + 1] = Added(F[k], s[(k + 1) + 1].frame, range)
    BY <1>1, TotalTurns
  <1>3. lv \in Seq(FrameSet) /\ Len(lv) \in Nat /\ P \subseteq CursorType \X (1..(Len(lv) + 1))
    <2>1. Follows(db, wal, h, lv, P)
      BY ViewedFacts
    <2> QED
      BY <2>1 DEF Follows
  <1> HIDE DEF F
  <1>4. 0 \in T
    <2>1. Hits(lv, 1, range) = {}
      BY DEF Hits
    <2>2. HitValues(lv, 1, range) = {}
      BY <2>1 DEF HitValues
    <2>3. Tallied(F[0], {}, {})
      BY <1>2, FS_EmptySet DEF Tallied
    <2>4. <<s[0 + 1].cur, 1>> \in P
      BY <1>1
    <2>5. Good(0, 1)
      BY <2>1, <2>2, <2>3, <2>4
    <2> QED
      BY <2>5
  <1>5. ASSUME NEW k \in 0..(n - 1), k \in T PROVE k + 1 \in T
    <2>1. PICK x : Good(k, x)
      BY <1>5
    <2>2. k \in Nat /\ k + 1 \in 1..(n + 1) /\ (k + 1) + 1 \in 1..(n + 1)
      BY <1>1
    <2>3. x \in 1..(Len(lv) + 1) /\ x \in Nat
      BY <1>3, <2>1
    <2> DEFINE hits == MatchesIn(lv, x, range)
               r == NextRangeFrom(s[k + 1].cur, range)
               y == Min(hits)
    <2>4. s[(k + 1) + 1] = r /\ r.kind = "read"
      BY <1>1, <2>2
    <2>5. Answered(r, hits, lv, P)
      BY <2>1, RangeFacts, RangeFound
    <2>6. hits # {}
      BY <2>4, <2>5, DoneFacts DEF Answered
    <2>7. PICK nx : r = [kind |-> "read", frame |-> lv[y], cur |-> nx] /\ <<nx, y + 1>> \in P
      BY <2>5, <2>6 DEF Answered
    <2>8. y \in hits /\ \A z \in hits : y <= z
      <3>1. hits \subseteq Nat
        BY <1>3, <2>3 DEF MatchesIn
      <3> HIDE DEF hits
      <3> QED
        BY <2>6, <3>1, MinExists
    <2>9. y \in x..Len(lv) /\ Matching(lv[y], range) # {}
      BY <2>8 DEF MatchesIn
    <2> HIDE DEF y
    <2>10. y \in Nat /\ x <= y /\ y \in 1..Len(lv) /\ lv[y] \in FrameSet
      BY <1>3, <2>3, <2>9
    <2>11. ASSUME NEW z \in x..(y - 1) PROVE Matching(lv[z], range) = {}
      <3>1. z \in x..Len(lv) /\ ~(y <= z)
        BY <1>3, <2>3, <2>10
      <3>2. z \notin hits
        BY <2>8, <3>1
      <3> QED
        BY <3>1, <3>2 DEF MatchesIn
    <2> DEFINE A == Hits(lv, x, range)
               V == HitValues(lv, x, range)
               B == {y} \X Matching(lv[y], range)
    <2>12. /\ Hits(lv, y + 1, range) = A \cup B
           /\ HitValues(lv, y + 1, range) = V \cup ValuesIn(lv[y], range)
           /\ A \cap B = {}
      <3>1. NoneIn(lv, x, y - 1, range)
        BY <2>11 DEF NoneIn
      <3>2. x >= 1
        BY <1>3, <2>3
      <3> QED
        BY <2>3, <2>10, <3>1, <3>2, HitsOn
    <2>13. Tallied(F[k], A, V)
      BY <2>1
    <2>14. Tallied(Added(F[k], lv[y], range), A \cup B, V \cup ValuesIn(lv[y], range))
      <3> HIDE DEF A, V
      <3> QED
        BY <2>9, <2>10, <2>12, <2>13, TallyOn
    <2>15. F[k + 1] = Added(F[k], lv[y], range)
      BY <1>2, <2>4, <2>7
    <2>16. <<s[(k + 1) + 1].cur, y + 1>> \in P
      BY <2>4, <2>7
    <2>17. Good(k + 1, y + 1)
      BY <2>12, <2>14, <2>15, <2>16
    <2> HIDE DEF Good
    <2> QED
      BY <2>2, <2>17
  <1>6. PICK x : Good(n, x)
    <2>1. n \in T
      <3> HIDE DEF T
      <3>1. \A k \in 0..n : k \in T
        BY <1>1, <1>4, <1>5, UpTo
      <3> QED
        BY <1>1, <3>1
    <2> QED
      BY <2>1
  <1>7. x \in 1..(Len(lv) + 1) /\ x \in Nat
    BY <1>3, <1>6
  <1>8. NextRangeFrom(s[n + 1].cur, range) = Done
    <2>1. (n + 1) + 1 = n + 2 /\ n + 1 \in 1..(n + 1)
      BY <1>1
    <2> QED
      BY <1>1, <2>1
  <1>9. MatchesIn(lv, x, range) = {}
    <2>1. Answered(Done, MatchesIn(lv, x, range), lv, P)
      BY <1>6, <1>8, RangeFacts, RangeFound
    <2> QED
      BY <2>1, DoneFacts DEF Answered
  <1>10. \A z \in x..Len(lv) : Matching(lv[z], range) = {}
    BY <1>9 DEF MatchesIn
  <1>11. Hits(lv, Len(lv) + 1, range) = Hits(lv, x, range)
    <2> DEFINE L == Len(lv)
    <2>1. L \in Nat /\ x <= L + 1 /\ x >= 1
      BY <1>3, <1>7
    <2>3. NoneIn(lv, x, L, range)
      BY <1>10 DEF NoneIn
    <2> HIDE DEF L
    <2>2. Hits(lv, L + 1, range) = Hits(lv, x, range)
      BY <1>7, <2>1, <2>3, HitsEnd
    <2> QED
      BY <2>2 DEF L
  <1>12. HitValues(lv, Len(lv) + 1, range) = HitValues(lv, x, range)
    BY <1>11 DEF HitValues
  <1> QED
    BY <1>6, <1>11, <1>12 DEF F

\* Where the files and the handle fit, aggregate_range is exact.
LEMMA InvAggregate ==
  ASSUME Inv
  PROVE  AggregateExact
  <1>1. PICK lv, P, i : Viewed(db, wal, manifest, h, lv, P) /\ <<c, i>> \in P
    BY WholeViewed DEF Inv
  <1>2. lv = LiveBatches(db, wal, h) /\ <<ResetCursor, 1>> \in P /\ lv \in Seq(FrameSet) /\ Len(lv) \in Nat
    BY <1>1, ViewedFacts
  <1>3. live = lv
    BY <1>2 DEF Inv
  <1> DEFINE at(range) == UNION {{j} \X Matching(live[j], range) : j \in DOMAIN live}
             vals(range) == {live[p[1]].records[p[2]].value : p \in at(range)}
  <1> SUFFICES ASSUME ~BoundWraps, NEW range \in Ranges
               PROVE  AggregateRange(range) = IF at(range) = {} THEN NoTotal
                                              ELSE [count |-> Cardinality(at(range)), min |-> Min(vals(range)), max |-> Max(vals(range))]
    BY DEF AggregateExact, NoTotal
  <1> DEFINE A == Hits(lv, Len(lv) + 1, range)
             V == HitValues(lv, Len(lv) + 1, range)
             s == Answers(ResetCursor, range)
  <1>4. PICK n : AnswersToEnd(s, n, ResetCursor, range)
    BY <1>1, <1>2, AnswersFound
  <1>5. Tallied(Totals(s, n, range)[n], A, V)
    BY <1>1, <1>2, <1>4, TotalsFound
  <1>6. Len(s) = n + 2 /\ s[n + 2] = Done /\ n \in Nat
    BY <1>4 DEF AnswersToEnd
  <1>7. AggregateRange(range) = Totals(s, n, range)[n]
    <2> HIDE DEF s
    <2>1. Len(s) - 2 = n
      BY <1>6
    <2>2. AggregateRange(range) = IF s[(Len(s) - 2) + 2] = Done THEN Totals(s, Len(s) - 2, range)[Len(s) - 2] ELSE Bad
      BY DEF AggregateRange, AggregateFrom, Aggregated, TotalOf, s
    <2> QED
      BY <1>6, <2>1, <2>2
  <1>8. at(range) = A
    <2>1. DOMAIN live = 1..Len(lv) /\ (Len(lv) + 1) - 1 = Len(lv)
      BY <1>2, <1>3
    <2> QED
      BY <1>3, <2>1 DEF Hits
  <1>9. vals(range) = V
    BY <1>3, <1>8 DEF HitValues
  <1> DEFINE acc == Totals(s, n, range)[n]
  <1> HIDE DEF A, V, acc
  <1>10. acc = IF A = {} THEN NoTotal ELSE [count |-> Cardinality(A), min |-> Min(V), max |-> Max(V)]
    <2>1. Tallied(acc, A, V)
      BY <1>5 DEF acc
    <2>2. CASE A = {}
      BY <2>1, <2>2 DEF Tallied
    <2>3. CASE A # {}
      <3>1. PICK a, b : acc = [count |-> Cardinality(A), min |-> a, max |-> b] /\ Bounds(a, b, V)
        BY <2>1, <2>3 DEF Tallied
      <3>2. V \subseteq Int
        BY <2>1 DEF Tallied
      <3>3. Min(V) = a /\ Max(V) = b
        BY <3>1, <3>2, BoundsAre
      <3> QED
        BY <2>3, <3>1, <3>3
    <2> QED
      BY <2>2, <2>3
  <1> HIDE DEF at, vals
  <1> QED
    BY <1>7, <1>8, <1>9, <1>10 DEF acc

\* timelite_batches_aggregate_range counts every live record of its range once,
\* whichever file its batch is in, and finds the least and the greatest value.
THEOREM ReaderAggregate ==
  (Spec => []AggregateExact) /\ (IndexSpec => []AggregateExact)
  <1>1. Inv => AggregateExact
    BY InvAggregate
  <1> QED
    BY <1>1, ReaderInvariant, PTL

------------------------------------------------------------------------------
(* The abstract cursor. *)

\* The batches of the files are lv, and the cursor stands in front of batch i.
Seen(d, w, m, hd, cur, lv, i) == \E P : Viewed(d, w, m, hd, lv, P) /\ <<cur, i>> \in P

\* What that says about the refinement mapping.
LEMMA SeenFacts ==
  ASSUME NEW d, NEW w, NEW m, NEW hd, NEW cur, NEW lv, NEW i, Seen(d, w, m, hd, cur, lv, i)
  PROVE  /\ LiveBatches(d, w, hd) = lv /\ Drain(d, w, hd, cur) = Rest(lv, i)
         /\ lv \in Seq(FrameSet) /\ Len(lv) \in Nat /\ i \in 1..(Len(lv) + 1)
         /\ Expects(lv, cur, i)
         /\ \A x, y \in 1..Len(lv) : x < y => lv[x].seq < lv[y].seq
         /\ \A x \in 1..Len(lv) : lv[x].seq <= hd.sequence
  <1>1. PICK P : Viewed(d, w, m, hd, lv, P) /\ <<cur, i>> \in P
    BY DEF Seen
  <1>2. Follows(d, w, hd, lv, P) /\ lv = LiveBatches(d, w, hd) /\ lv \in Seq(FrameSet) /\ Len(lv) \in Nat
    BY <1>1, ViewedFacts
  <1>3. i \in 1..(Len(lv) + 1)
    BY <1>1, <1>2 DEF Follows
  <1>4. Drain(d, w, hd, cur) = Rest(lv, i)
    BY <1>1, ViewedDrain
  <1>5. /\ \A x, y \in 1..Len(lv) : x < y => lv[x].seq < lv[y].seq
        /\ \A x \in 1..Len(lv) : lv[x].seq <= hd.sequence
    BY <1>1, ViewedNumbers
  <1>6. \A p \in P : Expects(lv, p[1], p[2])
    BY <1>1, ViewedNumbers
  <1>7. Expects(lv, cur, i)
    <2>1. Expects(lv, <<cur, i>>[1], <<cur, i>>[2])
      BY <1>1, <1>6
    <2> QED
      BY <2>1
  <1> QED
    BY <1>2, <1>3, <1>4, <1>5, <1>7

\* The parts of a view.
SeenParts(d, w, m, hd, cur, lv, i) ==
    \E st, sf, sa, wf, wa, lo, k, j :
        /\ Stored(d, w, m, hd, st, sf, sa, wf, wa) /\ Flat(hd.generation, sf, wf, lo, lv)
        /\ i = lo[k] + j /\ At(d, hd, st, sf, sa, wf, wa, cur, k, j)

\* A place that is seen is one in the stored files.
LEMMA SeenStored ==
  ASSUME NEW d, NEW w, NEW m, NEW hd, NEW cur, NEW lv, NEW i, Seen(d, w, m, hd, cur, lv, i)
  PROVE  SeenParts(d, w, m, hd, cur, lv, i)
  <1>1. PICK P : Viewed(d, w, m, hd, lv, P) /\ <<cur, i>> \in P
    BY DEF Seen
  <1>2. PICK st, sf, sa, wf, wa, lo : /\ Stored(d, w, m, hd, st, sf, sa, wf, wa)
                                      /\ Flat(hd.generation, sf, wf, lo, lv)
                                      /\ P = Places(d, hd, st, sf, sa, wf, wa, lo)
    BY <1>1 DEF Viewed
  <1>3. Ahead(d, hd, st, sf, sa, wf, wa, lo, <<cur, i>>[1], <<cur, i>>[2])
    BY <1>1, <1>2 DEF Places
  <1>4. PICK k, j : i = lo[k] + j /\ At(d, hd, st, sf, sa, wf, wa, cur, k, j)
    BY <1>3 DEF Ahead
  <1> QED
    BY <1>2, <1>4 DEF SeenParts

\* And back.
LEMMA SeenAt ==
  ASSUME NEW d, NEW w, NEW m, NEW hd, NEW st, NEW sf, NEW sa, NEW wf, NEW wa,
         Stored(d, w, m, hd, st, sf, sa, wf, wa), NEW lo, NEW lv, Flat(hd.generation, sf, wf, lo, lv),
         NEW cur, NEW k, NEW j, At(d, hd, st, sf, sa, wf, wa, cur, k, j)
  PROVE  Seen(d, w, m, hd, cur, lv, lo[k] + j)
  <1>1. <<cur, lo[k] + j>> \in Places(d, hd, st, sf, sa, wf, wa, lo)
    BY AtPlace
  <1>2. Viewed(d, w, m, hd, lv, Places(d, hd, st, sf, sa, wf, wa, lo))
    BY DEF Viewed
  <1> QED
    BY <1>1, <1>2 DEF Seen

\* A reachable state has a view.
LEMMA InvSeen ==
  ASSUME Inv
  PROVE  \E lv, i : Seen(db, wal, manifest, h, c, lv, i)
  <1>1. PICK lv, P, i : Viewed(db, wal, manifest, h, lv, P) /\ <<c, i>> \in P
    BY WholeViewed DEF Inv
  <1> QED
    BY <1>1 DEF Seen

\* The sequence that a cursor expects tells its place.
LEMMA ExpectsOne ==
  ASSUME NEW lv, Len(lv) \in Nat, NEW a, NEW b, a.readSequence = b.readSequence,
         \A x \in 1..Len(lv) : lv[x].seq \in Nat, a.readSequence \in Nat,
         NEW i \in 1..(Len(lv) + 1), Expects(lv, a, i), NEW j \in 1..(Len(lv) + 1), Expects(lv, b, j)
  PROVE  i = j
  <1>1. CASE a.readSequence = 0
    BY <1>1 DEF Expects
  <1>2. CASE a.readSequence # 0
    <2>1. ~(i < j)
      <3>1. SUFFICES ASSUME i < j PROVE FALSE
        OBVIOUS
      <3>2. i \in 1..(j - 1) /\ i \in i..Len(lv) /\ i \in 1..Len(lv)
        BY <3>1
      <3>3. lv[i].seq < b.readSequence
        BY <1>2, <3>2 DEF Expects
      <3>4. lv[i].seq >= a.readSequence
        BY <3>2 DEF Expects
      <3> QED
        BY <3>2, <3>3, <3>4
    <2>2. ~(j < i)
      <3>1. SUFFICES ASSUME j < i PROVE FALSE
        OBVIOUS
      <3>2. j \in 1..(i - 1) /\ j \in j..Len(lv) /\ j \in 1..Len(lv)
        BY <3>1
      <3>3. lv[j].seq < a.readSequence
        BY <1>2, <3>2 DEF Expects
      <3>4. lv[j].seq >= b.readSequence
        BY <3>2 DEF Expects
      <3> QED
        BY <3>2, <3>3, <3>4
    <2> QED
      BY <2>1, <2>2
  <1> QED
    BY <1>1, <1>2

\* An append adds its batch after the others and leaves the cursor where it is.
LEMMA AppendSeen ==
  ASSUME NEW lv, NEW i, Seen(db, wal, manifest, h, c, lv, i), NEW records \in Inputs, AppendBatch(records)
  PROVE  \E f \in FrameSet : /\ f.seq = h.sequence + 1
                             /\ Seen(db', wal', manifest', h', c', Append(lv, f), i)
  <1>0. SeenParts(db, wal, manifest, h, c, lv, i)
    BY SeenStored
  <1>1. PICK st, sf, sa, wf, wa, lo, k, j :
            /\ Stored(db, wal, manifest, h, st, sf, sa, wf, wa) /\ Flat(h.generation, sf, wf, lo, lv)
            /\ i = lo[k] + j /\ At(db, h, st, sf, sa, wf, wa, c, k, j)
    BY <1>0 DEF SeenParts
  <1> DEFINE f == Frame(h.sequence + 1, records)
             wb == Append(wf, f)
             a == Longer(wa, Len(wf) + 1, h.end + FrameSize(f))
             x == AppendedHandle(h, f)
  <1>3. h.sequence \in 0..SeqMax /\ h.sequence # SeqMax
    BY <1>1, StoredFacts DEF AppendBatch
  <1>4. f \in FrameSet /\ f.seq = h.sequence + 1 /\ f.records = records
    BY <1>3, LimitAssumption DEF FrameSet, Frame
  <1>5. FrameOrdered(f) /\ (h.sequence # 0 => FirstTimeOf(f) >= h.lastTime)
    BY <1>4 DEF AppendBatch, InOrder, FrameOrdered, FirstTimeOf
  <1>6. FrameSize(f) <= WalCapacity - h.end
    BY DEF AppendBatch, Fits
  <1>7. /\ wal' = [o \in DOMAIN wal \cup {h.end} |-> IF o = h.end THEN f ELSE wal[o]]
        /\ h' = AppendedHandle(h, f) /\ db' = db /\ manifest' = manifest /\ c' = c
    BY DEF AppendBatch, AppendedHandle
  <1> HIDE DEF f
  <1>8. Stored(db, wal', manifest, x, st, sf, sa, wb, a)
    BY <1>1, <1>4, <1>5, <1>6, <1>7, AppendStored
  <1>9. At(db, x, st, sf, sa, wb, a, c, k, j)
    BY <1>1, <1>4, AppendAt
  <1>10. x.generation = h.generation
    <2>1. h \in HandleSet
      BY <1>1, StoredFacts
    <2> QED
      BY <1>4, <2>1, AppendedFields
  <1>11. Flat(h.generation, sf, wb, lo, Append(lv, f))
    <2> DEFINE n == h.generation
    <2>1. /\ n \in Nat /\ \A q \in 1..n : sf[q] \in Seq(FrameSet)
          /\ wf \in Seq(FrameSet) /\ Len(wf) \in Nat
      BY <1>1, StoredSegments
    <2>2. lv \in Seq(FrameSet) /\ Len(lv) = lo[n + 1] + Len(wf) /\ lo[n + 1] \in Nat /\ Len(lv) \in Nat
      <3>1. n + 1 \in 1..(n + 1)
        BY <2>1
      <3> QED
        BY <1>1, <2>1, <3>1 DEF Flat
    <2>3. /\ Append(lv, f) \in Seq(FrameSet) /\ Len(Append(lv, f)) = Len(lv) + 1
          /\ Append(lv, f)[Len(lv) + 1] = f
          /\ \A y \in 1..Len(lv) : Append(lv, f)[y] = lv[y]
      BY <1>4, <2>2, AppendFacts
    <2>4. /\ wb \in Seq(FrameSet) /\ Len(wb) = Len(wf) + 1 /\ wb[Len(wf) + 1] = f
          /\ \A y \in 1..Len(wf) : wb[y] = wf[y]
      BY <1>4, <2>1, AppendFacts
    <2> DEFINE L == Append(lv, f)
    <2> HIDE DEF L, wb
    <2>5. ASSUME NEW p \in 1..n, NEW q \in 1..Len(sf[p]) PROVE L[lo[p] + q] = sf[p][q]
      <3>1. lo[p] + q \in 1..Len(lv)
        BY <1>1, <2>1, FlatInside
      <3>2. lv[lo[p] + q] = sf[p][q]
        BY <1>1 DEF Flat
      <3> QED
        BY <2>3, <3>1, <3>2 DEF L
    <2>6. ASSUME NEW q \in 1..Len(wb) PROVE L[lo[n + 1] + q] = wb[q]
      <3>1. CASE q = Len(wf) + 1
        <4>1. lo[n + 1] + q = Len(lv) + 1
          <5>1. lo[n + 1] \in Nat /\ Len(wf) \in Nat /\ Len(lv) = lo[n + 1] + Len(wf)
            BY <2>1, <2>2
          <5> QED
            BY <3>1, <5>1
        <4> QED
          BY <2>3, <2>4, <3>1, <4>1 DEF L
      <3>2. CASE q \in 1..Len(wf)
        <4>1. lo[n + 1] + q \in 1..Len(lv)
          BY <2>1, <2>2, <3>2
        <4>2. lv[lo[n + 1] + q] = wf[q]
          BY <1>1, <3>2 DEF Flat
        <4> QED
          BY <2>3, <2>4, <3>2, <4>1, <4>2 DEF L
      <3> QED
        BY <2>1, <2>4, <3>1, <3>2
    <2>7. L \in Seq(FrameSet) /\ Len(L) = lo[n + 1] + Len(wb)
      BY <2>1, <2>2, <2>3, <2>4 DEF L
    <2>8. Flat(n, sf, wb, lo, L)
      BY <1>1, <2>5, <2>6, <2>7 DEF Flat
    <2> QED
      BY <2>8 DEF L
  <1> HIDE DEF a, wb, x
  <1>12. Flat(x.generation, sf, wb, lo, Append(lv, f))
    BY <1>10, <1>11
  <1>13. Seen(db, wal', manifest, x, c, Append(lv, f), lo[k] + j)
    BY <1>8, <1>9, <1>12, SeenAt
  <1>14. Seen(db', wal', manifest', h', c', Append(lv, f), i)
    BY <1>1, <1>7, <1>13 DEF x
  <1> QED
    BY <1>4, <1>14

\* An open finds the same batches, and its cursor stands in front of the first.
LEMMA ReopenSeen ==
  ASSUME NEW lv, NEW i, Seen(db, wal, manifest, h, c, lv, i), Reopen
  PROVE  Seen(db', wal', manifest', h', c', lv, 1)
  <1>0. SeenParts(db, wal, manifest, h, c, lv, i)
    BY SeenStored
  <1>1. PICK st, sf, sa, wf, wa, lo, k, j :
            /\ Stored(db, wal, manifest, h, st, sf, sa, wf, wa) /\ Flat(h.generation, sf, wf, lo, lv)
            /\ i = lo[k] + j /\ At(db, h, st, sf, sa, wf, wa, c, k, j)
    BY <1>0 DEF SeenParts
  <1>2. /\ Segments(db, h.dataEnd, h.generation, h.installed, h.retention, h.installedTime, st, sf, sa)
        /\ Log(wal, h.end, h.installed, wf, wa) /\ ManifestOf(manifest, h)
        /\ h.lastSegment = StartOf(st, h.generation)
    BY <1>1 DEF Stored, HandleSays
  <1>3. /\ Segments(db, manifest.end, manifest.count, manifest.last, manifest.retain, h.installedTime, st, sf, sa)
        /\ Log(wal, h.end, manifest.last, wf, wa)
        /\ ManifestTimes(manifest, h.installedTime, StartOf(st, manifest.count))
    BY <1>2 DEF ManifestOf
  <1> DEFINE x == Opened(db, wal, manifest)
  <1>4. Stored(db, wal, manifest, x, st, sf, sa, wf, wa)
    BY <1>3, OpenedStored
  <1> HIDE DEF x
  <1>5. At(db, x, st, sf, sa, wf, wa, ResetCursor, 1, 1)
    BY <1>4, ResetAt
  <1>6. x.generation = h.generation
    BY <1>2, <1>4 DEF Stored, ManifestOf
  <1>7. Flat(x.generation, sf, wf, lo, lv)
    BY <1>1, <1>6
  <1>8. Seen(db, wal, manifest, x, ResetCursor, lv, lo[1] + 1)
    BY <1>4, <1>5, <1>7, SeenAt
  <1>9. lo[1] + 1 = 1
    BY <1>1 DEF Flat
  <1>10. db' = db /\ wal' = wal /\ manifest' = manifest /\ h' = x /\ c' = ResetCursor
    BY DEF Reopen, x
  <1> QED
    BY <1>8, <1>9, <1>10

\* A checkpoint changes neither the batches nor the place of the cursor.
LEMMA CheckpointSeen ==
  ASSUME NEW lv, NEW i, Seen(db, wal, manifest, h, c, lv, i), Checkpoint
  PROVE  Seen(db', wal', manifest', h', c', lv, i)
  <1>0. SeenParts(db, wal, manifest, h, c, lv, i)
    BY SeenStored
  <1>1. PICK st, sf, sa, wf, wa, lo, k, j :
            /\ Stored(db, wal, manifest, h, st, sf, sa, wf, wa) /\ Flat(h.generation, sf, wf, lo, lv)
            /\ i = lo[k] + j /\ At(db, h, st, sf, sa, wf, wa, c, k, j)
    BY <1>0 DEF SeenParts
  <1>3. /\ h.end # WalStart
        /\ (h.end - WalStart) + 2 <= DbCapacity - h.dataEnd
    BY DEF Checkpoint
  <1>4. db' = InstalledFile
    BY DEF Checkpoint, InstalledFile, InstalledHeader, InstalledAt
  <1>5. manifest' = InstalledManifest
    BY DEF Checkpoint, InstalledManifest, InstalledEnd
  <1>6. wal' = <<>>
    BY DEF Checkpoint
  <1>7. h' = InstalledHandle
    BY DEF Checkpoint, InstalledHandle, InstalledEnd
  <1>8. c' = Translated(c, h.dataEnd, InstalledEnd)
    BY DEF Checkpoint, InstalledEnd
  <1>9. wf # <<>>
    BY <1>1, <1>3, EmptyLog
  <1>10. InstalledEnd <= DbCapacity
    <2>1. h.dataEnd \in Nat /\ h.end \in Nat
      BY <1>1, StoredFacts
    <2> QED
      BY <1>3, <2>1, ReaderAssumption DEF InstalledEnd, WalStart
  <1> DEFINE n == h.generation
             tt == InstalledStarts(st)
             sg == Longer(sf, n, wf)
             sb == Longer(sa, n, InstalledPlaces(wf, wa))
             nc == Translated(c, h.dataEnd, InstalledEnd)
             x == InstalledHandle
  <1>11. Stored(InstalledFile, <<>>, InstalledManifest, x, tt, sg, sb, <<>>, NoOffsetsLog)
    BY <1>1, <1>9, <1>10, InstalledStored
  <1>12. \E p, q : At(InstalledFile, x, tt, sg, sb, <<>>, NoOffsetsLog, nc, p, q)
    BY <1>1, <1>9, <1>10, InstalledCursor
  <1>13. /\ \A p \in 1..n : sg[p] = sf[p]
         /\ sg[n + 1] = wf
    <2>1. InstalledAre(st, sf, sa, wf, wa)
      BY <1>1, <1>9, <1>10, InstalledLayout
    <2> QED
      BY <2>1 DEF InstalledAre
  <1>14. x.generation = n + 1
    <2>1. h \in HandleSet
      BY <1>1, StoredFacts
    <2> QED
      BY <2>1 DEF InstalledHandle, HandleSet
  <1>15. nc.readSequence = c.readSequence
    <2>1. c \in CursorType
      BY <1>1 DEF At
    <2> QED
      BY <2>1 DEF Translated, CursorType
  <1> HIDE DEF tt, sg, sb, nc, x
  <1>16. /\ n \in Nat /\ \A q \in 1..n : sf[q] \in Seq(FrameSet)
         /\ wf \in Seq(FrameSet) /\ Len(wf) \in Nat
    BY <1>1, StoredSegments
  <1> DEFINE lp == [y \in 1..(n + 2) |-> IF y = n + 2 THEN lo[n + 1] + Len(wf) ELSE lo[y]]
  <1>17. Flat(n + 1, sg, <<>>, lp, lv)
    <2>1. /\ lo \in [1..(n + 1) -> Nat] /\ lo[1] = 0
          /\ \A p \in 1..n : lo[p + 1] = lo[p] + Len(sf[p])
          /\ lv \in Seq(FrameSet) /\ Len(lv) = lo[n + 1] + Len(wf)
          /\ \A p \in 1..n : \A q \in 1..Len(sf[p]) : lv[lo[p] + q] = sf[p][q]
          /\ \A q \in 1..Len(wf) : lv[lo[n + 1] + q] = wf[q]
      BY <1>1 DEF Flat
    <2>2. /\ (n + 1) + 1 = n + 2 /\ n + 1 \in 1..(n + 1) /\ n + 2 \in 1..(n + 2) /\ n + 1 # n + 2
          /\ 1 \in 1..(n + 2) /\ 1 # n + 2 /\ n + 1 \in 1..(n + 2)
      BY <1>16
    <2>3. lo[n + 1] \in Nat
      BY <2>1, <2>2
    <2>4. \A y \in 1..(n + 1) : lp[y] = lo[y]
      BY <1>16
    <2>5. lp[n + 2] = lo[n + 1] + Len(wf)
      BY <2>2
    <2>6. lp \in [1..(n + 2) -> Nat]
      BY <1>16, <2>1, <2>3
    <2> HIDE DEF lp
    <2>7. lp[1] = 0
      BY <1>16, <2>1, <2>4
    <2>8. ASSUME NEW p \in 1..(n + 1) PROVE lp[p + 1] = lp[p] + Len(sg[p])
      <3>1. CASE p = n + 1
        BY <1>13, <2>2, <2>4, <2>5, <3>1
      <3>2. CASE p \in 1..n
        <4>1. p + 1 \in 1..(n + 1) /\ p \in 1..(n + 1)
          BY <1>16, <3>2
        <4> QED
          BY <1>13, <2>1, <2>4, <3>2, <4>1
      <3> QED
        BY <1>16, <3>1, <3>2
    <2>9. ASSUME NEW p \in 1..(n + 1), NEW q \in 1..Len(sg[p]) PROVE lv[lp[p] + q] = sg[p][q]
      <3>1. CASE p = n + 1
        BY <1>13, <2>1, <2>2, <2>4, <3>1
      <3>2. CASE p \in 1..n
        BY <1>13, <2>1, <2>4, <3>2
      <3> QED
        BY <1>16, <3>1, <3>2
    <2>10. Len(<<>>) = 0 /\ \A q \in 1..0 : FALSE
      OBVIOUS
    <2>11. Len(lv) = lp[(n + 1) + 1] + Len(<<>>)
      BY <1>16, <2>1, <2>2, <2>3, <2>5, <2>10
    <2>12. lp \in [1..((n + 1) + 1) -> Nat]
      BY <2>2, <2>6
    <2> QED
      BY <2>1, <2>7, <2>8, <2>9, <2>10, <2>11, <2>12 DEF Flat
  <1> HIDE DEF lp
  <1>18. PICK p, q : At(InstalledFile, x, tt, sg, sb, <<>>, NoOffsetsLog, nc, p, q)
    BY <1>12
  <1>19. Flat(x.generation, sg, <<>>, lp, lv)
    BY <1>14, <1>17
  <1>20. Seen(InstalledFile, <<>>, InstalledManifest, x, nc, lv, lp[p] + q)
    BY <1>11, <1>18, <1>19, SeenAt
  <1>21. lp[p] + q = i
    <2> DEFINE i2 == lp[p] + q
    <2>1. i2 \in 1..(Len(lv) + 1) /\ Expects(lv, nc, i2)
      BY <1>20, SeenFacts
    <2>2. i \in 1..(Len(lv) + 1) /\ Expects(lv, c, i) /\ lv \in Seq(FrameSet) /\ Len(lv) \in Nat
      BY SeenFacts
    <2>3. ASSUME NEW y \in 1..Len(lv) PROVE lv[y].seq \in Nat
      <3>1. lv[y].seq \in 1..SeqMax
        BY <2>2, FrameFacts
      <3> QED
        BY <3>1, LimitAssumption
    <2>4. c.readSequence \in Nat
      <3>1. c.readSequence \in 0..SeqMax
        BY <1>1 DEF At, CursorType
      <3> QED
        BY <3>1, LimitAssumption
    <2> HIDE DEF i2
    <2>5. i2 = i
      BY <1>15, <2>1, <2>2, <2>3, <2>4, ExpectsOne
    <2> QED
      BY <2>5 DEF i2
  <1> QED
    BY <1>4, <1>5, <1>6, <1>7, <1>8, <1>20, <1>21 DEF x, nc

\* Calls that read move the cursor and nothing else.
LEMMA RewindSeen ==
  ASSUME NEW lv, NEW i, Seen(db, wal, manifest, h, c, lv, i), Rewind
  PROVE  Seen(db', wal', manifest', h', c', lv, 1)
  <1>1. PICK P : Viewed(db, wal, manifest, h, lv, P) /\ <<c, i>> \in P
    BY DEF Seen
  <1>2. <<ResetCursor, 1>> \in P
    BY <1>1, ViewedFacts
  <1>3. c' = ResetCursor /\ db' = db /\ wal' = wal /\ manifest' = manifest /\ h' = h
    BY DEF Rewind
  <1> QED
    BY <1>1, <1>2, <1>3 DEF Seen

\* A call of next moves it past one batch.
LEMMA NextSeen ==
  ASSUME NEW lv, NEW i, Seen(db, wal, manifest, h, c, lv, i), NextBatch
  PROVE  i # Len(lv) + 1 /\ Seen(db', wal', manifest', h', c', lv, i + 1)
  <1>1. PICK P : Viewed(db, wal, manifest, h, lv, P) /\ <<c, i>> \in P
    BY DEF Seen
  <1>2. Follows(db, wal, h, lv, P)
    BY <1>1, ViewedFacts
  <1>3. Follow(db, wal, h, lv, P, c, i)
    BY <1>1, <1>2 DEF Follows
  <1>4. ReadCursor(db, wal, h, c).kind = "read" /\ c' = ReadCursor(db, wal, h, c).cur
        /\ db' = db /\ wal' = wal /\ manifest' = manifest /\ h' = h
    BY DEF NextBatch
  <1>5. i # Len(lv) + 1
    BY <1>3, <1>4, DoneFacts DEF Follow
  <1>6. <<c', i + 1>> \in P
    <2>1. PICK nx \in CursorType :
             /\ ReadCursor(db, wal, h, c) = [kind |-> "read", frame |-> lv[i], cur |-> nx]
             /\ <<nx, i + 1>> \in P
      BY <1>3, <1>5 DEF Follow
    <2>2. c' = nx
      BY <1>4, <2>1
    <2> QED
      BY <2>1, <2>2
  <1> QED
    BY <1>1, <1>4, <1>5, <1>6 DEF Seen

\* A query that delivers a batch delivers the first one with a record in its range,
\* even where the sequence after the last installed one has wrapped around.
LEMMA RangeSeen ==
  ASSUME NEW lv, NEW i, Seen(db, wal, manifest, h, c, lv, i), NEW range, NextRange(range)
  PROVE  \E x \in i..Len(lv) : /\ Matching(lv[x], range) # {} /\ NoneIn(lv, i, x - 1, range)
                               /\ Seen(db', wal', manifest', h', c', lv, x + 1)
  <1>1. PICK P : Viewed(db, wal, manifest, h, lv, P) /\ <<c, i>> \in P
    BY DEF Seen
  <1>2. Follows(db, wal, h, lv, P)
    BY <1>1, ViewedFacts
  <1> DEFINE s == Reads(db, wal, h, c)
             T == RangeStops(s, range)
             k == Min(T)
             z == (Len(lv) - i) + 1
             x == (i + k) - 2
  <1>3. ReadToEnd(s, lv, P, c, i)
    BY <1>1, <1>2, ReadsFound
  <1>4. lv \in Seq(FrameSet) /\ Len(lv) \in Nat /\ i \in 1..(Len(lv) + 1)
    BY <1>1, <1>2 DEF Follows
  <1>5. z \in Nat /\ i \in Nat
    BY <1>4
  <1>6. NextRangeFrom(c, range) = IF range.from = range.until THEN Done
                                  ELSE IF s[k].kind = "read" /\ Matching(s[k].frame, range) = {} THEN Done
                                  ELSE s[k]
    BY DEF NextRangeFrom, RangeStops
  <1>7. NextRangeFrom(c, range).kind = "read" /\ c' = NextRangeFrom(c, range).cur
        /\ db' = db /\ wal' = wal /\ manifest' = manifest /\ h' = h
    BY DEF NextRange
  <1> HIDE DEF s, k
  <1>8. c' = s[k].cur /\ s[k].kind = "read" /\ Matching(s[k].frame, range) # {}
    BY <1>6, <1>7, DoneFacts
  <1>9. Len(s) = z + 2 /\ s[z + 2] = Done
    BY <1>3 DEF ReadToEnd
  <1>10. k \in T /\ \A j \in T : k <= j
    <2>1. z + 2 \in T
      BY <1>5, <1>9, DoneFacts DEF RangeStops
    <2>2. T \subseteq Nat
      BY DEF RangeStops
    <2> HIDE DEF T
    <2> QED
      BY <2>1, <2>2, MinExists DEF k
  <1>11. k \in 2..(z + 1) /\ k \in 1..(z + 1) /\ k \in Nat
    <2>1. k \in 2..(z + 2)
      BY <1>9, <1>10 DEF RangeStops
    <2>2. k # z + 2
      BY <1>8, <1>9, DoneFacts
    <2> QED
      BY <1>5, <2>1, <2>2
  <1>12. <<s[k].cur, (i + k) - 1>> \in P /\ s[k].frame = lv[x]
    BY <1>3, <1>11 DEF ReadToEnd
  <1>13. x \in i..Len(lv) /\ (i + k) - 1 = x + 1 /\ x \in Nat
    BY <1>4, <1>11
  <1>14. ASSUME NEW y \in i..(x - 1) PROVE Matching(lv[y], range) = {}
    <2> DEFINE m == (y - i) + 2
    <2>1. m \in 2..(z + 1) /\ m < k /\ (i + m) - 2 = y /\ m \in 2..Len(s) /\ m \in Nat
      BY <1>4, <1>5, <1>9, <1>11
    <2> HIDE DEF m
    <2>2. m \notin T
      BY <1>10, <1>11, <2>1
    <2>3. Matching(s[m].frame, range) = {}
      BY <2>1, <2>2 DEF RangeStops
    <2>4. s[m].frame = lv[(i + m) - 2]
      BY <1>3, <2>1 DEF ReadToEnd
    <2> QED
      BY <2>1, <2>3, <2>4
  <1> HIDE DEF x
  <1>15. NoneIn(lv, i, x - 1, range)
    BY <1>14 DEF NoneIn
  <1>16. Seen(db', wal', manifest', h', c', lv, x + 1)
    BY <1>1, <1>7, <1>8, <1>12, <1>13 DEF Seen
  <1> QED
    BY <1>8, <1>12, <1>13, <1>15, <1>16

\* Where a seek goes: the first batch whose last record is not older, or the end.
SeekPlace(lv, from, x) ==
    /\ x \in 1..(Len(lv) + 1)
    /\ x <= Len(lv) => LastTimeOf(lv[x]) >= from
    /\ \A y \in 1..(x - 1) : LastTimeOf(lv[y]) < from

\* A seek moves the cursor there.
LEMMA SeekSeen ==
  ASSUME NEW lv, NEW i, Seen(db, wal, manifest, h, c, lv, i), NEW from \in Times, Seek(from)
  PROVE  \E x : SeekPlace(lv, from, x) /\ Seen(db', wal', manifest', h', c', lv, x)
  <1> DEFINE r == SeekResult(from)
             hits == HitsIn(lv, 1, Len(lv), from)
  <1>1. PICK P : Viewed(db, wal, manifest, h, lv, P) /\ <<c, i>> \in P
    BY DEF Seen
  <1>2. Found(r, hits, P)
    BY <1>1, SeekFound
  <1>3. /\ c' = IF r = Done THEN EndCursor(h, ResetCursor) ELSE r.cur
        /\ db' = db /\ wal' = wal /\ manifest' = manifest /\ h' = h
    BY DEF Seek, SeekTo
  <1>4. /\ lv \in Seq(FrameSet) /\ Len(lv) \in Nat /\ <<ResetCursor, 1>> \in P /\ Follows(db, wal, h, lv, P)
    BY <1>1, ViewedFacts
  <1>5. ResetCursor \in CursorType
    BY <1>4 DEF Follows
  <1>6. ASSUME NEW y \in 1..Len(lv), y \notin hits PROVE LastTimeOf(lv[y]) < from
    <2>1. ~(LastTimeOf(lv[y]) >= from)
      BY <1>6 DEF HitsIn
    <2>2. LastTimeOf(lv[y]) \in Times
      BY <1>4, FrameFacts
    <2> QED
      BY <2>1, <2>2, LimitAssumption DEF Times
  <1> HIDE DEF r
  <1>7. CASE hits = {}
    <2>1. r = Done
      BY <1>2, <1>7 DEF Found
    <2>2. c' = EndCursor(h, ResetCursor)
      BY <1>3, <2>1
    <2>3. <<c', Len(lv) + 1>> \in P
      BY <1>1, <1>5, <2>2, ViewedEnd
    <2> DEFINE L == Len(lv)
    <2>4. L + 1 \in 1..(L + 1) /\ ~(L + 1 <= L) /\ \A y \in 1..((L + 1) - 1) : y \in 1..L
      BY <1>4
    <2>5. SeekPlace(lv, from, L + 1)
      BY <1>6, <1>7, <2>4 DEF SeekPlace
    <2>6. Seen(db', wal', manifest', h', c', lv, L + 1)
      BY <1>1, <1>3, <2>3 DEF Seen
    <2> QED
      BY <2>5, <2>6
  <1>8. CASE hits # {}
    <2>1. PICK nx : r = [kind |-> "found", cur |-> nx] /\ <<nx, Min(hits)>> \in P
      BY <1>2, <1>8 DEF Found
    <2>2. c' = nx
      BY <1>3, <2>1, DoneFacts
    <2>3. Min(hits) \in hits /\ \A y \in hits : Min(hits) <= y
      <3>1. hits \subseteq Nat
        BY <1>4 DEF HitsIn
      <3> HIDE DEF hits
      <3> QED
        BY <1>8, <3>1, MinExists
    <2> DEFINE x == Min(hits)
    <2>4. x \in 1..Len(lv) /\ LastTimeOf(lv[x]) >= from
      BY <2>3 DEF HitsIn
    <2>5. Seen(db', wal', manifest', h', c', lv, x)
      BY <1>1, <1>3, <2>1, <2>2 DEF Seen
    <2>6. \A y \in hits : x <= y
      BY <2>3
    <2> HIDE DEF x
    <2>7. ASSUME NEW y \in 1..(x - 1) PROVE LastTimeOf(lv[y]) < from
      <3>1. y \in 1..Len(lv) /\ ~(x <= y)
        BY <1>4, <2>4
      <3>2. y \notin hits
        BY <2>6, <3>1
      <3> QED
        BY <1>6, <3>1, <3>2
    <2>8. SeekPlace(lv, from, x)
      BY <1>4, <2>4, <2>7 DEF SeekPlace
    <2> QED
      BY <2>5, <2>8
  <1> QED
    BY <1>7, <1>8

\* What an expiry leaves: batches of before, and all that are not wholly older
\* than the cutoff.
Thinned(lv, nl, cutoff) ==
    /\ \A x \in 1..Len(nl) : \E y \in 1..Len(lv) : lv[y] = nl[x]
    /\ \A y \in 1..Len(lv) : (\A t \in TimesOf(lv[y]) : t < cutoff) \/ \E x \in 1..Len(nl) : nl[x] = lv[y]

\* All batches of a segment that expires are older than the cutoff.
LEMMA ExpiresOld ==
  ASSUME NEW st, NEW sf, NEW sa, NEW wf, NEW wa, Stored(db, wal, manifest, h, st, sf, sa, wf, wa),
         NEW cutoff \in Nat, NEW k \in 1..h.generation, SegmentExpires(db, st[k], cutoff),
         NEW j \in 1..Len(sf[k]), NEW t \in TimesOf(sf[k][j])
  PROVE  t < cutoff
  <1>1. Cells(db) /\ TimesKept(db, h.generation, st, sf)
    BY StoredFacts
  <1>2. st[k] \in Nat /\ SegmentWhole(db, st[k], sf[k], sa[k]) /\ sf[k] \in Seq(FrameSet)
    BY StoredSegments
  <1>3. HeaderTimes(db[st[k]], sf[k])
    BY <1>1 DEF TimesKept
  <1>4. CASE db[st[k]].size = 2 \/ cutoff = 0
    <2>1. db[st[k]].maximum < cutoff
      BY <1>4 DEF SegmentExpires
    <2>2. t <= db[st[k]].maximum
      BY <1>3 DEF HeaderTimes
    <2>3. db[st[k]].maximum \in Times
      BY <1>2, WholeFacts
    <2>4. sf[k][j] \in FrameSet
      BY <1>2
    <2>5. t \in Times
      BY <2>4, EndTimes
    <2> QED
      BY <2>1, <2>2, <2>3, <2>5, LimitAssumption DEF Times
  <1>5. CASE ~(db[st[k]].size = 2 \/ cutoff = 0)
    <2>1. SegmentFrames(db, st[k]) = sf[k]
      BY <1>1, <1>2, SegmentFramesFound
    <2>2. \A i \in DOMAIN sf[k] : \A u \in TimesOf(sf[k][i]) : u < cutoff
      BY <1>5, <2>1 DEF SegmentExpires
    <2>3. j \in DOMAIN sf[k]
      BY <1>2
    <2> QED
      BY <2>2, <2>3
  <1> QED
    BY <1>4, <1>5

\* The batches of the compacted file and the log are those that an expiry leaves.
LEMMA ExpiredThin ==
  ASSUME NEW st, NEW sf, NEW sa, NEW wf, NEW wa, Stored(db, wal, manifest, h, st, sf, sa, wf, wa),
         NEW cutoff \in Nat, NEW F, NEW back, NEW tt, NEW tf, NEW ta, NEW src,
         ExpiredTo(st, sf, cutoff, F, back, tt, tf, ta, src),
         NEW lo, NEW lv, Flat(h.generation, sf, wf, lo, lv), NEW ln, NEW nl, Flat(back.n, tf, wf, ln, nl)
  PROVE  Thinned(lv, nl, cutoff)
  <1> DEFINE n == h.generation
             b == back.n
  <1>1. /\ n \in Nat /\ \A q \in 1..n : sf[q] \in Seq(FrameSet)
        /\ wf \in Seq(FrameSet) /\ Len(wf) \in Nat
    BY StoredSegments
  <1>2. /\ Layout(F, DataStart, back.at, b, tt, tf, ta) /\ Chosen(b, n, src)
        /\ \A x \in 1..b : tf[x] = sf[src[x]]
        /\ \A y \in 1..n : SegmentExpires(db, st[y], cutoff) \/ \E x \in 1..b : src[x] = y
    BY DEF ExpiredTo
  <1>3. b \in Nat
    BY <1>2, LayoutFacts
  <1>4. \A x \in 1..b : src[x] \in 1..n
    BY <1>2 DEF Chosen
  <1> HIDE DEF b
  <1>5. \A x \in 1..b : tf[x] \in Seq(FrameSet)
    BY <1>1, <1>2, <1>4
  <1>6. Flat(b, tf, wf, ln, nl)
    BY DEF b
  <1>7. /\ Len(lv) \in Nat /\ Len(lv) = lo[n + 1] + Len(wf) /\ lo[n + 1] \in Nat
        /\ \A k \in 1..n : \A j \in 1..Len(sf[k]) : lv[lo[k] + j] = sf[k][j]
        /\ \A j \in 1..Len(wf) : lv[lo[n + 1] + j] = wf[j]
    <2>1. n + 1 \in 1..(n + 1)
      BY <1>1
    <2> QED
      BY <1>1, <2>1 DEF Flat
  <1>8. /\ Len(nl) \in Nat /\ Len(nl) = ln[b + 1] + Len(wf) /\ ln[b + 1] \in Nat
        /\ \A k \in 1..b : \A j \in 1..Len(tf[k]) : nl[ln[k] + j] = tf[k][j]
        /\ \A j \in 1..Len(wf) : nl[ln[b + 1] + j] = wf[j]
    <2>1. b + 1 \in 1..(b + 1)
      BY <1>3
    <2>2. /\ ln \in [1..(b + 1) -> Nat] /\ Len(nl) = ln[b + 1] + Len(wf)
          /\ \A k \in 1..b : \A j \in 1..Len(tf[k]) : nl[ln[k] + j] = tf[k][j]
          /\ \A j \in 1..Len(wf) : nl[ln[b + 1] + j] = wf[j]
      BY <1>6 DEF Flat
    <2>3. ln[b + 1] \in Nat
      BY <2>1, <2>2
    <2>4. Len(nl) \in Nat
      BY <1>1, <2>2, <2>3
    <2> QED
      BY <2>2, <2>3, <2>4
  <1>9. ASSUME NEW x \in 1..Len(nl) PROVE \E y \in 1..Len(lv) : lv[y] = nl[x]
    <2>1. x \in 1..(Len(nl) + 1)
      BY <1>8
    <2>2. \E k \in 1..(b + 1), j \in Nat : PlaceOf(b, tf, wf, ln, x, k, j)
      BY <1>1, <1>3, <1>5, <1>6, <2>1, FlatPlace
    <2>3. PICK k \in 1..(b + 1), j \in Nat : PlaceOf(b, tf, wf, ln, x, k, j)
      BY <2>2
    <2>4. CASE k \in 1..b /\ j \in 1..Len(tf[k])
      <3>1. nl[x] = tf[k][j] /\ tf[k] = sf[src[k]] /\ src[k] \in 1..n
        BY <1>2, <1>4, <1>8, <2>3, <2>4 DEF PlaceOf
      <3>2. j \in 1..Len(sf[src[k]])
        BY <2>4, <3>1
      <3>3. lo[src[k]] + j \in 1..Len(lv)
        BY <1>1, <3>1, <3>2, FlatInside
      <3>4. lv[lo[src[k]] + j] = sf[src[k]][j]
        BY <1>7, <3>1, <3>2
      <3> QED
        BY <3>1, <3>3, <3>4
    <2>5. CASE k = b + 1 /\ j \in 1..(Len(wf) + 1)
      <3>1. x = ln[b + 1] + j
        BY <2>3, <2>5 DEF PlaceOf
      <3>2. j \in 1..Len(wf)
        BY <1>1, <1>8, <2>5, <3>1
      <3>3. lo[n + 1] + j \in 1..Len(lv)
        <4>1. lo[n + 1] \in Nat /\ Len(wf) \in Nat /\ Len(lv) = lo[n + 1] + Len(wf)
          BY <1>1, <1>7
        <4> QED
          BY <3>2, <4>1
      <3> QED
        BY <1>7, <1>8, <3>1, <3>2, <3>3
    <2> QED
      BY <2>3, <2>4, <2>5 DEF PlaceOf
  <1>10. ASSUME NEW y \in 1..Len(lv) PROVE (\A t \in TimesOf(lv[y]) : t < cutoff) \/ \E x \in 1..Len(nl) : nl[x] = lv[y]
    <2>1. y \in 1..(Len(lv) + 1)
      BY <1>7
    <2>2. \E k \in 1..(n + 1), j \in Nat : PlaceOf(n, sf, wf, lo, y, k, j)
      BY <1>1, <2>1, FlatPlace
    <2>3. PICK k \in 1..(n + 1), j \in Nat : PlaceOf(n, sf, wf, lo, y, k, j)
      BY <2>2
    <2>4. CASE k \in 1..n /\ j \in 1..Len(sf[k])
      <3>1. lv[y] = sf[k][j]
        BY <1>7, <2>3, <2>4 DEF PlaceOf
      <3>2. CASE SegmentExpires(db, st[k], cutoff)
        <4>1. ASSUME NEW t \in TimesOf(sf[k][j]) PROVE t < cutoff
          BY <2>4, <3>2, ExpiresOld
        <4> QED
          BY <3>1, <4>1
      <3>3. CASE ~SegmentExpires(db, st[k], cutoff)
        <4>1. PICK x \in 1..b : src[x] = k
          BY <1>2, <2>4, <3>3
        <4>2. tf[x] = sf[k]
          BY <1>2, <4>1
        <4>3. j \in 1..Len(tf[x])
          BY <2>4, <4>2
        <4>4. ln[x] + j \in 1..Len(nl)
          BY <1>1, <1>3, <1>5, <1>6, <4>3, FlatInside
        <4>5. nl[ln[x] + j] = tf[x][j]
          BY <1>8, <4>3
        <4> QED
          BY <3>1, <4>2, <4>4, <4>5
      <3> QED
        BY <3>2, <3>3
    <2>5. CASE k = n + 1 /\ j \in 1..(Len(wf) + 1)
      <3>1. y = lo[n + 1] + j
        BY <2>3, <2>5 DEF PlaceOf
      <3>2. j \in 1..Len(wf)
        BY <1>1, <1>7, <2>5, <3>1
      <3>3. ln[b + 1] + j \in 1..Len(nl)
        BY SMTT(30), <1>1, <1>8, <3>2
      <3> QED
        BY <1>7, <1>8, <3>1, <3>2, <3>3
    <2> QED
      BY <2>3, <2>4, <2>5 DEF PlaceOf
  <1> QED
    BY <1>9, <1>10 DEF Thinned

\* An expiry leaves those batches and moves the cursor to the first of them that
\* it had not delivered.
LEMMA ExpireSeen ==
  ASSUME NEW lv, NEW i, Seen(db, wal, manifest, h, c, lv, i), NEW cutoff \in Nat, ExpireBefore(cutoff)
  PROVE  \E nl : /\ Thinned(lv, nl, cutoff)
                 /\ Seen(db', wal', manifest', h', c', nl, WantedPlace(nl, c.readSequence))
  <1>0. SeenParts(db, wal, manifest, h, c, lv, i)
    BY SeenStored
  <1>1. PICK st, sf, sa, wf, wa, lo, k, j :
            /\ Stored(db, wal, manifest, h, st, sf, sa, wf, wa) /\ Flat(h.generation, sf, wf, lo, lv)
            /\ i = lo[k] + j /\ At(db, h, st, sf, sa, wf, wa, c, k, j)
    BY <1>0 DEF SeenParts
  <1> DEFINE back == CopiedBack(Survivors(cutoff))
             F == Cut(back.file, DataStart, back.at)
             m == CompactManifest(back)
             span == CheckSegments(F, m).span
             x == ExpiredHandle(back, span)
             r == Relocate(F, x, c.readSequence)
  <1>2. \E tt, tf, ta, src : ExpiredTo(st, sf, cutoff, F, back, tt, tf, ta, src)
    BY <1>1, ExpiredFound
  <1>3. PICK tt, tf, ta, src : ExpiredTo(st, sf, cutoff, F, back, tt, tf, ta, src)
    BY <1>2
  <1>4. Compact(F, m, CheckSegments(F, m))
    BY DEF ExpireBefore, ExpireTo, CompactTo
  <1> HIDE DEF back, F
  <1>5. CheckSegments(F, m).ok = TRUE
    BY <1>1, <1>3, ExpiredSegments
  <1>6. SpanIs(F, tt, back.n, span)
    BY <1>1, <1>3, ExpiredSegments
  <1> HIDE DEF span
  <1>7. Stored(F, wal, m, x, tt, tf, ta, wf, wa)
    BY <1>1, <1>3, <1>6, ExpiredStored
  <1>8. [h EXCEPT !.generation = m.count, !.retention = TRUE, !.dataEnd = m.end,
                  !.lastSegment = m.tail, !.spanStart = CheckSegments(F, m).span] = x
    BY DEF ExpiredHandle, CompactManifest, span
  <1>9. /\ db' = F /\ manifest' = m /\ wal' = wal
        /\ IF r # Bad THEN h' = x /\ c' = r ELSE h' = [h EXCEPT !.failed = TRUE] /\ c' = c
    BY <1>4, <1>5, <1>8 DEF Compact
  <1>10. x.generation = back.n
    <2>1. h \in HandleSet
      BY <1>1, StoredFacts
    <2> DEFINE b == back.n
               e == back.at
               q == back.previous
    <2>2. x = [h EXCEPT !.generation = b, !.retention = TRUE, !.dataEnd = e, !.lastSegment = q, !.spanStart = span]
      BY DEF ExpiredHandle
    <2> HIDE DEF b, e, q, x
    <2>3. x.generation = b
      BY <2>1, <2>2 DEF HandleSet
    <2> QED
      BY <2>3 DEF b
  <1> HIDE DEF m, x
  <1>11. /\ x.generation \in Nat /\ (\A q \in 1..x.generation : tf[q] \in Seq(FrameSet)) /\ wf \in Seq(FrameSet)
    BY <1>7, StoredSegments
  <1>12. PICK ln, nl : Flat(x.generation, tf, wf, ln, nl)
    BY <1>11, FlatExists
  <1>13. Flat(back.n, tf, wf, ln, nl)
    BY <1>10, <1>12
  <1>14. Thinned(lv, nl, cutoff)
    BY <1>1, <1>3, <1>13, ExpiredThin
  <1> DEFINE P == Places(F, x, tt, tf, ta, wf, wa, ln)
  <1>15. Viewed(F, wal, m, x, nl, P)
    BY <1>7, <1>12 DEF Viewed
  <1> HIDE DEF P
  <1>16. <<r, WantedPlace(nl, c.readSequence)>> \in P /\ r # Bad
    BY <1>15, RelocateFound
  <1> HIDE DEF r
  <1>17. Seen(F, wal, m, x, r, nl, WantedPlace(nl, c.readSequence))
    BY <1>15, <1>16 DEF Seen
  <1>18. db' = F /\ manifest' = m /\ wal' = wal /\ h' = x /\ c' = r
    BY <1>9, <1>16
  <1> QED
    BY <1>14, <1>17, <1>18

\* A batch that a cursor with this read sequence has yet to deliver.
Due(f, rs) == rs # 0 /\ f.seq >= rs

\* They are the ones from its place on.
LEMMA DuePlace ==
  ASSUME NEW lv, Len(lv) \in Nat, \A x \in 1..Len(lv) : lv[x].seq \in Nat, NEW cur, cur.readSequence \in Nat,
         NEW i \in 1..(Len(lv) + 1), Expects(lv, cur, i), NEW y \in 1..Len(lv)
  PROVE  y >= i <=> Due(lv[y], cur.readSequence)
  <1>1. CASE cur.readSequence = 0
    <2>1. i = Len(lv) + 1
      BY <1>1 DEF Expects
    <2> QED
      BY <1>1, <2>1 DEF Due
  <1>2. CASE cur.readSequence # 0
    <2>1. CASE y >= i
      <3>1. y \in i..Len(lv)
        BY <2>1
      <3>2. lv[y].seq >= cur.readSequence
        BY <3>1 DEF Expects
      <3> QED
        BY <1>2, <2>1, <3>2 DEF Due
    <2>2. CASE ~(y >= i)
      <3>1. y \in 1..(i - 1)
        BY <2>2
      <3>2. lv[y].seq < cur.readSequence
        BY <1>2, <3>1 DEF Expects
      <3>3. ~(lv[y].seq >= cur.readSequence)
        BY <3>2
      <3> QED
        BY <2>2, <3>3 DEF Due
    <2> QED
      BY <2>1, <2>2
  <1> QED
    BY <1>1, <1>2

\* The sequences of a sequence of batches, and that they grow.
Growing(lv) ==
    /\ lv \in Seq(FrameSet) /\ Len(lv) \in Nat
    /\ \A x \in 1..Len(lv) : lv[x].seq \in Nat
    /\ \A x, y \in 1..Len(lv) : x < y => lv[x].seq < lv[y].seq

\* The ones from the place where an expiry leaves it.
LEMMA DueWanted ==
  ASSUME NEW lv, Growing(lv), NEW rs \in Nat, NEW y \in 1..Len(lv)
  PROVE  y >= WantedPlace(lv, rs) <=> Due(lv[y], rs)
  <1> DEFINE hits == {x \in 1..Len(lv) : lv[x].seq >= rs}
             p == Min(hits)
  <1>1. Len(lv) \in Nat /\ \A x \in 1..Len(lv) : lv[x].seq \in Nat
    BY DEF Growing
  <1>2. CASE rs = 0 \/ hits = {}
    <2>1. WantedPlace(lv, rs) = Len(lv) + 1
      BY <1>2 DEF WantedPlace
    <2>2. ~Due(lv[y], rs)
      BY <1>2 DEF Due
    <2> QED
      BY <1>1, <2>1, <2>2
  <1>3. CASE rs # 0 /\ hits # {}
    <2>1. WantedPlace(lv, rs) = p
      BY <1>3 DEF WantedPlace
    <2>2. p \in hits /\ \A z \in hits : p <= z
      <3>1. hits \subseteq Nat
        BY <1>1
      <3> HIDE DEF hits
      <3> QED
        BY <1>3, <3>1, MinExists
    <2>3. p \in 1..Len(lv) /\ lv[p].seq >= rs
      BY <2>2
    <2>4. Due(lv[y], rs) <=> y \in hits
      BY <1>3 DEF Due
    <2>5. y \in hits => y >= p
      <3>1. SUFFICES ASSUME y \in hits PROVE y >= p
        OBVIOUS
      <3>2. p <= y
        BY <2>2, <3>1
      <3> HIDE DEF p, hits
      <3> QED
        BY <1>1, <2>3, <3>2
    <2>6. y >= p => y \in hits
      <3>1. SUFFICES ASSUME y >= p PROVE lv[y].seq >= rs
        OBVIOUS
      <3> HIDE DEF p, hits
      <3>2. CASE y = p
        BY <2>3, <3>2
      <3>3. CASE y # p
        <4>1. p < y
          BY <1>1, <2>3, <3>1, <3>3
        <4>2. lv[p].seq < lv[y].seq
          BY <2>3, <4>1 DEF Growing
        <4> QED
          BY <1>1, <2>3, <4>2
      <3> QED
        BY <3>2, <3>3
    <2> HIDE DEF hits, p
    <2> QED
      BY <2>1, <2>4, <2>5, <2>6
  <1> QED
    BY <1>2, <1>3

\* What the batches from a place on are.
LEMMA RestFacts ==
  ASSUME NEW lv \in Seq(FrameSet), NEW i \in 1..(Len(lv) + 1)
  PROVE  /\ Rest(lv, i) \in Seq(FrameSet) /\ Len(Rest(lv, i)) = (Len(lv) - i) + 1
         /\ \A j \in 1..((Len(lv) - i) + 1) : Rest(lv, i)[j] = lv[(i + j) - 1]
         /\ Len(lv) \in Nat /\ (Len(lv) - i) + 1 \in Nat
  <1>1. Len(lv) \in Nat
    OBVIOUS
  <1>2. Len(Rest(lv, i)) = (Len(lv) - i) + 1 /\ \A j \in 1..((Len(lv) - i) + 1) : Rest(lv, i)[j] = lv[(i + j) - 1]
    BY <1>1 DEF Rest
  <1>3. Rest(lv, i) \in Seq(FrameSet)
    BY <1>1 DEF Rest
  <1> QED
    BY <1>1, <1>2, <1>3

\* The batches of the abstract specification.
LEMMA CursorFrames ==
  {Frame(n, r) : n \in 1..SeqMax, r \in Inputs \cup LegacyInputs} = FrameSet
  <1>1. ASSUME NEW n \in 1..SeqMax, NEW r \in Inputs \cup LegacyInputs PROVE Frame(n, r) \in FrameSet
    BY DEF Frame, FrameSet
  <1>2. ASSUME NEW f \in FrameSet PROVE \E n \in 1..SeqMax, r \in Inputs \cup LegacyInputs : f = Frame(n, r)
    <2>1. f = [kind |-> "frame", seq |-> f.seq, records |-> f.records]
          /\ f.seq \in 1..SeqMax /\ f.records \in Inputs \cup LegacyInputs
      BY DEF FrameSet
    <2> QED
      BY <2>1 DEF Frame
  <1> QED
    BY <1>1, <1>2

\* The sequences of the batches that a view shows grow.
LEMMA SeenGrowing ==
  ASSUME NEW d, NEW w, NEW m, NEW hd, NEW cur, NEW lv, NEW i, Seen(d, w, m, hd, cur, lv, i)
  PROVE  Growing(lv)
  <1>1. /\ lv \in Seq(FrameSet) /\ Len(lv) \in Nat
        /\ \A x, y \in 1..Len(lv) : x < y => lv[x].seq < lv[y].seq
    BY SeenFacts
  <1>2. ASSUME NEW x \in 1..Len(lv) PROVE lv[x].seq \in Nat
    <2>1. lv[x].seq \in 1..SeqMax
      BY <1>1, FrameFacts
    <2> QED
      BY <2>1, LimitAssumption
  <1> QED
    BY <1>1, <1>2 DEF Growing

\* Batches whose sequences grow are in ascending order, and so are those from any
\* place on.
LEMMA AscendingRest ==
  ASSUME NEW lv, Growing(lv), NEW i \in 1..(Len(lv) + 1)
  PROVE  Cursor!Ascending(lv) /\ Cursor!Ascending(Rest(lv, i))
  <1>1. /\ lv \in Seq(FrameSet) /\ Len(lv) \in Nat
        /\ \A x, y \in 1..Len(lv) : x < y => lv[x].seq < lv[y].seq
    BY DEF Growing
  <1>2. DOMAIN lv = 1..Len(lv)
    BY <1>1
  <1>3. Cursor!Ascending(lv)
    BY <1>1, <1>2 DEF Cursor!Ascending
  <1> DEFINE s == Rest(lv, i)
             z == (Len(lv) - i) + 1
  <1>4. s \in Seq(FrameSet) /\ Len(s) = z /\ \A j \in 1..z : s[j] = lv[(i + j) - 1]
    BY <1>1, RestFacts
  <1> HIDE DEF s
  <1>5. DOMAIN s = 1..z
    BY <1>4
  <1>6. ASSUME NEW x \in 1..z, NEW y \in 1..z, x < y PROVE s[x].seq < s[y].seq
    <2>1. (i + x) - 1 \in 1..Len(lv) /\ (i + y) - 1 \in 1..Len(lv) /\ (i + x) - 1 < (i + y) - 1
      BY <1>1, <1>6
    <2>2. s[x] = lv[(i + x) - 1] /\ s[y] = lv[(i + y) - 1]
      BY <1>4
    <2> QED
      BY <1>1, <2>1, <2>2
  <1>7. Cursor!Ascending(s)
    BY <1>5, <1>6 DEF Cursor!Ascending
  <1> QED
    BY <1>3, <1>7 DEF s

\* A batch among those from a place on.
LEMMA RestHolds ==
  ASSUME NEW lv \in Seq(FrameSet), NEW i \in 1..(Len(lv) + 1), NEW f
  PROVE  Cursor!Holds(Rest(lv, i), f) <=> \E x \in 1..Len(lv) : x >= i /\ lv[x] = f
  <1> DEFINE s == Rest(lv, i)
             z == (Len(lv) - i) + 1
  <1>1. s \in Seq(FrameSet) /\ Len(s) = z /\ (\A j \in 1..z : s[j] = lv[(i + j) - 1]) /\ Len(lv) \in Nat
    BY RestFacts
  <1> HIDE DEF s
  <1>2. DOMAIN s = 1..z
    BY <1>1
  <1>3. ASSUME NEW j \in 1..z, s[j] = f PROVE \E x \in 1..Len(lv) : x >= i /\ lv[x] = f
    <2>1. (i + j) - 1 \in 1..Len(lv) /\ (i + j) - 1 >= i
      BY <1>1
    <2> QED
      BY <1>1, <1>3, <2>1
  <1>4. ASSUME NEW x \in 1..Len(lv), x >= i, lv[x] = f PROVE \E j \in 1..z : s[j] = f
    <2>1. (x - i) + 1 \in 1..z /\ (i + ((x - i) + 1)) - 1 = x
      BY <1>1, <1>4
    <2>2. s[(x - i) + 1] = lv[(i + ((x - i) + 1)) - 1]
      BY <1>1, <2>1
    <2> QED
      BY <1>4, <2>1, <2>2
  <1>5. Cursor!Holds(s, f) <=> \E j \in 1..z : s[j] = f
    BY <1>2 DEF Cursor!Holds
  <1>6. Cursor!Holds(s, f) <=> \E x \in 1..Len(lv) : x >= i /\ lv[x] = f
    BY <1>3, <1>4, <1>5
  <1> QED
    BY <1>6 DEF s

\* A batch among all of them.
LEMMA LiveHolds ==
  ASSUME NEW lv \in Seq(FrameSet), NEW f
  PROVE  Cursor!Holds(lv, f) <=> \E x \in 1..Len(lv) : lv[x] = f
  <1>1. DOMAIN lv = 1..Len(lv)
    OBVIOUS
  <1> QED
    BY <1>1 DEF Cursor!Holds

\* An append is a commit.
LEMMA CommitStep ==
  ASSUME NEW lv, NEW i, Growing(lv), i \in 1..(Len(lv) + 1), live = lv, unread = Rest(lv, i),
         NEW f \in FrameSet, \A x \in 1..Len(lv) : lv[x].seq < f.seq,
         live' = Append(lv, f), unread' = Rest(Append(lv, f), i)
  PROVE  Cursor!Commit
  <1> DEFINE L == Append(lv, f)
             s == Rest(lv, i)
             z == (Len(lv) - i) + 1
  <1>1. lv \in Seq(FrameSet) /\ Len(lv) \in Nat
    BY DEF Growing
  <1>2. /\ L \in Seq(FrameSet) /\ Len(L) = Len(lv) + 1 /\ L[Len(lv) + 1] = f
        /\ \A y \in 1..Len(lv) : L[y] = lv[y]
    BY <1>1, AppendFacts
  <1>3. s \in Seq(FrameSet) /\ Len(s) = z /\ (\A j \in 1..z : s[j] = lv[(i + j) - 1]) /\ z \in Nat
    BY <1>1, RestFacts
  <1> HIDE DEF L, s
  <1>4. i \in 1..(Len(L) + 1) /\ (Len(L) - i) + 1 = z + 1
    BY <1>1, <1>2
  <1> DEFINE t == Rest(L, i)
             u == Append(s, f)
  <1>5. t \in Seq(FrameSet) /\ Len(t) = z + 1 /\ \A j \in 1..(z + 1) : t[j] = L[(i + j) - 1]
    BY <1>2, <1>4, RestFacts
  <1>6. u \in Seq(FrameSet) /\ Len(u) = z + 1 /\ u[z + 1] = f /\ \A j \in 1..z : u[j] = s[j]
    BY <1>3, AppendFacts
  <1> HIDE DEF t, u
  <1>7. ASSUME NEW j \in 1..(z + 1) PROVE t[j] = u[j]
    <2>1. CASE j = z + 1
      <3>1. (i + j) - 1 = Len(lv) + 1
        BY <1>1, <2>1
      <3> QED
        BY <1>2, <1>5, <1>6, <2>1, <3>1
    <2>2. CASE j \in 1..z
      <3>1. (i + j) - 1 \in 1..Len(lv)
        BY <1>1, <2>2
      <3> QED
        BY <1>2, <1>3, <1>5, <1>6, <2>2, <3>1
    <2>3. j \in 1..z \/ j = z + 1
      <3>1. z \in Nat
        BY <1>1
      <3> HIDE DEF z
      <3> QED
        BY <3>1
    <2> QED
      BY <2>1, <2>2, <2>3
  <1>8. t = u
    BY <1>5, <1>6, <1>7, SameSequence
  <1>9. DOMAIN lv = 1..Len(lv)
    BY <1>1
  <1>10. unread' = Append(unread, f)
    BY <1>8 DEF t, u, L, s
  <1>11. \A x \in DOMAIN live : live[x].seq < f.seq
    BY <1>9
  <1>12. live' = Append(live, f)
    OBVIOUS
  <1> QED
    BY <1>10, <1>11, <1>12, CursorFrames DEF Cursor!Commit

\* A call of next takes the first batch.
LEMMA NextStep ==
  ASSUME NEW lv, NEW i, Growing(lv), i \in 1..(Len(lv) + 1), i # Len(lv) + 1, live = lv, unread = Rest(lv, i),
         live' = lv, unread' = Rest(lv, i + 1)
  PROVE  Cursor!Next
  <1>1. lv \in Seq(FrameSet) /\ Len(lv) \in Nat
    BY DEF Growing
  <1>2. i \in 1..Len(lv)
    BY <1>1
  <1>3. unread # <<>>
    <2>1. Len(Rest(lv, i)) = (Len(lv) - i) + 1
      BY <1>1, RestFacts
    <2>2. Len(Rest(lv, i)) # 0
      BY <1>1, <1>2, <2>1
    <2> QED
      BY <2>2
  <1>4. Tail(unread) = Rest(lv, i + 1)
    <2> DEFINE s == Rest(lv, i)
               t == Rest(lv, i + 1)
               z == (Len(lv) - i) + 1
    <2>1. s \in Seq(FrameSet) /\ Len(s) = z /\ (\A j \in 1..z : s[j] = lv[(i + j) - 1])
      BY <1>1, RestFacts
    <2>2. i + 1 \in 1..(Len(lv) + 1) /\ (Len(lv) - (i + 1)) + 1 = z - 1 /\ z \in Nat /\ z >= 1
      BY <1>1, <1>2
    <2>3. t \in Seq(FrameSet) /\ Len(t) = z - 1 /\ (\A j \in 1..(z - 1) : t[j] = lv[((i + 1) + j) - 1])
      BY <1>1, <2>2, RestFacts
    <2> HIDE DEF s, t, z
    <2>4. Tail(s) \in Seq(FrameSet) /\ Len(Tail(s)) = z - 1 /\ \A j \in 1..(z - 1) : Tail(s)[j] = s[j + 1]
      <3>1. s # <<>>
        BY <2>1, <2>2
      <3> QED
        BY <2>1, <2>2, <3>1
    <2>5. ASSUME NEW j \in 1..(z - 1) PROVE Tail(s)[j] = t[j]
      <3>1. j + 1 \in 1..z /\ (i + (j + 1)) - 1 = ((i + 1) + j) - 1
        BY <1>2, <2>2
      <3> QED
        BY <2>1, <2>3, <2>4, <3>1
    <2>6. Tail(s) = t
      BY <2>3, <2>4, <2>5, SameSequence
    <2> QED
      BY <2>6 DEF s, t
  <1> QED
    BY <1>3, <1>4 DEF Cursor!Next

\* The batches from the first one on are all of them.
LEMMA RestAll ==
  ASSUME NEW lv, Growing(lv)
  PROVE  Rest(lv, 1) = lv
  <1>1. lv \in Seq(FrameSet) /\ Len(lv) \in Nat
    BY DEF Growing
  <1>2. 1 \in 1..(Len(lv) + 1) /\ (Len(lv) - 1) + 1 = Len(lv)
    BY <1>1
  <1>3. Rest(lv, 1) \in Seq(FrameSet) /\ Len(Rest(lv, 1)) = (Len(lv) - 1) + 1
        /\ \A j \in 1..((Len(lv) - 1) + 1) : Rest(lv, 1)[j] = lv[(1 + j) - 1]
    BY <1>1, <1>2, RestFacts
  <1>4. ASSUME NEW j \in 1..Len(lv) PROVE Rest(lv, 1)[j] = lv[j]
    <2>1. (1 + j) - 1 = j
      BY <1>1
    <2> QED
      BY <1>2, <1>3, <2>1
  <1>5. Len(Rest(lv, 1)) = Len(lv)
    BY <1>2, <1>3
  <1> QED
    BY <1>1, <1>3, <1>4, <1>5, SameSequence
\* A rewind, or an open, starts over.
LEMMA RewindStep ==
  ASSUME NEW lv, Growing(lv), live = lv, live' = lv, unread' = Rest(lv, 1)
  PROVE  Cursor!Rewind
  BY RestAll DEF Cursor!Rewind

\* A query takes the first batch with a record in its range.
LEMMA RangeStep ==
  ASSUME NEW lv, NEW i, Growing(lv), i \in 1..(Len(lv) + 1), live = lv, unread = Rest(lv, i), NEW range,
         NEW x \in i..Len(lv), Matching(lv[x], range) # {}, NoneIn(lv, i, x - 1, range),
         live' = lv, unread' = Rest(lv, x + 1)
  PROVE  Cursor!NextRange(range)
  <1> DEFINE s == Rest(lv, i)
             z == (Len(lv) - i) + 1
             k == (x - i) + 1
             t == Rest(lv, x + 1)
             u == Rest(s, k + 1)
  <1>1. lv \in Seq(FrameSet) /\ Len(lv) \in Nat
    BY DEF Growing
  <1>2. s \in Seq(FrameSet) /\ Len(s) = z /\ (\A j \in 1..z : s[j] = lv[(i + j) - 1]) /\ z \in Nat
    BY <1>1, RestFacts
  <1>3. k \in 1..z /\ (i + k) - 1 = x /\ k + 1 \in 1..(z + 1) /\ x + 1 \in 1..(Len(lv) + 1)
        /\ (z - (k + 1)) + 1 = (Len(lv) - (x + 1)) + 1
    BY <1>1
  <1>4. t \in Seq(FrameSet) /\ Len(t) = (Len(lv) - (x + 1)) + 1
        /\ \A j \in 1..((Len(lv) - (x + 1)) + 1) : t[j] = lv[((x + 1) + j) - 1]
    BY <1>1, <1>3, RestFacts
  <1> HIDE DEF s, t
  <1>5. DOMAIN s = 1..z
    BY <1>2
  <1>6. u \in Seq(FrameSet) /\ Len(u) = (Len(s) - (k + 1)) + 1
        /\ \A j \in 1..((Len(s) - (k + 1)) + 1) : u[j] = s[((k + 1) + j) - 1]
    BY <1>2, <1>3, RestFacts
  <1> HIDE DEF u
  <1>7. ASSUME NEW j \in 1..Len(t) PROVE t[j] = u[j]
    <2> DEFINE q == ((k + 1) + j) - 1
               n == Len(lv)
    <2>0. n \in Nat /\ i \in 1..(n + 1) /\ x \in i..n /\ j \in 1..((n - (x + 1)) + 1)
      BY <1>1, <1>4
    <2> HIDE DEF n
    <2>1. q \in 1..((n - i) + 1) /\ (i + q) - 1 = ((x + 1) + j) - 1
      BY <2>0
    <2>a. q \in 1..z /\ (i + q) - 1 = ((x + 1) + j) - 1
      BY <2>1 DEF n
    <2> HIDE DEF q, z
    <2>b. s[q] = lv[(i + q) - 1]
      BY <1>2, <2>a
    <2>2. s[((k + 1) + j) - 1] = lv[((x + 1) + j) - 1]
      BY <2>a, <2>b DEF q
    <2>3. j \in 1..((Len(s) - (k + 1)) + 1) /\ j \in 1..((Len(lv) - (x + 1)) + 1)
      BY <1>2, <1>3, <1>4
    <2> QED
      BY <1>4, <1>6, <2>2, <2>3
  <1>8. Len(t) = Len(u)
    BY <1>2, <1>3, <1>4, <1>6
  <1>9. t = u
    BY <1>4, <1>6, <1>7, <1>8, SameSequence
  <1>10. ASSUME NEW j \in 1..(k - 1) PROVE Matching(s[j], range) = {}
    <2>1. j \in 1..z /\ (i + j) - 1 \in i..(x - 1)
      BY <1>1, <1>3
    <2>2. Matching(lv[(i + j) - 1], range) = {}
      BY <2>1 DEF NoneIn
    <2> QED
      BY <1>2, <2>1, <2>2
  <1>11. Matching(s[k], range) # {}
    BY <1>2, <1>3
  <1>12. unread = s /\ unread' = u /\ live' = live
    BY <1>9 DEF s, t
  <1>13. u = Cursor!From(s, k + 1)
    BY DEF u, Rest, Cursor!From
  <1> HIDE DEF k
  <1> QED
    BY <1>3, <1>5, <1>10, <1>11, <1>12, <1>13 DEF Cursor!NextRange

\* A seek starts at the first batch that is not too old.
LEMMA SeekStep ==
  ASSUME NEW lv, Growing(lv), live = lv, NEW from, NEW x, SeekPlace(lv, from, x),
         live' = lv, unread' = Rest(lv, x)
  PROVE  Cursor!Seek(from)
  <1>1. unread' = Cursor!From(live, x)
    BY DEF Rest, Cursor!From
  <1>2. /\ x \in 1..(Len(live) + 1)
        /\ x <= Len(live) => Cursor!LastTime(live[x]) >= from
        /\ \A y \in 1..(x - 1) : Cursor!LastTime(live[y]) < from
    BY DEF SeekPlace, LastTimeOf, Cursor!LastTime
  <1> QED
    BY <1>1, <1>2 DEF Cursor!Seek

\* An expiry takes away old batches only, and the cursor keeps its place.
LEMMA ExpireStep ==
  ASSUME NEW lv, NEW i, Growing(lv), i \in 1..(Len(lv) + 1), live = lv, unread = Rest(lv, i),
         NEW cur, Expects(lv, cur, i), cur.readSequence \in Nat, NEW cutoff,
         NEW nl, Growing(nl), Thinned(lv, nl, cutoff), WantedPlace(nl, cur.readSequence) \in 1..(Len(nl) + 1),
         live' = nl, unread' = Rest(nl, WantedPlace(nl, cur.readSequence))
  PROVE  Cursor!Expire(cutoff)
  <1> DEFINE rs == cur.readSequence
             p == WantedPlace(nl, rs)
  <1>1. /\ lv \in Seq(FrameSet) /\ Len(lv) \in Nat /\ nl \in Seq(FrameSet) /\ Len(nl) \in Nat
        /\ \A x \in 1..Len(lv) : lv[x].seq \in Nat
    BY DEF Growing
  <1>2. DOMAIN lv = 1..Len(lv) /\ DOMAIN nl = 1..Len(nl)
    BY <1>1
  <1>3. Cursor!Ascending(nl) /\ Cursor!Ascending(Rest(nl, p)) /\ Rest(nl, p) \in Seq(FrameSet)
    BY <1>1, AscendingRest, RestFacts
  <1>4. \A x \in DOMAIN nl : Cursor!Holds(lv, nl[x])
    BY <1>1, <1>2, LiveHolds DEF Thinned
  <1>5. ASSUME NEW y \in DOMAIN lv PROVE Cursor!Older(lv[y], cutoff) \/ Cursor!Holds(nl, lv[y])
    <2>1. CASE \A t \in TimesOf(lv[y]) : t < cutoff
      <3>1. Cursor!Older(lv[y], cutoff)
        BY <2>1 DEF Cursor!Older, TimesOf
      <3> QED
        BY <3>1
    <2>2. CASE \E x \in 1..Len(nl) : nl[x] = lv[y]
      <3>1. Cursor!Holds(nl, lv[y])
        BY <1>2, <2>2 DEF Cursor!Holds
      <3> QED
        BY <3>1
    <2> QED
      BY <1>2, <2>1, <2>2 DEF Thinned
  <1> HIDE DEF rs, p
  <1>6. ASSUME NEW y \in 1..Len(lv) PROVE y >= i <=> Due(lv[y], rs)
    BY <1>1, DuePlace DEF rs
  <1>7. ASSUME NEW x \in 1..Len(nl) PROVE x >= p <=> Due(nl[x], rs)
    BY DueWanted DEF p, rs
  <1>8. ASSUME NEW f PROVE Cursor!Holds(Rest(nl, p), f) <=> Cursor!Holds(Rest(lv, i), f) /\ Cursor!Holds(nl, f)
    <2>1. Cursor!Holds(Rest(nl, p), f) <=> \E x \in 1..Len(nl) : x >= p /\ nl[x] = f
      BY <1>1, RestHolds DEF p, rs
    <2>2. Cursor!Holds(Rest(lv, i), f) <=> \E y \in 1..Len(lv) : y >= i /\ lv[y] = f
      BY <1>1, RestHolds
    <2>3. Cursor!Holds(nl, f) <=> \E x \in 1..Len(nl) : nl[x] = f
      BY <1>1, LiveHolds
    <2>4. ASSUME NEW x \in 1..Len(nl), x >= p, nl[x] = f PROVE \E y \in 1..Len(lv) : y >= i /\ lv[y] = f
      <3>1. PICK y \in 1..Len(lv) : lv[y] = nl[x]
        BY DEF Thinned
      <3>2. Due(lv[y], rs)
        BY <1>7, <2>4, <3>1
      <3> QED
        BY <1>6, <2>4, <3>1, <3>2
    <2>5. ASSUME NEW y \in 1..Len(lv), y >= i, lv[y] = f, NEW x \in 1..Len(nl), nl[x] = f PROVE x >= p
      <3>1. Due(nl[x], rs)
        BY <1>6, <2>5
      <3> QED
        BY <1>7, <3>1
    <2> QED
      BY <2>1, <2>2, <2>3, <2>4, <2>5
  <1>9. unread' = Rest(nl, p) /\ live' = nl /\ unread = Rest(lv, i) /\ live = lv
    BY DEF p, rs
  <1>10. live' \in Seq(FrameSet) /\ Cursor!Ascending(live') /\ unread' \in Seq(FrameSet) /\ Cursor!Ascending(unread')
    BY <1>1, <1>3, <1>9 DEF p, rs
  <1>11. \A x \in DOMAIN live' : Cursor!Holds(live, live'[x])
    BY <1>4, <1>9
  <1>12. \A x \in DOMAIN live : Cursor!Older(live[x], cutoff) \/ Cursor!Holds(live', live[x])
    BY <1>5, <1>9
  <1>13. \A f : Cursor!Holds(unread', f) <=> Cursor!Holds(unread, f) /\ Cursor!Holds(live', f)
    BY <1>8, <1>9
  <1> DEFINE F == {Frame(n, r) : n \in 1..SeqMax, r \in Inputs \cup LegacyInputs}
  <1>14. F = FrameSet
    BY CursorFrames
  <1> HIDE DEF F
  <1>15. live' \in Seq(F) /\ Cursor!Ascending(live')
    BY <1>10, <1>14
  <1>16. unread' \in Seq(F) /\ Cursor!Ascending(unread')
    BY <1>10, <1>14
  <1>17. \A f \in F : Cursor!Holds(unread', f) <=> Cursor!Holds(unread, f) /\ Cursor!Holds(live', f)
    BY <1>13
  <1>18. /\ live' \in Seq(F) /\ Cursor!Ascending(live')
         /\ \A x \in DOMAIN live' : Cursor!Holds(live, live'[x])
         /\ \A x \in DOMAIN live : Cursor!Older(live[x], cutoff) \/ Cursor!Holds(live', live[x])
         /\ unread' \in Seq(F) /\ Cursor!Ascending(unread')
         /\ \A f \in F : Cursor!Holds(unread', f) <=> Cursor!Holds(unread, f) /\ Cursor!Holds(live', f)
    BY <1>11, <1>12, <1>15, <1>16, <1>17
  <1> QED
    BY <1>18 DEF Cursor!Expire, F

\* The cursor starts before all batches.
LEMMA CursorInit ==
  Init => Cursor!Init
  <1> SUFFICES ASSUME Init PROVE Cursor!Init
    OBVIOUS
  <1>1. Inv /\ c = ResetCursor
    BY InvInit DEF Init
  <1>2. PICK lv, i : Seen(db, wal, manifest, h, c, lv, i)
    BY <1>1, InvSeen
  <1>3. PICK P : Viewed(db, wal, manifest, h, lv, P)
    BY <1>2 DEF Seen
  <1>4. <<ResetCursor, 1>> \in P
    BY <1>3, ViewedFacts
  <1>5. Seen(db, wal, manifest, h, c, lv, 1)
    BY <1>1, <1>3, <1>4 DEF Seen
  <1>6. LiveBatches(db, wal, h) = lv /\ Drain(db, wal, h, c) = Rest(lv, 1) /\ 1 \in 1..(Len(lv) + 1)
    BY <1>5, SeenFacts
  <1>7. Growing(lv)
    BY <1>5, SeenGrowing
  <1>8. live = lv /\ unread = lv
    BY <1>1, <1>6, <1>7, RestAll DEF Inv
  <1>9. Cursor!Ascending(live) /\ live \in Seq(FrameSet)
    BY <1>6, <1>7, <1>8, AscendingRest DEF Growing
  <1> DEFINE F == {Frame(n, r) : n \in 1..SeqMax, r \in Inputs \cup LegacyInputs}
  <1>10. F = FrameSet
    BY CursorFrames
  <1> HIDE DEF F
  <1>11. live \in Seq(F) /\ Cursor!Ascending(live) /\ unread = live
    BY <1>8, <1>9, <1>10
  <1> QED
    BY <1>11 DEF Cursor!Init, F

\* Where the cursor stands, seen through the mapping before and after a call.
Standing(lv, i) ==
    /\ Seen(db, wal, manifest, h, c, lv, i) /\ Growing(lv) /\ i \in 1..(Len(lv) + 1)
    /\ live = lv /\ unread = Rest(lv, i)

\* A state of the readers is one.
LEMMA InvStanding ==
  ASSUME Inv
  PROVE  \E lv, i : Standing(lv, i)
  <1>1. PICK lv, i : Seen(db, wal, manifest, h, c, lv, i)
    BY InvSeen
  <1>2. LiveBatches(db, wal, h) = lv /\ Drain(db, wal, h, c) = Rest(lv, i) /\ i \in 1..(Len(lv) + 1)
    BY <1>1, SeenFacts
  <1>3. Growing(lv)
    BY <1>1, SeenGrowing
  <1>4. live = LiveBatches(db, wal, h) /\ unread = Drain(db, wal, h, c)
    BY DEF Inv
  <1>5. Standing(lv, i)
    BY <1>1, <1>2, <1>3, <1>4 DEF Standing
  <1> QED
    BY <1>5

\* What the mapping shows after a call.
LEMMA MappedSeen ==
  ASSUME Mapped, NEW lv, NEW i, Seen(db', wal', manifest', h', c', lv, i)
  PROVE  live' = lv /\ unread' = Rest(lv, i) /\ Growing(lv) /\ i \in 1..(Len(lv) + 1)
  <1>1. LiveBatches(db', wal', h') = lv /\ Drain(db', wal', h', c') = Rest(lv, i) /\ i \in 1..(Len(lv) + 1)
    BY SeenFacts
  <1>2. Growing(lv)
    BY SeenGrowing
  <1>3. live' = LiveBatches(db', wal', h') /\ unread' = Drain(db', wal', h', c')
    BY DEF Mapped
  <1> QED
    BY <1>1, <1>2, <1>3

\* An append commits one batch.
LEMMA AppendCursor ==
  ASSUME NEW lv, NEW i, Standing(lv, i), Mapped, NEW records \in Inputs, AppendBatch(records)
  PROVE  Cursor!Commit
  <1>0. /\ Seen(db, wal, manifest, h, c, lv, i) /\ Growing(lv) /\ i \in 1..(Len(lv) + 1)
        /\ live = lv /\ unread = Rest(lv, i)
    BY DEF Standing
  <1>1. PICK f \in FrameSet : f.seq = h.sequence + 1 /\ Seen(db', wal', manifest', h', c', Append(lv, f), i)
    BY <1>0, AppendSeen
  <1>2. live' = Append(lv, f) /\ unread' = Rest(Append(lv, f), i)
    BY <1>1, MappedSeen
  <1>3. \A x \in 1..Len(lv) : lv[x].seq <= h.sequence
    BY <1>0, SeenFacts
  <1>4. \A x \in 1..Len(lv) : lv[x].seq \in Nat
    BY <1>0 DEF Growing
  <1>5. PICK P : Viewed(db, wal, manifest, h, lv, P)
    BY <1>0 DEF Seen
  <1>6. h.sequence \in 0..SeqMax
    BY <1>5, ViewedFacts
  <1>7. h.sequence \in Nat
    BY <1>6, LimitAssumption
  <1>8. \A x \in 1..Len(lv) : lv[x].seq < f.seq
    BY <1>1, <1>3, <1>4, <1>7
  <1> QED
    BY <1>0, <1>2, <1>8, CommitStep

\* An expiry of the pair is one of the batches.
LEMMA ExpireCursor ==
  ASSUME NEW lv, NEW i, Standing(lv, i), Mapped, NEW t \in Cutoffs, ExpireBefore(t), c.readSequence \in Nat
  PROVE  Cursor!Expire(t)
  <1>0. /\ Seen(db, wal, manifest, h, c, lv, i) /\ Growing(lv) /\ i \in 1..(Len(lv) + 1)
        /\ live = lv /\ unread = Rest(lv, i)
    BY DEF Standing
  <1>1. t \in Nat
    BY ReaderAssumption DEF Times
  <1>2. PICK nl : /\ Thinned(lv, nl, t)
                  /\ Seen(db', wal', manifest', h', c', nl, WantedPlace(nl, c.readSequence))
    BY <1>0, <1>1, ExpireSeen
  <1>3. /\ live' = nl /\ unread' = Rest(nl, WantedPlace(nl, c.readSequence))
        /\ Growing(nl) /\ WantedPlace(nl, c.readSequence) \in 1..(Len(nl) + 1)
    BY <1>2, MappedSeen
  <1>4. Expects(lv, c, i)
    BY <1>0, SeenFacts
  <1> QED
    BY <1>0, <1>2, <1>3, <1>4, ExpireStep

\* Every writing call is a step of the batches, or none.
LEMMA WritingCursor ==
  ASSUME Inv, Writing, Mapped
  PROVE  Cursor!Step \/ UNCHANGED <<live, unread>>
  <1>1. PICK lv, i : Standing(lv, i)
    BY InvStanding
  <1>2. /\ Seen(db, wal, manifest, h, c, lv, i) /\ Growing(lv) /\ i \in 1..(Len(lv) + 1)
        /\ live = lv /\ unread = Rest(lv, i)
    BY <1>1 DEF Standing
  <1>3. CASE \E records \in Inputs : AppendBatch(records)
    <2>1. PICK records \in Inputs : AppendBatch(records)
      BY <1>3
    <2>2. Cursor!Commit
      BY <1>1, <2>1, AppendCursor
    <2> QED
      BY <2>2 DEF Cursor!Step
  <1>4. CASE Checkpoint
    <2>1. Seen(db', wal', manifest', h', c', lv, i)
      BY <1>2, <1>4, CheckpointSeen
    <2>2. live' = lv /\ unread' = Rest(lv, i)
      BY <2>1, MappedSeen
    <2> QED
      BY <1>2, <2>2
  <1>5. CASE \E t \in Cutoffs : ExpireBefore(t)
    <2>1. PICK t \in Cutoffs : ExpireBefore(t)
      BY <1>5
    <2>2. c \in CursorType
      BY InvType DEF TypeOK
    <2>3. c.readSequence \in Nat
      BY <2>2, LimitAssumption DEF CursorType
    <2>4. Cursor!Expire(t)
      BY <1>1, <2>1, <2>3, ExpireCursor
    <2>5. t \in Times
      BY <2>1, ReaderAssumption
    <2> QED
      BY <2>4, <2>5 DEF Cursor!Step
  <1>6. CASE Reopen
    <2>1. Seen(db', wal', manifest', h', c', lv, 1)
      BY <1>2, <1>6, ReopenSeen
    <2>2. live' = lv /\ unread' = Rest(lv, 1)
      BY <2>1, MappedSeen
    <2>3. Cursor!Rewind
      BY <1>2, <2>2, RewindStep
    <2> QED
      BY <2>3 DEF Cursor!Step
  <1> QED
    BY <1>3, <1>4, <1>5, <1>6 DEF Writing

\* Every reading call is a step of the cursor.
LEMMA ReadingCursor ==
  ASSUME Inv, Reading, Mapped
  PROVE  Cursor!Step
  <1>1. PICK lv, i : Standing(lv, i)
    BY InvStanding
  <1>2. /\ Seen(db, wal, manifest, h, c, lv, i) /\ Growing(lv) /\ i \in 1..(Len(lv) + 1)
        /\ live = lv /\ unread = Rest(lv, i)
    BY <1>1 DEF Standing
  <1>3. CASE NextBatch
    <2>1. i # Len(lv) + 1 /\ Seen(db', wal', manifest', h', c', lv, i + 1)
      BY <1>2, <1>3, NextSeen
    <2>2. live' = lv /\ unread' = Rest(lv, i + 1)
      BY <2>1, MappedSeen
    <2>3. Cursor!Next
      BY <1>2, <2>1, <2>2, NextStep
    <2> QED
      BY <2>3 DEF Cursor!Step
  <1>4. CASE Rewind
    <2>1. Seen(db', wal', manifest', h', c', lv, 1)
      BY <1>2, <1>4, RewindSeen
    <2>2. live' = lv /\ unread' = Rest(lv, 1)
      BY <2>1, MappedSeen
    <2>3. Cursor!Rewind
      BY <1>2, <2>2, RewindStep
    <2> QED
      BY <2>3 DEF Cursor!Step
  <1>5. CASE \E t \in Times : Seek(t)
    <2>1. PICK t \in Times : Seek(t)
      BY <1>5
    <2>2. PICK x : SeekPlace(lv, t, x) /\ Seen(db', wal', manifest', h', c', lv, x)
      BY <1>2, <2>1, SeekSeen
    <2>3. live' = lv /\ unread' = Rest(lv, x)
      BY <2>2, MappedSeen
    <2>4. Cursor!Seek(t)
      BY <1>2, <2>2, <2>3, SeekStep
    <2> QED
      BY <2>1, <2>4 DEF Cursor!Step
  <1>6. CASE \E range \in Ranges : NextRange(range)
    <2>1. PICK range \in Ranges : NextRange(range)
      BY <1>6
    <2>2. PICK x \in i..Len(lv) : /\ Matching(lv[x], range) # {} /\ NoneIn(lv, i, x - 1, range)
                                  /\ Seen(db', wal', manifest', h', c', lv, x + 1)
      BY <1>2, <2>1, RangeSeen
    <2>3. live' = lv /\ unread' = Rest(lv, x + 1)
      BY <2>2, MappedSeen
    <2>4. Cursor!NextRange(range)
      BY <1>2, <2>2, <2>3, RangeStep
    <2> QED
      BY <2>1, <2>4 DEF Cursor!Step
  <1> QED
    BY <1>3, <1>4, <1>5, <1>6 DEF Reading

\* Whatever calls are made, and in whatever order, the application reads the
\* committed batches that no expiry has taken away, each once and in commit
\* order: offsets, checkpoints, compactions and the log do not show.
THEOREM ReaderImplements ==
  Spec => ImplementsCursor
  <1>1. Init => Cursor!Init
    BY CursorInit
  <1>2. Inv /\ [Next]_vars => [Cursor!Step]_<<live, unread>>
    <2> SUFFICES ASSUME Inv, [Next]_vars PROVE [Cursor!Step]_<<live, unread>>
      OBVIOUS
    <2>1. CASE Next
      <3>1. CASE Writing /\ Mapped
        BY <3>1, WritingCursor
      <3>2. CASE Reading /\ Mapped
        BY <3>2, ReadingCursor
      <3> QED
        BY <2>1, <3>1, <3>2 DEF Next
    <2>2. CASE UNCHANGED vars
      BY <2>2 DEF vars
    <2> QED
      BY <2>1, <2>2
  <1>3. Spec => []Inv
    BY ReaderInvariant
  <1> QED
    BY <1>1, <1>2, <1>3, PTL DEF Spec, ImplementsCursor, Cursor!Spec

\* A checkpoint is invisible to the application: it moves no batch past the
\* cursor and none back behind it.
THEOREM CheckpointInvisible ==
  Spec => CheckpointKeepsPlace
  <1>1. ASSUME Inv, Checkpoint, Mapped PROVE UNCHANGED <<live, unread>>
    <2>1. PICK lv, i : Standing(lv, i)
      BY <1>1, InvStanding
    <2>2. /\ Seen(db, wal, manifest, h, c, lv, i) /\ Growing(lv) /\ i \in 1..(Len(lv) + 1)
          /\ live = lv /\ unread = Rest(lv, i)
      BY <2>1 DEF Standing
    <2>3. Seen(db', wal', manifest', h', c', lv, i)
      BY <1>1, <2>2, CheckpointSeen
    <2>4. live' = lv /\ unread' = Rest(lv, i)
      BY <1>1, <2>2, <2>3, MappedSeen
    <2> QED
      BY <2>2, <2>4
  <1>2. Inv /\ [Next]_vars => [Checkpoint => UNCHANGED <<live, unread>>]_vars
    BY <1>1 DEF Next
  <1>3. Spec => []Inv
    BY ReaderInvariant
  <1> QED
    BY <1>2, <1>3, PTL DEF Spec, CheckpointKeepsPlace

------------------------------------------------------------------------------
(* The policy of module Continuous. *)

\* The export has printed every record of batch x before the cutoff.
Printed(x) == \A k \in Matching(live[x], ExportedRange) : <<live[x].seq, k>> \in exported

\* The policy calls the library with arguments that it takes; while it exports it
\* has printed what the cursor has passed, and when it expires it has printed all.
PolicyInv ==
    /\ Inv
    /\ pc # "ready" => cut \in Cutoffs /\ (goal = "append" => request \in Inputs)
    /\ pc \in {"append", "again"} => goal = "append"
    /\ pc = "export" => \A x \in 1..(Len(live) - Len(unread)) : Printed(x)
    /\ pc = "expire" => \A x \in 1..Len(live) : Printed(x)

\* Its range is one that a query takes.
LEMMA ExportInterval ==
  ASSUME cut \in Cutoffs
  PROVE  Interval(ExportedRange)
  <1>1. cut \in Nat
    BY ReaderAssumption DEF Times
  <1> QED
    BY <1>1 DEF Interval, ExportedRange

\* A batch whose records are all before the cutoff is printed whole.
LEMMA PrintedWhole ==
  ASSUME cut \in Cutoffs, NEW x, live[x] \in FrameSet, Printed(x), \A t \in TimesOf(live[x]) : t < cut
  PROVE  \A k \in DOMAIN live[x].records : <<live[x].seq, k>> \in exported
  <1>1. SUFFICES ASSUME NEW k \in DOMAIN live[x].records PROVE k \in Matching(live[x], ExportedRange)
    BY DEF Printed
  <1>2. live[x].records[k].time \in TimesOf(live[x])
    BY <1>1 DEF TimesOf
  <1>3. live[x].records[k].time < cut
    BY <1>2
  <1>4. live[x].records[k].time \in Times
    BY <1>1, FrameFacts
  <1>5. live[x].records[k].time >= 0
    BY <1>4, LimitAssumption DEF Times
  <1> QED
    BY <1>1, <1>3, <1>5 DEF Matching, ExportedRange

\* How much the cursor has passed.
LEMMA PlacesPassed ==
  ASSUME NEW lv, NEW i, Growing(lv), i \in 1..(Len(lv) + 1)
  PROVE  Len(lv) - Len(Rest(lv, i)) = i - 1
  <1>1. lv \in Seq(FrameSet)
    BY DEF Growing
  <1>2. Len(Rest(lv, i)) = (Len(lv) - i) + 1 /\ Len(lv) \in Nat
    BY <1>1, RestFacts
  <1> DEFINE n == Len(lv)
             m == Len(Rest(lv, i))
  <1>3. n \in Nat /\ m = (n - i) + 1 /\ i \in Int
    BY <1>2
  <1> HIDE DEF n, m
  <1>4. n - m = i - 1
    BY <1>3
  <1> QED
    BY <1>4 DEF n, m

\* The export starts at the first batch, or there is none to print.
LEMMA SeekStart ==
  ASSUME Inv, ExportSeek
  PROVE  /\ Inv' /\ live' = live
         /\ IF SeekResult(0) = Done THEN Len(live) = 0 ELSE Len(live) - Len(unread') = 0
  <1>1. 0 \in Times /\ Seek(0) /\ Mapped
    BY LimitAssumption DEF ExportSeek, Times
  <1>2. Inv'
    BY <1>1, InvReading DEF Reading
  <1>3. PICK lv, i : Standing(lv, i)
    BY InvStanding
  <1>4. Seen(db, wal, manifest, h, c, lv, i) /\ Growing(lv) /\ live = lv
    BY <1>3 DEF Standing
  <1>5. PICK x : SeekPlace(lv, 0, x) /\ Seen(db', wal', manifest', h', c', lv, x)
    BY <1>1, <1>4, SeekSeen
  <1>6. live' = lv /\ unread' = Rest(lv, x) /\ x \in 1..(Len(lv) + 1)
    BY <1>1, <1>5, MappedSeen
  <1>7. lv \in Seq(FrameSet) /\ Len(lv) \in Nat
    BY <1>4 DEF Growing
  <1>8. ASSUME NEW y \in 1..Len(lv) PROVE LastTimeOf(lv[y]) >= 0
    <2>1. lv[y] \in FrameSet
      BY <1>7
    <2>2. LastTimeOf(lv[y]) \in Times
      BY <2>1, FrameFacts
    <2> QED
      BY <2>2, LimitAssumption DEF Times
  <1>9. x = 1
    <2>1. SUFFICES ASSUME x # 1 PROVE FALSE
      OBVIOUS
    <2>2. 1 \in 1..(x - 1) /\ 1 \in 1..Len(lv)
      BY <1>6, <1>7, <2>1
    <2>3. LastTimeOf(lv[1]) < 0
      BY <1>5, <2>2 DEF SeekPlace
    <2>4. lv[1] \in FrameSet
      BY <1>7, <2>2
    <2>5. LastTimeOf(lv[1]) \in Int
      BY <2>4, FrameFacts, LimitAssumption DEF Times
    <2> QED
      BY <1>8, <2>2, <2>3, <2>5
  <1>10. CASE SeekResult(0) = Done
    <2>1. PICK P : Viewed(db, wal, manifest, h, lv, P) /\ <<c, i>> \in P
      BY <1>4 DEF Seen
    <2>2. Found(SeekResult(0), HitsIn(lv, 1, Len(lv), 0), P)
      BY <1>1, <2>1, SeekFound
    <2>3. HitsIn(lv, 1, Len(lv), 0) = {}
      <3>1. SUFFICES ASSUME HitsIn(lv, 1, Len(lv), 0) # {} PROVE FALSE
        OBVIOUS
      <3>2. PICK nx : SeekResult(0) = [kind |-> "found", cur |-> nx]
        BY <2>2, <3>1 DEF Found
      <3>3. SeekResult(0).kind = "found" /\ Done.kind = "end"
        BY <3>2 DEF Done
      <3> QED
        BY <1>10, <3>3
    <2>4. \A y \in 1..Len(lv) : y \in HitsIn(lv, 1, Len(lv), 0)
      BY <1>8 DEF HitsIn
    <2>5. Len(lv) = 0
      BY <1>7, <2>3, <2>4
    <2> QED
      BY <1>2, <1>4, <1>6, <1>10, <2>5
  <1>11. Len(lv) - Len(Rest(lv, 1)) = 0
    BY <1>4, <1>6, <1>9, PlacesPassed
  <1> QED
    BY <1>2, <1>4, <1>6, <1>9, <1>10, <1>11

\* A query of the export prints the next batch with a record before the cutoff,
\* and finds none only where no batch behind the cursor has one.
LEMMA ExportStep ==
  ASSUME PolicyInv, ~BoundWraps, ExportNext
  PROVE  PolicyInv' /\ live' = live
  <1> DEFINE range == ExportedRange
             r == NextRangeFrom(c, range)
  <1>1. /\ Inv /\ pc = "export" /\ cut \in Cutoffs /\ (goal = "append" => request \in Inputs)
        /\ \A x \in 1..(Len(live) - Len(unread)) : Printed(x)
    BY DEF PolicyInv, ExportNext
  <1>2. Interval(range)
    BY <1>1, ExportInterval
  <1>3. PICK lv, i : Standing(lv, i)
    BY <1>1, InvStanding
  <1>4. /\ Seen(db, wal, manifest, h, c, lv, i) /\ Growing(lv) /\ i \in 1..(Len(lv) + 1)
        /\ live = lv /\ unread = Rest(lv, i)
    BY <1>3 DEF Standing
  <1>5. PICK P : Viewed(db, wal, manifest, h, lv, P) /\ <<c, i>> \in P
    BY <1>4 DEF Seen
  <1> DEFINE hits == MatchesIn(lv, i, range)
  <1>6. Answered(r, hits, lv, P)
    BY <1>2, <1>5, RangeFound
  <1>7. Len(lv) \in Nat /\ i \in Nat /\ Len(live) - Len(unread) = i - 1
    BY <1>4, PlacesPassed DEF Growing
  <1>8. \A x \in 1..(i - 1) : Printed(x)
    BY <1>1, <1>7
  <1>9. ASSUME NEW x \in i..Len(lv), x \notin hits PROVE Printed(x)
    <2>1. Matching(live[x], ExportedRange) = {}
      BY <1>4, <1>9 DEF MatchesIn
    <2> QED
      BY <2>1 DEF Printed
  <1>10. CASE r = Done /\ To("expire") /\ UNCHANGED <<vars, exported>>
    <2>1. hits = {}
      <3>1. SUFFICES ASSUME hits # {} PROVE FALSE
        OBVIOUS
      <3>2. PICK nx : r = [kind |-> "read", frame |-> lv[Min(hits)], cur |-> nx]
        BY <1>6, <3>1 DEF Answered
      <3>3. r.kind = "read" /\ Done.kind = "end"
        BY <3>2 DEF Done
      <3> QED
        BY <1>10, <3>3
    <2>2. ASSUME NEW x \in 1..Len(live) PROVE Printed(x)
      <3>1. x \in 1..(i - 1) \/ x \in i..Len(lv)
        BY <1>4, <1>7
      <3> QED
        BY <1>8, <1>9, <2>1, <3>1
    <2>3. Inv'
      BY <1>1, <1>10, InvStutter
    <2>4. live' = live /\ unread' = unread /\ exported' = exported /\ cut' = cut /\ pc' = "expire"
          /\ goal' = goal /\ request' = request
      BY <1>10 DEF vars, To
    <2>5. \A x : Printed(x)' <=> Printed(x)
      BY <2>4 DEF Printed, ExportedRange
    <2> QED
      BY <1>1, <2>2, <2>3, <2>4, <2>5 DEF PolicyInv
  <1>11. CASE /\ r.kind = "read" /\ NextRange(range) /\ Mapped /\ To("export")
              /\ exported' = exported \cup {<<r.frame.seq, k>> : k \in Matching(r.frame, range)}
    <2> DEFINE m == Min(hits)
    <2>1. hits # {}
      BY <1>6, <1>11 DEF Answered, Done
    <2>2. PICK nx : r = [kind |-> "read", frame |-> lv[m], cur |-> nx] /\ <<nx, m + 1>> \in P
      BY <1>6, <2>1 DEF Answered
    <2>3. hits \subseteq i..Len(lv) /\ hits \subseteq Nat /\ \A y \in hits : y >= i
      BY <1>4, <1>7 DEF MatchesIn
    <2>4. m \in hits /\ \A y \in hits : m <= y
      BY <2>1, <2>3, MinExists
    <2>5. c' = nx /\ UNCHANGED <<db, wal, manifest, h>>
      BY <1>11, <2>2 DEF NextRange
    <2>6. Seen(db', wal', manifest', h', c', lv, m + 1)
      BY <1>5, <2>2, <2>5 DEF Seen
    <2>7. live' = lv /\ unread' = Rest(lv, m + 1) /\ m + 1 \in 1..(Len(lv) + 1)
      BY <1>11, <2>6, MappedSeen
    <2>8. Len(live') - Len(unread') = m
      <3>1. Len(lv) - Len(Rest(lv, m + 1)) = (m + 1) - 1
        BY <1>4, <2>7, PlacesPassed
      <3>2. (m + 1) - 1 = m
        BY <2>3, <2>4
      <3> QED
        BY <2>7, <3>1, <3>2
    <2>9. Whole(db', wal', manifest', h', c')
      BY <1>1, <1>11, NextRangeWhole DEF Inv
    <2>10. Inv'
      BY <1>11, <2>9 DEF Inv, Mapped
    <2>11. cut' = cut /\ pc' = "export" /\ goal' = goal /\ request' = request
      BY <1>11 DEF To
    <2>12. r.frame = lv[m]
      BY <2>2
    <2> HIDE DEF m, hits, r
    <2>13. ASSUME NEW x \in 1..m PROVE Printed(x)'
      <3>1. x \in 1..(i - 1) \/ (x \in i..Len(lv) /\ x \notin hits) \/ x = m
        <4>1. m \in Nat /\ m <= Len(lv)
          BY <1>7, <2>3, <2>4
        <4>2. x \in Nat /\ x <= m /\ x >= 1
          BY <4>1
        <4>3. CASE x < i
          BY <1>7, <4>2, <4>3
        <4>4. CASE x >= i /\ x # m
          <5>1. x \in i..Len(lv) /\ x < m
            BY <1>7, <4>1, <4>2, <4>4
          <5>2. x \notin hits
            BY <2>4, <4>1, <4>2, <5>1
          <5> QED
            BY <5>1, <5>2
        <4> QED
          BY <1>7, <4>2, <4>3, <4>4
      <3>2. CASE x # m
        <4>1. Printed(x)
          BY <1>8, <1>9, <3>1, <3>2
        <4> QED
          BY <1>4, <1>11, <2>7, <2>11, <4>1 DEF Printed, ExportedRange
      <3>3. CASE x = m
        <4>1. ASSUME NEW k \in Matching(lv[m], range) PROVE <<lv[m].seq, k>> \in exported'
          BY <1>11, <2>12
        <4>2. live'[x] = lv[m] /\ ExportedRange' = range
          BY <2>7, <2>11, <3>3 DEF ExportedRange
        <4> QED
          BY <4>1, <4>2 DEF Printed
      <3> QED
        BY <3>2, <3>3
    <2> QED
      BY <1>1, <1>4, <2>7, <2>8, <2>10, <2>11, <2>13 DEF PolicyInv
  <1> QED
    BY <1>10, <1>11 DEF ExportNext

\* An expiry takes away printed batches only.
LEMMA ExpirePrinted ==
  ASSUME PolicyInv, PolicyExpire
  PROVE  /\ PolicyInv'
         /\ \A i \in DOMAIN live : (\A j \in DOMAIN live' : live'[j] # live[i]) =>
                \A k \in DOMAIN live[i].records : <<live[i].seq, k>> \in exported
  <1>1. /\ Inv /\ pc = "expire" /\ cut \in Cutoffs /\ (goal = "append" => request \in Inputs)
        /\ \A x \in 1..Len(live) : Printed(x)
    BY DEF PolicyInv, PolicyExpire
  <1>2. /\ pc' = "ready" \/ (pc' = "recheck" /\ cut' = cut /\ goal' = goal /\ request' = request)
    BY DEF PolicyExpire, Returned, To
  <1>3. CASE UNCHANGED vars
    <2>1. Inv'
      BY <1>1, <1>3, InvStutter
    <2>2. live' = live
      BY <1>3 DEF vars
    <2> QED
      BY <1>1, <1>2, <2>1, <2>2 DEF PolicyInv
  <1>4. CASE ExpireBefore(cut) /\ Mapped
    <2>1. Inv'
      BY <1>1, <1>4, InvWriting DEF Writing
    <2>2. PICK lv, i : Standing(lv, i)
      BY <1>1, InvStanding
    <2>3. Seen(db, wal, manifest, h, c, lv, i) /\ Growing(lv) /\ live = lv
      BY <2>2 DEF Standing
    <2>4. cut \in Nat
      BY <1>1, ReaderAssumption DEF Times
    <2>5. PICK nl : /\ Thinned(lv, nl, cut)
                    /\ Seen(db', wal', manifest', h', c', nl, WantedPlace(nl, c.readSequence))
      BY <1>4, <2>3, <2>4, ExpireSeen
    <2>6. live' = nl /\ Growing(nl)
      BY <1>4, <2>5, MappedSeen
    <2>7. DOMAIN live = 1..Len(live) /\ DOMAIN live' = 1..Len(nl) /\ live \in Seq(FrameSet)
      BY <2>3, <2>6 DEF Growing
    <2>8. ASSUME NEW x \in DOMAIN live, \A j \in DOMAIN live' : live'[j] # live[x]
          PROVE  \A k \in DOMAIN live[x].records : <<live[x].seq, k>> \in exported
      <3>1. \A t \in TimesOf(live[x]) : t < cut
        BY <2>3, <2>5, <2>6, <2>7, <2>8 DEF Thinned
      <3>2. Printed(x) /\ live[x] \in FrameSet
        BY <1>1, <2>7
      <3> QED
        BY <1>1, <3>1, <3>2, PrintedWhole
    <2> QED
      BY <1>1, <1>2, <2>1, <2>8 DEF PolicyInv
  <1> QED
    BY <1>3, <1>4 DEF PolicyExpire

\* The calls of the policy and of the application that expire nothing keep every batch.
LEMMA QuietStep ==
  ASSUME PolicyInv, PolicyAppend \/ PolicyCheckpoint \/ Application
  PROVE  PolicyInv' /\ \A i \in DOMAIN live : \E j \in DOMAIN live' : live'[j] = live[i]
  <1>1. Inv
    BY DEF PolicyInv
  <1>2. PICK lv, i : Standing(lv, i)
    BY <1>1, InvStanding
  <1>3. Seen(db, wal, manifest, h, c, lv, i) /\ Growing(lv) /\ live = lv
    BY <1>2 DEF Standing
  <1>4. CASE PolicyAppend
    <2>1. goal = "append" /\ cut \in Cutoffs /\ request \in Inputs
      BY <1>4 DEF PolicyAppend, PolicyInv
    <2>2. pc' = "ready" \/ (pc' = "checkpoint" /\ cut' = cut /\ goal' = goal /\ request' = request)
      BY <1>4 DEF PolicyAppend, Returned, To
    <2>3. CASE UNCHANGED vars
      <3>1. Inv' /\ live' = live
        BY <1>1, <2>3, InvStutter DEF vars
      <3> QED
        BY <2>1, <2>2, <3>1 DEF PolicyInv
    <2>4. CASE AppendBatch(request) /\ Mapped
      <3>1. Inv'
        BY <1>1, <2>1, <2>4, InvWriting DEF Writing
      <3>2. PICK f \in FrameSet : Seen(db', wal', manifest', h', c', Append(lv, f), i)
        BY <1>3, <2>1, <2>4, AppendSeen
      <3>3. live' = Append(live, f)
        BY <1>3, <2>4, <3>2, MappedSeen
      <3>4. \A x \in DOMAIN live : x \in DOMAIN live' /\ live'[x] = live[x]
        BY <1>3, <3>3 DEF Growing
      <3> QED
        BY <2>1, <2>2, <3>1, <3>4 DEF PolicyInv
    <2> QED
      BY <1>4, <2>3, <2>4 DEF PolicyAppend
  <1>5. CASE PolicyCheckpoint
    <2>1. cut \in Cutoffs /\ (goal = "append" => request \in Inputs)
      BY <1>5 DEF PolicyCheckpoint, PolicyInv
    <2>2. \/ pc' = "ready"
          \/ pc' \in {"again", "seek"} /\ (pc' = "again" => goal = "append") /\ cut' = cut /\ goal' = goal /\ request' = request
      BY <1>5 DEF PolicyCheckpoint, Installed, Returned, To
    <2>3. Inv' /\ live' = live
      <3>1. CASE UNCHANGED vars
        BY <1>1, <3>1, InvStutter DEF vars
      <3>2. CASE Checkpoint /\ Mapped
        <4>1. Inv'
          BY <1>1, <3>2, InvWriting DEF Writing
        <4>2. Seen(db', wal', manifest', h', c', lv, i)
          BY <1>3, <3>2, CheckpointSeen
        <4> QED
          BY <1>3, <3>2, <4>1, <4>2, MappedSeen
      <3> QED
        BY <1>5, <3>1, <3>2 DEF PolicyCheckpoint
    <2> QED
      BY <2>1, <2>2, <2>3 DEF PolicyInv
  <1>6. CASE Application
    <2>1. pc' = "ready" /\ Mapped
      BY <1>6 DEF Application, policy
    <2>2. Inv'
      BY <1>1, <1>6, InvWriting, InvReading DEF Application, Writing, Reading
    <2>3. CASE NextBatch
      <3>1. Seen(db', wal', manifest', h', c', lv, i + 1)
        BY <1>3, <2>3, NextSeen
      <3>2. live' = lv
        BY <2>1, <3>1, MappedSeen
      <3> QED
        BY <1>3, <2>1, <2>2, <3>2 DEF PolicyInv
    <2>4. CASE Rewind
      <3>1. Seen(db', wal', manifest', h', c', lv, 1)
        BY <1>3, <2>4, RewindSeen
      <3>2. live' = lv
        BY <2>1, <3>1, MappedSeen
      <3> QED
        BY <1>3, <2>1, <2>2, <3>2 DEF PolicyInv
    <2>5. CASE Reopen
      <3>1. Seen(db', wal', manifest', h', c', lv, 1)
        BY <1>3, <2>5, ReopenSeen
      <3>2. live' = lv
        BY <2>1, <3>1, MappedSeen
      <3> QED
        BY <1>3, <2>1, <2>2, <3>2 DEF PolicyInv
    <2> QED
      BY <1>6, <2>3, <2>4, <2>5 DEF Application
  <1> QED
    BY <1>4, <1>5, <1>6

\* A call of a policy function checks nothing yet.
LEMMA CallStep ==
  ASSUME PolicyInv, NEW g \in {"append", "checkpoint", "expire"}, NEW records, NEW t \in Cutoffs,
         g = "append" => records \in Inputs, CallPolicy(g, records, t)
  PROVE  PolicyInv' /\ live' = live
  <1>1. Inv
    BY DEF PolicyInv
  <1>2. UNCHANGED vars /\ goal' = g /\ request' = records /\ cut' = t
    BY DEF CallPolicy
  <1>3. Inv' /\ live' = live
    BY <1>1, <1>2, InvStutter DEF vars
  <1>4. pc' \in {"append", "checkpoint", "seek"} /\ (pc' = "append" => g = "append")
    BY DEF CallPolicy
  <1> QED
    BY <1>2, <1>3, <1>4 DEF PolicyInv

\* Where nothing changes, nothing does.
LEMMA PolicyStutter ==
  ASSUME PolicyInv, UNCHANGED allvars
  PROVE  PolicyInv'
  <1>1. Inv
    BY DEF PolicyInv
  <1>2. UNCHANGED vars /\ pc' = pc /\ goal' = goal /\ request' = request /\ cut' = cut /\ exported' = exported
    BY DEF allvars, policy
  <1>3. Inv'
    BY <1>1, <1>2, InvStutter
  <1>4. live' = live /\ unread' = unread
    BY <1>2 DEF vars
  <1>5. \A x : Printed(x)' <=> Printed(x)
    BY <1>2, <1>4 DEF Printed, ExportedRange
  <1> QED
    BY <1>2, <1>3, <1>4, <1>5 DEF PolicyInv

\* The seek of the export.
LEMMA ExportSeekStep ==
  ASSUME PolicyInv, ExportSeek
  PROVE  PolicyInv' /\ live' = live
  <1>1. Inv /\ cut \in Cutoffs /\ (goal = "append" => request \in Inputs)
    BY DEF PolicyInv, ExportSeek
  <1>2. /\ Inv' /\ live' = live
        /\ IF SeekResult(0) = Done THEN Len(live) = 0 ELSE Len(live) - Len(unread') = 0
    BY <1>1, SeekStart
  <1>3. /\ pc' = IF SeekResult(0) = Done THEN "expire" ELSE "export"
        /\ goal' = goal /\ request' = request /\ cut' = cut
    BY DEF ExportSeek, To
  <1>4. CASE SeekResult(0) = Done
    <2>1. Len(live') = 0
      BY <1>2, <1>4
    <2>2. 1..Len(live') = {}
      BY <2>1
    <2>3. \A x \in 1..Len(live') : Printed(x)'
      BY <2>2
    <2> QED
      BY <1>1, <1>2, <1>3, <1>4, <2>3 DEF PolicyInv
  <1>5. CASE SeekResult(0) # Done
    <2>1. Len(live') - Len(unread') = 0
      BY <1>2, <1>5
    <2>2. 1..(Len(live') - Len(unread')) = {}
      BY <2>1
    <2>3. \A x \in 1..(Len(live') - Len(unread')) : Printed(x)'
      BY <2>2
    <2> QED
      BY <1>1, <1>2, <1>3, <1>5, <2>3 DEF PolicyInv
  <1> QED
    BY <1>4, <1>5

\* What an expiry removes was exported.
Removed == \A i \in DOMAIN live :
               (\A j \in DOMAIN live' : live'[j] # live[i]) =>
                   \A k \in DOMAIN live[i].records : <<live[i].seq, k>> \in exported

\* Every step of the policy, where the bound of the ordered part has not wrapped.
LEMMA PolicyStep ==
  PolicyInv /\ ~BoundWraps /\ [PolicyNext]_allvars => PolicyInv' /\ Removed
  <1> SUFFICES ASSUME PolicyInv, ~BoundWraps, [PolicyNext]_allvars PROVE PolicyInv' /\ Removed
    OBVIOUS
  <1>1. ASSUME live' = live PROVE Removed
    BY <1>1 DEF Removed
  <1>2. CASE \E records \in Inputs, t \in Cutoffs : CallPolicy("append", records, t)
    BY <1>1, <1>2, CallStep
  <1>3. CASE \E g \in {"checkpoint", "expire"}, t \in Cutoffs : CallPolicy(g, <<>>, t)
    <2>1. PICK g \in {"checkpoint", "expire"}, t \in Cutoffs : CallPolicy(g, <<>>, t)
      BY <1>3
    <2>2. PolicyInv' /\ live' = live
      BY <2>1, CallStep
    <2> QED
      BY <1>1, <2>2
  <1>4. CASE PolicyAppend \/ PolicyCheckpoint \/ Application
    BY <1>4, QuietStep DEF Removed
  <1>5. CASE ExportSeek
    BY <1>1, <1>5, ExportSeekStep
  <1>6. CASE ExportNext
    BY <1>1, <1>6, ExportStep
  <1>7. CASE PolicyExpire
    BY <1>7, ExpirePrinted DEF Removed
  <1>8. CASE UNCHANGED allvars
    <2>1. live' = live
      BY <1>8 DEF allvars, vars
    <2> QED
      BY <1>1, <1>8, <2>1, PolicyStutter
  <1> QED
    BY <1>2, <1>3, <1>4, <1>5, <1>6, <1>7, <1>8 DEF PolicyNext

\* The policy of examples/continuous.c deletes no record that it has not exported
\* first, whatever the database holds and wherever the cursor was: next_range
\* reaches every record of the segments that expire_before then finds old enough.
\* As for every query, the sequence after the last installed one must exist.
THEOREM PolicyExports ==
  PolicySpec /\ []~BoundWraps => ExportedBeforeDeleted
  <1>1. PolicyInit => PolicyInv
    BY InvInit DEF PolicyInit, PolicyInv
  <1>2. PolicyInv /\ ~BoundWraps /\ [PolicyNext]_allvars => PolicyInv' /\ [Removed]_allvars
    BY PolicyStep
  <1>3. ExportedBeforeDeleted <=> [][Removed]_allvars
    BY DEF ExportedBeforeDeleted, Removed
  <1> QED
    BY <1>1, <1>2, <1>3, PTL DEF PolicySpec
==============================================================================
