--------------------------- MODULE ReaderFilesProofs -------------------------
(***************************************************************************)
(* What the loops of the readers compute on whole files, for every value   *)
(* of the constants of BatchReader.  The files hold segments and frames    *)
(* one behind the other (Stored), and the cursor stands before one of      *)
(* their batches or at the end (At); every loop of the code has a closed   *)
(* form there.  The calls that leave the segments alone (open, append, the *)
(* reading calls and seek) keep the files and the cursor so, and a pair    *)
(* that a release before time order has left is so at the first open.      *)
(***************************************************************************)
EXTENDS BatchReader, FiniteSetTheorems, NaturalsInduction, WellFoundedInduction, TLAPS

\* Every non-empty set of natural numbers has a least element.
LEMMA LeastNat ==
  ASSUME NEW T, T \subseteq Nat, T # {}
  PROVE  \E x \in T : \A y \in T : x <= y
  <1>1. PICK x \in T : \A y \in T : ~ (<<y, x>> \in OpToRel(<, Nat))
    BY NatLessThanWellFounded, WFMin, Zenon
  <1>2. \A y \in T : ~ (y < x)
    BY <1>1 DEF OpToRel
  <1> QED
    BY <1>2

\* A set that holds 0 and the successor of each of its members below n holds
\* every number up to n.
LEMMA UpTo ==
  ASSUME NEW n \in Nat, NEW T, 0 \in T, \A k \in 0..(n - 1) : k \in T => k + 1 \in T
  PROVE  \A k \in 0..n : k \in T
  <1> DEFINE U == {k \in 0..n : k \notin T}
  <1>1. SUFFICES ASSUME U # {} PROVE FALSE
    OBVIOUS
  <1>2. U \subseteq Nat
    OBVIOUS
  <1>3. PICK x \in U : \A y \in U : x <= y
    BY <1>1, <1>2, LeastNat
  <1>4. x # 0 /\ x - 1 \in 0..(n - 1) /\ x - 1 \notin U
    BY <1>3
  <1>5. x - 1 \in T
    BY <1>4
  <1> QED
    BY <1>3, <1>4, <1>5

------------------------------------------------------------------------------
(* The loops of the code are recursive functions of the number of turns; each *)
(* of them exists, so that it satisfies its own definition.                   *)

\* A turn of the loop over the frames of a part of a file.
FrameStep(file, end, first, w) ==
    LET f == ReadFrame(file, w.at, end, first + Len(w.frames))
    IN  IF f = Bad THEN w
        ELSE [at |-> w.at + FrameSize(f), frames |-> Append(w.frames, f)]

\* The loop over frames.
FrameLoop(file, o, end, first, N, f) == f = [k \in 0..N |-> IF k = 0 THEN [at |-> o, frames |-> <<>>] ELSE FrameStep(file, end, first, f[k - 1])]

\* There is a function that turns as this loop does.
LEMMA FrameExists ==
  ASSUME NEW file, NEW o, NEW end, NEW first, NEW N \in Nat
  PROVE  \E f : FrameLoop(file, o, end, first, N, f)
  <1> DEFINE T == {i \in Nat : \E f : FrameLoop(file, o, end, first, i, f)}
  <1>1. 0 \in T
    <2>1. FrameLoop(file, o, end, first, 0, [k \in 0..0 |-> [at |-> o, frames |-> <<>>]])
      BY DEF FrameLoop
    <2> QED
      BY <2>1
  <1>2. ASSUME NEW i \in 0..(N - 1), i \in T PROVE i + 1 \in T
    <2>1. PICK f : FrameLoop(file, o, end, first, i, f)
      BY <1>2
    <2> DEFINE g == [k \in 0..(i + 1) |-> IF k = i + 1 THEN FrameStep(file, end, first, f[i]) ELSE f[k]]
    <2>2. ASSUME NEW k \in 0..(i + 1) PROVE g[k] = IF k = 0 THEN [at |-> o, frames |-> <<>>] ELSE FrameStep(file, end, first, g[k - 1])
      <3>1. CASE k = i + 1
        <4>1. k - 1 \in 0..(i + 1) /\ k - 1 # i + 1 /\ k - 1 = i /\ k # 0
          BY <3>1
        <4> QED
          BY <3>1, <4>1
      <3>2. CASE k # i + 1 /\ k = 0
        BY <2>1, <3>2 DEF FrameLoop
      <3>3. CASE k # i + 1 /\ k # 0
        <4>1. k \in 0..i /\ k - 1 \in 0..(i + 1) /\ k - 1 # i + 1
          BY <3>3
        <4>2. g[k] = f[k] /\ g[k - 1] = f[k - 1]
          BY <3>3, <4>1
        <4>3. f[k] = FrameStep(file, end, first, f[k - 1])
          BY <2>1, <3>3, <4>1 DEF FrameLoop
        <4> QED
          BY <3>3, <4>2, <4>3
      <3> QED
        BY <3>1, <3>2, <3>3
    <2>3. FrameLoop(file, o, end, first, i + 1, g)
      BY <2>2 DEF FrameLoop
    <2>4. i + 1 \in Nat
      OBVIOUS
    <2> QED
      BY <2>3, <2>4
  <1>3. N \in T
    <2> HIDE DEF T
    <2> QED
      BY <1>1, <1>2, UpTo
  <1> QED
    BY <1>3

\* The code's loop is that function.
LEMMA FrameTurns ==
  ASSUME NEW file, NEW o, NEW end, NEW first, o \in Int, end \in Int, o <= end
  PROVE  LET f == FrameWalk(file, o, end, first)
         IN  /\ f[0] = [at |-> o, frames |-> <<>>]
             /\ \A k \in 0..((end - o) - 1) : f[k + 1] = FrameStep(file, end, first, f[k])
  <1>1. (end - o) \in Nat
    OBVIOUS
  <1>2. PICK f : FrameLoop(file, o, end, first, (end - o), f)
    BY <1>1, FrameExists
  <1>3. FrameLoop(file, o, end, first, (end - o), FrameWalk(file, o, end, first))
    BY <1>2 DEF FrameLoop, FrameWalk, FrameStep
  <1> DEFINE F == FrameWalk(file, o, end, first)
             M == (end - o)
  <1>4. M \in Nat /\ FrameLoop(file, o, end, first, M, F)
    BY <1>1, <1>3
  <1> HIDE DEF F, M
  <1>5. F[0] = [at |-> o, frames |-> <<>>]
    BY <1>4 DEF FrameLoop
  <1>6. ASSUME NEW k \in 0..(M - 1) PROVE F[k + 1] = FrameStep(file, end, first, F[k])
    <2>1. k + 1 \in 0..M /\ k + 1 # 0 /\ (k + 1) - 1 = k
      BY <1>4
    <2> QED
      BY <1>4, <2>1 DEF FrameLoop
  <1> QED
    BY <1>5, <1>6 DEF F, M

\* The walk from segment to segment.
PassedLoop(d, root, n, N, f) == f = [k \in 0..N |-> IF k = 0 THEN root ELSE After(f[k - 1], d[f[k - 1]])]

\* There is a function that turns as this loop does.
LEMMA PassedExists ==
  ASSUME NEW d, NEW root, NEW n, NEW N \in Nat
  PROVE  \E f : PassedLoop(d, root, n, N, f)
  <1> DEFINE T == {i \in Nat : \E f : PassedLoop(d, root, n, i, f)}
  <1>1. 0 \in T
    <2>1. PassedLoop(d, root, n, 0, [k \in 0..0 |-> root])
      BY DEF PassedLoop
    <2> QED
      BY <2>1
  <1>2. ASSUME NEW i \in 0..(N - 1), i \in T PROVE i + 1 \in T
    <2>1. PICK f : PassedLoop(d, root, n, i, f)
      BY <1>2
    <2> DEFINE g == [k \in 0..(i + 1) |-> IF k = i + 1 THEN After(f[i], d[f[i]]) ELSE f[k]]
    <2>2. ASSUME NEW k \in 0..(i + 1) PROVE g[k] = IF k = 0 THEN root ELSE After(g[k - 1], d[g[k - 1]])
      <3>1. CASE k = i + 1
        <4>1. k - 1 \in 0..(i + 1) /\ k - 1 # i + 1 /\ k - 1 = i /\ k # 0
          BY <3>1
        <4> QED
          BY <3>1, <4>1
      <3>2. CASE k # i + 1 /\ k = 0
        BY <2>1, <3>2 DEF PassedLoop
      <3>3. CASE k # i + 1 /\ k # 0
        <4>1. k \in 0..i /\ k - 1 \in 0..(i + 1) /\ k - 1 # i + 1
          BY <3>3
        <4>2. g[k] = f[k] /\ g[k - 1] = f[k - 1]
          BY <3>3, <4>1
        <4>3. f[k] = After(f[k - 1], d[f[k - 1]])
          BY <2>1, <3>3, <4>1 DEF PassedLoop
        <4> QED
          BY <3>3, <4>2, <4>3
      <3> QED
        BY <3>1, <3>2, <3>3
    <2>3. PassedLoop(d, root, n, i + 1, g)
      BY <2>2 DEF PassedLoop
    <2>4. i + 1 \in Nat
      OBVIOUS
    <2> QED
      BY <2>3, <2>4
  <1>3. N \in T
    <2> HIDE DEF T
    <2> QED
      BY <1>1, <1>2, UpTo
  <1> QED
    BY <1>3

\* The code's loop is that function.
LEMMA PassedTurns ==
  ASSUME NEW d, NEW root, NEW n, n \in Nat
  PROVE  LET f == Passed(d, root, n)
         IN  /\ f[0] = root
             /\ \A k \in 0..(n - 1) : f[k + 1] = After(f[k], d[f[k]])
  <1>1. n \in Nat
    OBVIOUS
  <1>2. PICK f : PassedLoop(d, root, n, n, f)
    BY <1>1, PassedExists
  <1>3. PassedLoop(d, root, n, n, Passed(d, root, n))
    BY <1>2 DEF PassedLoop, Passed
  <1> DEFINE F == Passed(d, root, n)
             M == n
  <1>4. M \in Nat /\ PassedLoop(d, root, n, M, F)
    BY <1>1, <1>3
  <1> HIDE DEF F, M
  <1>5. F[0] = root
    BY <1>4 DEF PassedLoop
  <1>6. ASSUME NEW k \in 0..(M - 1) PROVE F[k + 1] = After(F[k], d[F[k]])
    <2>1. k + 1 \in 0..M /\ k + 1 # 0 /\ (k + 1) - 1 = k
      BY <1>4
    <2> QED
      BY <1>4, <2>1 DEF PassedLoop
  <1> QED
    BY <1>5, <1>6 DEF F, M

\* The powers of two.
PowerLoop(N, f) == f = [k \in 0..N |-> IF k = 0 THEN 1 ELSE 2 * f[k - 1]]

\* There is a function that turns as this loop does.
LEMMA PowerExists ==
  ASSUME NEW N \in Nat
  PROVE  \E f : PowerLoop(N, f)
  <1> DEFINE T == {i \in Nat : \E f : PowerLoop(i, f)}
  <1>1. 0 \in T
    <2>1. PowerLoop(0, [k \in 0..0 |-> 1])
      BY DEF PowerLoop
    <2> QED
      BY <2>1
  <1>2. ASSUME NEW i \in 0..(N - 1), i \in T PROVE i + 1 \in T
    <2>1. PICK f : PowerLoop(i, f)
      BY <1>2
    <2> DEFINE g == [k \in 0..(i + 1) |-> IF k = i + 1 THEN 2 * f[i] ELSE f[k]]
    <2>2. ASSUME NEW k \in 0..(i + 1) PROVE g[k] = IF k = 0 THEN 1 ELSE 2 * g[k - 1]
      <3>1. CASE k = i + 1
        <4>1. k - 1 \in 0..(i + 1) /\ k - 1 # i + 1 /\ k - 1 = i /\ k # 0
          BY <3>1
        <4> QED
          BY <3>1, <4>1
      <3>2. CASE k # i + 1 /\ k = 0
        BY <2>1, <3>2 DEF PowerLoop
      <3>3. CASE k # i + 1 /\ k # 0
        <4>1. k \in 0..i /\ k - 1 \in 0..(i + 1) /\ k - 1 # i + 1
          BY <3>3
        <4>2. g[k] = f[k] /\ g[k - 1] = f[k - 1]
          BY <3>3, <4>1
        <4>3. f[k] = 2 * f[k - 1]
          BY <2>1, <3>3, <4>1 DEF PowerLoop
        <4> QED
          BY <3>3, <4>2, <4>3
      <3> QED
        BY <3>1, <3>2, <3>3
    <2>3. PowerLoop(i + 1, g)
      BY <2>2 DEF PowerLoop
    <2>4. i + 1 \in Nat
      OBVIOUS
    <2> QED
      BY <2>3, <2>4
  <1>3. N \in T
    <2> HIDE DEF T
    <2> QED
      BY <1>1, <1>2, UpTo
  <1> QED
    BY <1>3

\* The code's loop is that function.
LEMMA PowerTurns ==
  ASSUME TRUE
  PROVE  LET f == Power
         IN  /\ f[0] = 1
             /\ \A k \in 0..(24 - 1) : f[k + 1] = 2 * f[k]
  <1>1. 24 \in Nat
    OBVIOUS
  <1>2. PICK f : PowerLoop(24, f)
    BY <1>1, PowerExists
  <1>3. PowerLoop(24, Power)
    BY <1>2 DEF PowerLoop, Power
  <1> DEFINE F == Power
             M == 24
  <1>4. M \in Nat /\ PowerLoop(M, F)
    BY <1>1, <1>3
  <1> HIDE DEF F, M
  <1>5. F[0] = 1
    BY <1>4 DEF PowerLoop
  <1>6. ASSUME NEW k \in 0..(M - 1) PROVE F[k + 1] = 2 * F[k]
    <2>1. k + 1 \in 0..M /\ k + 1 # 0 /\ (k + 1) - 1 = k
      BY <1>4
    <2> QED
      BY <1>4, <2>1 DEF PowerLoop
  <1> QED
    BY <1>5, <1>6 DEF F, M

\* The search of segment_at.
HopLoop(d, end, n, current, target, N, f) == f = [k \in 0..N |-> IF k = 0 THEN [n |-> n, offset |-> current] ELSE Hop(d, end, f[k - 1], target)]

\* There is a function that turns as this loop does.
LEMMA HopExists ==
  ASSUME NEW d, NEW end, NEW n, NEW current, NEW target, NEW N \in Nat
  PROVE  \E f : HopLoop(d, end, n, current, target, N, f)
  <1> DEFINE T == {i \in Nat : \E f : HopLoop(d, end, n, current, target, i, f)}
  <1>1. 0 \in T
    <2>1. HopLoop(d, end, n, current, target, 0, [k \in 0..0 |-> [n |-> n, offset |-> current]])
      BY DEF HopLoop
    <2> QED
      BY <2>1
  <1>2. ASSUME NEW i \in 0..(N - 1), i \in T PROVE i + 1 \in T
    <2>1. PICK f : HopLoop(d, end, n, current, target, i, f)
      BY <1>2
    <2> DEFINE g == [k \in 0..(i + 1) |-> IF k = i + 1 THEN Hop(d, end, f[i], target) ELSE f[k]]
    <2>2. ASSUME NEW k \in 0..(i + 1) PROVE g[k] = IF k = 0 THEN [n |-> n, offset |-> current] ELSE Hop(d, end, g[k - 1], target)
      <3>1. CASE k = i + 1
        <4>1. k - 1 \in 0..(i + 1) /\ k - 1 # i + 1 /\ k - 1 = i /\ k # 0
          BY <3>1
        <4> QED
          BY <3>1, <4>1
      <3>2. CASE k # i + 1 /\ k = 0
        BY <2>1, <3>2 DEF HopLoop
      <3>3. CASE k # i + 1 /\ k # 0
        <4>1. k \in 0..i /\ k - 1 \in 0..(i + 1) /\ k - 1 # i + 1
          BY <3>3
        <4>2. g[k] = f[k] /\ g[k - 1] = f[k - 1]
          BY <3>3, <4>1
        <4>3. f[k] = Hop(d, end, f[k - 1], target)
          BY <2>1, <3>3, <4>1 DEF HopLoop
        <4> QED
          BY <3>3, <4>2, <4>3
      <3> QED
        BY <3>1, <3>2, <3>3
    <2>3. HopLoop(d, end, n, current, target, i + 1, g)
      BY <2>2 DEF HopLoop
    <2>4. i + 1 \in Nat
      OBVIOUS
    <2> QED
      BY <2>3, <2>4
  <1>3. N \in T
    <2> HIDE DEF T
    <2> QED
      BY <1>1, <1>2, UpTo
  <1> QED
    BY <1>3

\* The code's loop is that function.
LEMMA HopTurns ==
  ASSUME NEW d, NEW end, NEW n, NEW current, NEW target, n \in Nat
  PROVE  LET f == Hops(d, end, n, current, target)
         IN  /\ f[0] = [n |-> n, offset |-> current]
             /\ \A k \in 0..(n - 1) : f[k + 1] = Hop(d, end, f[k], target)
  <1>1. n \in Nat
    OBVIOUS
  <1>2. PICK f : HopLoop(d, end, n, current, target, n, f)
    BY <1>1, HopExists
  <1>3. HopLoop(d, end, n, current, target, n, Hops(d, end, n, current, target))
    BY <1>2 DEF HopLoop, Hops
  <1> DEFINE F == Hops(d, end, n, current, target)
             M == n
  <1>4. M \in Nat /\ HopLoop(d, end, n, current, target, M, F)
    BY <1>1, <1>3
  <1> HIDE DEF F, M
  <1>5. F[0] = [n |-> n, offset |-> current]
    BY <1>4 DEF HopLoop
  <1>6. ASSUME NEW k \in 0..(M - 1) PROVE F[k + 1] = Hop(d, end, F[k], target)
    <2>1. k + 1 \in 0..M /\ k + 1 # 0 /\ (k + 1) - 1 = k
      BY <1>4
    <2> QED
      BY <1>4, <2>1 DEF HopLoop
  <1> QED
    BY <1>5, <1>6 DEF F, M

\* What check_segments starts from.
CheckStart == [ok |-> TRUE, n |-> 0, seq |-> 0, previous |-> 0, at |-> DataStart,
               table |-> NoOffsets, span |-> 1, priorMax |-> 0]

\* The loop of check_segments.
CheckLoop(d, m, N, f) == f = [k \in 0..N |-> IF k = 0 THEN CheckStart ELSE CheckSegment(d, m, f[k - 1])]

\* There is a function that turns as this loop does.
LEMMA CheckExists ==
  ASSUME NEW d, NEW m, NEW N \in Nat
  PROVE  \E f : CheckLoop(d, m, N, f)
  <1> DEFINE T == {i \in Nat : \E f : CheckLoop(d, m, i, f)}
  <1>1. 0 \in T
    <2>1. CheckLoop(d, m, 0, [k \in 0..0 |-> CheckStart])
      BY DEF CheckLoop
    <2> QED
      BY <2>1
  <1>2. ASSUME NEW i \in 0..(N - 1), i \in T PROVE i + 1 \in T
    <2>1. PICK f : CheckLoop(d, m, i, f)
      BY <1>2
    <2> DEFINE g == [k \in 0..(i + 1) |-> IF k = i + 1 THEN CheckSegment(d, m, f[i]) ELSE f[k]]
    <2>2. ASSUME NEW k \in 0..(i + 1) PROVE g[k] = IF k = 0 THEN CheckStart ELSE CheckSegment(d, m, g[k - 1])
      <3>1. CASE k = i + 1
        <4>1. k - 1 \in 0..(i + 1) /\ k - 1 # i + 1 /\ k - 1 = i /\ k # 0
          BY <3>1
        <4> QED
          BY <3>1, <4>1
      <3>2. CASE k # i + 1 /\ k = 0
        BY <2>1, <3>2 DEF CheckLoop
      <3>3. CASE k # i + 1 /\ k # 0
        <4>1. k \in 0..i /\ k - 1 \in 0..(i + 1) /\ k - 1 # i + 1
          BY <3>3
        <4>2. g[k] = f[k] /\ g[k - 1] = f[k - 1]
          BY <3>3, <4>1
        <4>3. f[k] = CheckSegment(d, m, f[k - 1])
          BY <2>1, <3>3, <4>1 DEF CheckLoop
        <4> QED
          BY <3>3, <4>2, <4>3
      <3> QED
        BY <3>1, <3>2, <3>3
    <2>3. CheckLoop(d, m, i + 1, g)
      BY <2>2 DEF CheckLoop
    <2>4. i + 1 \in Nat
      OBVIOUS
    <2> QED
      BY <2>3, <2>4
  <1>3. N \in T
    <2> HIDE DEF T
    <2> QED
      BY <1>1, <1>2, UpTo
  <1> QED
    BY <1>3

\* The code's loop is that function.
LEMMA CheckTurns ==
  ASSUME NEW d, NEW m, m.count \in Nat
  PROVE  LET f == CheckWalk(d, m)
         IN  /\ f[0] = CheckStart
             /\ \A k \in 0..(m.count - 1) : f[k + 1] = CheckSegment(d, m, f[k])
  <1>1. m.count \in Nat
    OBVIOUS
  <1>2. PICK f : CheckLoop(d, m, m.count, f)
    BY <1>1, CheckExists
  <1>3. CheckLoop(d, m, m.count, CheckWalk(d, m))
    BY <1>2 DEF CheckLoop, CheckWalk, CheckStart
  <1> DEFINE F == CheckWalk(d, m)
             M == m.count
  <1>4. M \in Nat /\ CheckLoop(d, m, M, F)
    BY <1>1, <1>3
  <1> HIDE DEF F, M
  <1>5. F[0] = CheckStart
    BY <1>4 DEF CheckLoop
  <1>6. ASSUME NEW k \in 0..(M - 1) PROVE F[k + 1] = CheckSegment(d, m, F[k])
    <2>1. k + 1 \in 0..M /\ k + 1 # 0 /\ (k + 1) - 1 = k
      BY <1>4
    <2> QED
      BY <1>4, <2>1 DEF CheckLoop
  <1> QED
    BY <1>5, <1>6 DEF F, M

\* What copy_segments starts from, and a turn of it.
CopyStart(d, destination) ==
    [n |-> 0, previous |-> 0, table |-> NoOffsets, at |-> destination, file |-> d]
CopyStep(d, start, cutoff, k, acc) ==
    IF SegmentExpires(d, start[k], cutoff) THEN acc ELSE CopySegment(d, acc, start[k])

\* The loop of copy_segments.
CopyLoop(d, root, n, cutoff, destination, N, f) == f = [k \in 0..N |-> IF k = 0 THEN CopyStart(d, destination) ELSE CopyStep(d, SegmentStarts(d, root, n), cutoff, k, f[k - 1])]

\* There is a function that turns as this loop does.
LEMMA CopyExists ==
  ASSUME NEW d, NEW root, NEW n, NEW cutoff, NEW destination, NEW N \in Nat
  PROVE  \E f : CopyLoop(d, root, n, cutoff, destination, N, f)
  <1> DEFINE T == {i \in Nat : \E f : CopyLoop(d, root, n, cutoff, destination, i, f)}
  <1>1. 0 \in T
    <2>1. CopyLoop(d, root, n, cutoff, destination, 0, [k \in 0..0 |-> CopyStart(d, destination)])
      BY DEF CopyLoop
    <2> QED
      BY <2>1
  <1>2. ASSUME NEW i \in 0..(N - 1), i \in T PROVE i + 1 \in T
    <2>1. PICK f : CopyLoop(d, root, n, cutoff, destination, i, f)
      BY <1>2
    <2> DEFINE g == [k \in 0..(i + 1) |-> IF k = i + 1 THEN CopyStep(d, SegmentStarts(d, root, n), cutoff, (i + 1), f[i]) ELSE f[k]]
    <2>2. ASSUME NEW k \in 0..(i + 1) PROVE g[k] = IF k = 0 THEN CopyStart(d, destination) ELSE CopyStep(d, SegmentStarts(d, root, n), cutoff, k, g[k - 1])
      <3>1. CASE k = i + 1
        <4>1. k - 1 \in 0..(i + 1) /\ k - 1 # i + 1 /\ k - 1 = i /\ k # 0
          BY <3>1
        <4> QED
          BY <3>1, <4>1
      <3>2. CASE k # i + 1 /\ k = 0
        BY <2>1, <3>2 DEF CopyLoop
      <3>3. CASE k # i + 1 /\ k # 0
        <4>1. k \in 0..i /\ k - 1 \in 0..(i + 1) /\ k - 1 # i + 1
          BY <3>3
        <4>2. g[k] = f[k] /\ g[k - 1] = f[k - 1]
          BY <3>3, <4>1
        <4>3. f[k] = CopyStep(d, SegmentStarts(d, root, n), cutoff, k, f[k - 1])
          BY <2>1, <3>3, <4>1 DEF CopyLoop
        <4> QED
          BY <3>3, <4>2, <4>3
      <3> QED
        BY <3>1, <3>2, <3>3
    <2>3. CopyLoop(d, root, n, cutoff, destination, i + 1, g)
      BY <2>2 DEF CopyLoop
    <2>4. i + 1 \in Nat
      OBVIOUS
    <2> QED
      BY <2>3, <2>4
  <1>3. N \in T
    <2> HIDE DEF T
    <2> QED
      BY <1>1, <1>2, UpTo
  <1> QED
    BY <1>3

\* The code's loop is that function.
LEMMA CopyTurns ==
  ASSUME NEW d, NEW root, NEW n, NEW cutoff, NEW destination, n \in Nat
  PROVE  LET f == CopyWalk(d, root, n, cutoff, destination)
         IN  /\ f[0] = CopyStart(d, destination)
             /\ \A k \in 0..(n - 1) : f[k + 1] = CopyStep(d, SegmentStarts(d, root, n), cutoff, (k + 1), f[k])
  <1>1. n \in Nat
    OBVIOUS
  <1>2. PICK f : CopyLoop(d, root, n, cutoff, destination, n, f)
    BY <1>1, CopyExists
  <1>3. CopyLoop(d, root, n, cutoff, destination, n, CopyWalk(d, root, n, cutoff, destination))
    BY <1>2 DEF CopyLoop, CopyWalk, CopyStart, CopyStep
  <1> DEFINE F == CopyWalk(d, root, n, cutoff, destination)
             M == n
  <1>4. M \in Nat /\ CopyLoop(d, root, n, cutoff, destination, M, F)
    BY <1>1, <1>3
  <1> HIDE DEF F, M
  <1>5. F[0] = CopyStart(d, destination)
    BY <1>4 DEF CopyLoop
  <1>6. ASSUME NEW k \in 0..(M - 1) PROVE F[k + 1] = CopyStep(d, SegmentStarts(d, root, n), cutoff, (k + 1), F[k])
    <2>1. k + 1 \in 0..M /\ k + 1 # 0 /\ (k + 1) - 1 = k
      BY <1>4
    <2> QED
      BY <1>4, <2>1 DEF CopyLoop
  <1> QED
    BY <1>5, <1>6 DEF F, M

\* What the calls of read_cursor start from, and one of them.
ReadStart(cur) == <<[kind |-> "read", frame |-> Bad, cur |-> cur]>>
ReadStep(d, w, hd, done) ==
    IF done[Len(done)].kind # "read" THEN done
    ELSE Append(done, ReadCursor(d, w, hd, done[Len(done)].cur))

\* The calls of read_cursor.
ReadingLoop(d, w, hd, cur, N, f) == f = [k \in 0..N |-> IF k = 0 THEN ReadStart(cur) ELSE ReadStep(d, w, hd, f[k - 1])]

\* There is a function that turns as this loop does.
LEMMA ReadingExists ==
  ASSUME NEW d, NEW w, NEW hd, NEW cur, NEW N \in Nat
  PROVE  \E f : ReadingLoop(d, w, hd, cur, N, f)
  <1> DEFINE T == {i \in Nat : \E f : ReadingLoop(d, w, hd, cur, i, f)}
  <1>1. 0 \in T
    <2>1. ReadingLoop(d, w, hd, cur, 0, [k \in 0..0 |-> ReadStart(cur)])
      BY DEF ReadingLoop
    <2> QED
      BY <2>1
  <1>2. ASSUME NEW i \in 0..(N - 1), i \in T PROVE i + 1 \in T
    <2>1. PICK f : ReadingLoop(d, w, hd, cur, i, f)
      BY <1>2
    <2> DEFINE g == [k \in 0..(i + 1) |-> IF k = i + 1 THEN ReadStep(d, w, hd, f[i]) ELSE f[k]]
    <2>2. ASSUME NEW k \in 0..(i + 1) PROVE g[k] = IF k = 0 THEN ReadStart(cur) ELSE ReadStep(d, w, hd, g[k - 1])
      <3>1. CASE k = i + 1
        <4>1. k - 1 \in 0..(i + 1) /\ k - 1 # i + 1 /\ k - 1 = i /\ k # 0
          BY <3>1
        <4> QED
          BY <3>1, <4>1
      <3>2. CASE k # i + 1 /\ k = 0
        BY <2>1, <3>2 DEF ReadingLoop
      <3>3. CASE k # i + 1 /\ k # 0
        <4>1. k \in 0..i /\ k - 1 \in 0..(i + 1) /\ k - 1 # i + 1
          BY <3>3
        <4>2. g[k] = f[k] /\ g[k - 1] = f[k - 1]
          BY <3>3, <4>1
        <4>3. f[k] = ReadStep(d, w, hd, f[k - 1])
          BY <2>1, <3>3, <4>1 DEF ReadingLoop
        <4> QED
          BY <3>3, <4>2, <4>3
      <3> QED
        BY <3>1, <3>2, <3>3
    <2>3. ReadingLoop(d, w, hd, cur, i + 1, g)
      BY <2>2 DEF ReadingLoop
    <2>4. i + 1 \in Nat
      OBVIOUS
    <2> QED
      BY <2>3, <2>4
  <1>3. N \in T
    <2> HIDE DEF T
    <2> QED
      BY <1>1, <1>2, UpTo
  <1> QED
    BY <1>3

\* The code's loop is that function.
LEMMA ReadingTurns ==
  ASSUME NEW d, NEW w, NEW hd, NEW cur, hd.sequence \in Nat
  PROVE  LET f == ReadLoop(d, w, hd, cur)
         IN  /\ f[0] = ReadStart(cur)
             /\ \A k \in 0..((hd.sequence + 1) - 1) : f[k + 1] = ReadStep(d, w, hd, f[k])
  <1>1. (hd.sequence + 1) \in Nat
    OBVIOUS
  <1>2. PICK f : ReadingLoop(d, w, hd, cur, (hd.sequence + 1), f)
    BY <1>1, ReadingExists
  <1>3. ReadingLoop(d, w, hd, cur, (hd.sequence + 1), ReadLoop(d, w, hd, cur))
    BY <1>2 DEF ReadingLoop, ReadLoop, ReadStart, ReadStep
  <1> DEFINE F == ReadLoop(d, w, hd, cur)
             M == (hd.sequence + 1)
  <1>4. M \in Nat /\ ReadingLoop(d, w, hd, cur, M, F)
    BY <1>1, <1>3
  <1> HIDE DEF F, M
  <1>5. F[0] = ReadStart(cur)
    BY <1>4 DEF ReadingLoop
  <1>6. ASSUME NEW k \in 0..(M - 1) PROVE F[k + 1] = ReadStep(d, w, hd, F[k])
    <2>1. k + 1 \in 0..M /\ k + 1 # 0 /\ (k + 1) - 1 = k
      BY <1>4
    <2> QED
      BY <1>4, <2>1 DEF ReadingLoop
  <1> QED
    BY <1>5, <1>6 DEF F, M

\* A call of next_range.
AnswerStep(range, done) ==
    IF done[Len(done)].kind # "read" THEN done
    ELSE Append(done, NextRangeFrom(done[Len(done)].cur, range))

\* The calls of next_range.
AnsweringLoop(cur, range, N, f) == f = [k \in 0..N |-> IF k = 0 THEN ReadStart(cur) ELSE AnswerStep(range, f[k - 1])]

\* There is a function that turns as this loop does.
LEMMA AnsweringExists ==
  ASSUME NEW cur, NEW range, NEW N \in Nat
  PROVE  \E f : AnsweringLoop(cur, range, N, f)
  <1> DEFINE T == {i \in Nat : \E f : AnsweringLoop(cur, range, i, f)}
  <1>1. 0 \in T
    <2>1. AnsweringLoop(cur, range, 0, [k \in 0..0 |-> ReadStart(cur)])
      BY DEF AnsweringLoop
    <2> QED
      BY <2>1
  <1>2. ASSUME NEW i \in 0..(N - 1), i \in T PROVE i + 1 \in T
    <2>1. PICK f : AnsweringLoop(cur, range, i, f)
      BY <1>2
    <2> DEFINE g == [k \in 0..(i + 1) |-> IF k = i + 1 THEN AnswerStep(range, f[i]) ELSE f[k]]
    <2>2. ASSUME NEW k \in 0..(i + 1) PROVE g[k] = IF k = 0 THEN ReadStart(cur) ELSE AnswerStep(range, g[k - 1])
      <3>1. CASE k = i + 1
        <4>1. k - 1 \in 0..(i + 1) /\ k - 1 # i + 1 /\ k - 1 = i /\ k # 0
          BY <3>1
        <4> QED
          BY <3>1, <4>1
      <3>2. CASE k # i + 1 /\ k = 0
        BY <2>1, <3>2 DEF AnsweringLoop
      <3>3. CASE k # i + 1 /\ k # 0
        <4>1. k \in 0..i /\ k - 1 \in 0..(i + 1) /\ k - 1 # i + 1
          BY <3>3
        <4>2. g[k] = f[k] /\ g[k - 1] = f[k - 1]
          BY <3>3, <4>1
        <4>3. f[k] = AnswerStep(range, f[k - 1])
          BY <2>1, <3>3, <4>1 DEF AnsweringLoop
        <4> QED
          BY <3>3, <4>2, <4>3
      <3> QED
        BY <3>1, <3>2, <3>3
    <2>3. AnsweringLoop(cur, range, i + 1, g)
      BY <2>2 DEF AnsweringLoop
    <2>4. i + 1 \in Nat
      OBVIOUS
    <2> QED
      BY <2>3, <2>4
  <1>3. N \in T
    <2> HIDE DEF T
    <2> QED
      BY <1>1, <1>2, UpTo
  <1> QED
    BY <1>3

\* The code's loop is that function.
LEMMA AnsweringTurns ==
  ASSUME NEW cur, NEW range, h.sequence \in Nat
  PROVE  LET f == AnswerLoop(cur, range)
         IN  /\ f[0] = ReadStart(cur)
             /\ \A k \in 0..((h.sequence + 1) - 1) : f[k + 1] = AnswerStep(range, f[k])
  <1>1. (h.sequence + 1) \in Nat
    OBVIOUS
  <1>2. PICK f : AnsweringLoop(cur, range, (h.sequence + 1), f)
    BY <1>1, AnsweringExists
  <1>3. AnsweringLoop(cur, range, (h.sequence + 1), AnswerLoop(cur, range))
    BY <1>2 DEF AnsweringLoop, AnswerLoop, ReadStart, AnswerStep
  <1> DEFINE F == AnswerLoop(cur, range)
             M == (h.sequence + 1)
  <1>4. M \in Nat /\ AnsweringLoop(cur, range, M, F)
    BY <1>1, <1>3
  <1> HIDE DEF F, M
  <1>5. F[0] = ReadStart(cur)
    BY <1>4 DEF AnsweringLoop
  <1>6. ASSUME NEW k \in 0..(M - 1) PROVE F[k + 1] = AnswerStep(range, F[k])
    <2>1. k + 1 \in 0..M /\ k + 1 # 0 /\ (k + 1) - 1 = k
      BY <1>4
    <2> QED
      BY <1>4, <2>1 DEF AnsweringLoop
  <1> QED
    BY <1>5, <1>6 DEF F, M

\* Nothing counted yet.
NoTotal == [count |-> 0, min |-> 0, max |-> 0]

\* The loop of aggregate_range.
TotalLoop(answer, n, range, N, f) == f = [k \in 0..N |-> IF k = 0 THEN NoTotal ELSE Added(f[k - 1], answer[k + 1].frame, range)]

\* There is a function that turns as this loop does.
LEMMA TotalExists ==
  ASSUME NEW answer, NEW n, NEW range, NEW N \in Nat
  PROVE  \E f : TotalLoop(answer, n, range, N, f)
  <1> DEFINE T == {i \in Nat : \E f : TotalLoop(answer, n, range, i, f)}
  <1>1. 0 \in T
    <2>1. TotalLoop(answer, n, range, 0, [k \in 0..0 |-> NoTotal])
      BY DEF TotalLoop
    <2> QED
      BY <2>1
  <1>2. ASSUME NEW i \in 0..(N - 1), i \in T PROVE i + 1 \in T
    <2>1. PICK f : TotalLoop(answer, n, range, i, f)
      BY <1>2
    <2> DEFINE g == [k \in 0..(i + 1) |-> IF k = i + 1 THEN Added(f[i], answer[(i + 1) + 1].frame, range) ELSE f[k]]
    <2>2. ASSUME NEW k \in 0..(i + 1) PROVE g[k] = IF k = 0 THEN NoTotal ELSE Added(g[k - 1], answer[k + 1].frame, range)
      <3>1. CASE k = i + 1
        <4>1. k - 1 \in 0..(i + 1) /\ k - 1 # i + 1 /\ k - 1 = i /\ k # 0
          BY <3>1
        <4> QED
          BY <3>1, <4>1
      <3>2. CASE k # i + 1 /\ k = 0
        BY <2>1, <3>2 DEF TotalLoop
      <3>3. CASE k # i + 1 /\ k # 0
        <4>1. k \in 0..i /\ k - 1 \in 0..(i + 1) /\ k - 1 # i + 1
          BY <3>3
        <4>2. g[k] = f[k] /\ g[k - 1] = f[k - 1]
          BY <3>3, <4>1
        <4>3. f[k] = Added(f[k - 1], answer[k + 1].frame, range)
          BY <2>1, <3>3, <4>1 DEF TotalLoop
        <4> QED
          BY <3>3, <4>2, <4>3
      <3> QED
        BY <3>1, <3>2, <3>3
    <2>3. TotalLoop(answer, n, range, i + 1, g)
      BY <2>2 DEF TotalLoop
    <2>4. i + 1 \in Nat
      OBVIOUS
    <2> QED
      BY <2>3, <2>4
  <1>3. N \in T
    <2> HIDE DEF T
    <2> QED
      BY <1>1, <1>2, UpTo
  <1> QED
    BY <1>3

\* The code's loop is that function.
LEMMA TotalTurns ==
  ASSUME NEW answer, NEW n, NEW range, n \in Nat
  PROVE  LET f == Totals(answer, n, range)
         IN  /\ f[0] = NoTotal
             /\ \A k \in 0..(n - 1) : f[k + 1] = Added(f[k], answer[(k + 1) + 1].frame, range)
  <1>1. n \in Nat
    OBVIOUS
  <1>2. PICK f : TotalLoop(answer, n, range, n, f)
    BY <1>1, TotalExists
  <1>3. TotalLoop(answer, n, range, n, Totals(answer, n, range))
    BY <1>2 DEF TotalLoop, Totals, NoTotal
  <1> DEFINE F == Totals(answer, n, range)
             M == n
  <1>4. M \in Nat /\ TotalLoop(answer, n, range, M, F)
    BY <1>1, <1>3
  <1> HIDE DEF F, M
  <1>5. F[0] = NoTotal
    BY <1>4 DEF TotalLoop
  <1>6. ASSUME NEW k \in 0..(M - 1) PROVE F[k + 1] = Added(F[k], answer[(k + 1) + 1].frame, range)
    <2>1. k + 1 \in 0..M /\ k + 1 # 0 /\ (k + 1) - 1 = k
      BY <1>4
    <2> QED
      BY <1>4, <2>1 DEF TotalLoop
  <1> QED
    BY <1>5, <1>6 DEF F, M

\* The binary search.
HalvingLoop(from, N, f) == f = [k \in 0..N |-> IF k = 0 THEN [low |-> h.spanStart, high |-> h.generation + 1] ELSE Halved(f[k - 1], from)]

\* There is a function that turns as this loop does.
LEMMA HalvingExists ==
  ASSUME NEW from, NEW N \in Nat
  PROVE  \E f : HalvingLoop(from, N, f)
  <1> DEFINE T == {i \in Nat : \E f : HalvingLoop(from, i, f)}
  <1>1. 0 \in T
    <2>1. HalvingLoop(from, 0, [k \in 0..0 |-> [low |-> h.spanStart, high |-> h.generation + 1]])
      BY DEF HalvingLoop
    <2> QED
      BY <2>1
  <1>2. ASSUME NEW i \in 0..(N - 1), i \in T PROVE i + 1 \in T
    <2>1. PICK f : HalvingLoop(from, i, f)
      BY <1>2
    <2> DEFINE g == [k \in 0..(i + 1) |-> IF k = i + 1 THEN Halved(f[i], from) ELSE f[k]]
    <2>2. ASSUME NEW k \in 0..(i + 1) PROVE g[k] = IF k = 0 THEN [low |-> h.spanStart, high |-> h.generation + 1] ELSE Halved(g[k - 1], from)
      <3>1. CASE k = i + 1
        <4>1. k - 1 \in 0..(i + 1) /\ k - 1 # i + 1 /\ k - 1 = i /\ k # 0
          BY <3>1
        <4> QED
          BY <3>1, <4>1
      <3>2. CASE k # i + 1 /\ k = 0
        BY <2>1, <3>2 DEF HalvingLoop
      <3>3. CASE k # i + 1 /\ k # 0
        <4>1. k \in 0..i /\ k - 1 \in 0..(i + 1) /\ k - 1 # i + 1
          BY <3>3
        <4>2. g[k] = f[k] /\ g[k - 1] = f[k - 1]
          BY <3>3, <4>1
        <4>3. f[k] = Halved(f[k - 1], from)
          BY <2>1, <3>3, <4>1 DEF HalvingLoop
        <4> QED
          BY <3>3, <4>2, <4>3
      <3> QED
        BY <3>1, <3>2, <3>3
    <2>3. HalvingLoop(from, i + 1, g)
      BY <2>2 DEF HalvingLoop
    <2>4. i + 1 \in Nat
      OBVIOUS
    <2> QED
      BY <2>3, <2>4
  <1>3. N \in T
    <2> HIDE DEF T
    <2> QED
      BY <1>1, <1>2, UpTo
  <1> QED
    BY <1>3

\* The code's loop is that function.
LEMMA HalvingTurns ==
  ASSUME NEW from, h.generation \in Nat
  PROVE  LET f == Halvings(from)
         IN  /\ f[0] = [low |-> h.spanStart, high |-> h.generation + 1]
             /\ \A k \in 0..((h.generation + 1) - 1) : f[k + 1] = Halved(f[k], from)
  <1>1. (h.generation + 1) \in Nat
    OBVIOUS
  <1>2. PICK f : HalvingLoop(from, (h.generation + 1), f)
    BY <1>1, HalvingExists
  <1>3. HalvingLoop(from, (h.generation + 1), Halvings(from))
    BY <1>2 DEF HalvingLoop, Halvings
  <1> DEFINE F == Halvings(from)
             M == (h.generation + 1)
  <1>4. M \in Nat /\ HalvingLoop(from, M, F)
    BY <1>1, <1>3
  <1> HIDE DEF F, M
  <1>5. F[0] = [low |-> h.spanStart, high |-> h.generation + 1]
    BY <1>4 DEF HalvingLoop
  <1>6. ASSUME NEW k \in 0..(M - 1) PROVE F[k + 1] = Halved(F[k], from)
    <2>1. k + 1 \in 0..M /\ k + 1 # 0 /\ (k + 1) - 1 = k
      BY <1>4
    <2> QED
      BY <1>4, <2>1 DEF HalvingLoop
  <1> QED
    BY <1>5, <1>6 DEF F, M

\* The batches of one segment after the other.
GatherStep(d, n, k, s) == s \o SegmentFrames(d, SegmentStarts(d, DataStart, n)[k])
GatherLoop(d, n, N, f) == f = [k \in 0..N |-> IF k = 0 THEN <<>> ELSE GatherStep(d, n, k, f[k - 1])]

\* There is a function that turns as this loop does.
LEMMA GatherExists ==
  ASSUME NEW d, NEW n, NEW N \in Nat
  PROVE  \E f : GatherLoop(d, n, N, f)
  <1> DEFINE T == {i \in Nat : \E f : GatherLoop(d, n, i, f)}
  <1>1. 0 \in T
    <2>1. GatherLoop(d, n, 0, [k \in 0..0 |-> <<>>])
      BY DEF GatherLoop
    <2> QED
      BY <2>1
  <1>2. ASSUME NEW i \in 0..(N - 1), i \in T PROVE i + 1 \in T
    <2>1. PICK f : GatherLoop(d, n, i, f)
      BY <1>2
    <2> DEFINE g == [k \in 0..(i + 1) |-> IF k = i + 1 THEN GatherStep(d, n, (i + 1), f[i]) ELSE f[k]]
    <2>2. ASSUME NEW k \in 0..(i + 1) PROVE g[k] = IF k = 0 THEN <<>> ELSE GatherStep(d, n, k, g[k - 1])
      <3>1. CASE k = i + 1
        <4>1. k - 1 \in 0..(i + 1) /\ k - 1 # i + 1 /\ k - 1 = i /\ k # 0
          BY <3>1
        <4> QED
          BY <3>1, <4>1
      <3>2. CASE k # i + 1 /\ k = 0
        BY <2>1, <3>2 DEF GatherLoop
      <3>3. CASE k # i + 1 /\ k # 0
        <4>1. k \in 0..i /\ k - 1 \in 0..(i + 1) /\ k - 1 # i + 1
          BY <3>3
        <4>2. g[k] = f[k] /\ g[k - 1] = f[k - 1]
          BY <3>3, <4>1
        <4>3. f[k] = GatherStep(d, n, k, f[k - 1])
          BY <2>1, <3>3, <4>1 DEF GatherLoop
        <4> QED
          BY <3>3, <4>2, <4>3
      <3> QED
        BY <3>1, <3>2, <3>3
    <2>3. GatherLoop(d, n, i + 1, g)
      BY <2>2 DEF GatherLoop
    <2>4. i + 1 \in Nat
      OBVIOUS
    <2> QED
      BY <2>3, <2>4
  <1>3. N \in T
    <2> HIDE DEF T
    <2> QED
      BY <1>1, <1>2, UpTo
  <1> QED
    BY <1>3

\* The code's loop is that function.
LEMMA GatherTurns ==
  ASSUME NEW d, NEW n, n \in Nat
  PROVE  LET f == Gathered(d, n)
         IN  /\ f[0] = <<>>
             /\ \A k \in 0..(n - 1) : f[k + 1] = GatherStep(d, n, (k + 1), f[k])
  <1>1. n \in Nat
    OBVIOUS
  <1>2. PICK f : GatherLoop(d, n, n, f)
    BY <1>1, GatherExists
  <1>3. GatherLoop(d, n, n, Gathered(d, n))
    BY <1>2 DEF GatherLoop, GatherStep, Gathered
  <1> DEFINE F == Gathered(d, n)
             M == n
  <1>4. M \in Nat /\ GatherLoop(d, n, M, F)
    BY <1>1, <1>3
  <1> HIDE DEF F, M
  <1>5. F[0] = <<>>
    BY <1>4 DEF GatherLoop
  <1>6. ASSUME NEW k \in 0..(M - 1) PROVE F[k + 1] = GatherStep(d, n, (k + 1), F[k])
    <2>1. k + 1 \in 0..M /\ k + 1 # 0 /\ (k + 1) - 1 = k
      BY <1>4
    <2> QED
      BY <1>4, <2>1 DEF GatherLoop
  <1> QED
    BY <1>5, <1>6 DEF F, M

\* The sizes of the batches of an old release.
SizeLoop(inputs, n, N, f) == f = [k \in 0..N |-> IF k = 0 THEN 0 ELSE f[k - 1] + Len(inputs[k])]

\* There is a function that turns as this loop does.
LEMMA SizeExists ==
  ASSUME NEW inputs, NEW n, NEW N \in Nat
  PROVE  \E f : SizeLoop(inputs, n, N, f)
  <1> DEFINE T == {i \in Nat : \E f : SizeLoop(inputs, n, i, f)}
  <1>1. 0 \in T
    <2>1. SizeLoop(inputs, n, 0, [k \in 0..0 |-> 0])
      BY DEF SizeLoop
    <2> QED
      BY <2>1
  <1>2. ASSUME NEW i \in 0..(N - 1), i \in T PROVE i + 1 \in T
    <2>1. PICK f : SizeLoop(inputs, n, i, f)
      BY <1>2
    <2> DEFINE g == [k \in 0..(i + 1) |-> IF k = i + 1 THEN f[i] + Len(inputs[(i + 1)]) ELSE f[k]]
    <2>2. ASSUME NEW k \in 0..(i + 1) PROVE g[k] = IF k = 0 THEN 0 ELSE g[k - 1] + Len(inputs[k])
      <3>1. CASE k = i + 1
        <4>1. k - 1 \in 0..(i + 1) /\ k - 1 # i + 1 /\ k - 1 = i /\ k # 0
          BY <3>1
        <4> QED
          BY <3>1, <4>1
      <3>2. CASE k # i + 1 /\ k = 0
        BY <2>1, <3>2 DEF SizeLoop
      <3>3. CASE k # i + 1 /\ k # 0
        <4>1. k \in 0..i /\ k - 1 \in 0..(i + 1) /\ k - 1 # i + 1
          BY <3>3
        <4>2. g[k] = f[k] /\ g[k - 1] = f[k - 1]
          BY <3>3, <4>1
        <4>3. f[k] = f[k - 1] + Len(inputs[k])
          BY <2>1, <3>3, <4>1 DEF SizeLoop
        <4> QED
          BY <3>3, <4>2, <4>3
      <3> QED
        BY <3>1, <3>2, <3>3
    <2>3. SizeLoop(inputs, n, i + 1, g)
      BY <2>2 DEF SizeLoop
    <2>4. i + 1 \in Nat
      OBVIOUS
    <2> QED
      BY <2>3, <2>4
  <1>3. N \in T
    <2> HIDE DEF T
    <2> QED
      BY <1>1, <1>2, UpTo
  <1> QED
    BY <1>3

\* The code's loop is that function.
LEMMA SizeTurns ==
  ASSUME NEW inputs, NEW n, n \in Nat
  PROVE  LET f == Sizes(inputs, n)
         IN  /\ f[0] = 0
             /\ \A k \in 0..(n - 1) : f[k + 1] = f[k] + Len(inputs[(k + 1)])
  <1>1. n \in Nat
    OBVIOUS
  <1>2. PICK f : SizeLoop(inputs, n, n, f)
    BY <1>1, SizeExists
  <1>3. SizeLoop(inputs, n, n, Sizes(inputs, n))
    BY <1>2 DEF SizeLoop, Sizes
  <1> DEFINE F == Sizes(inputs, n)
             M == n
  <1>4. M \in Nat /\ SizeLoop(inputs, n, M, F)
    BY <1>1, <1>3
  <1> HIDE DEF F, M
  <1>5. F[0] = 0
    BY <1>4 DEF SizeLoop
  <1>6. ASSUME NEW k \in 0..(M - 1) PROVE F[k + 1] = F[k] + Len(inputs[(k + 1)])
    <2>1. k + 1 \in 0..M /\ k + 1 # 0 /\ (k + 1) - 1 = k
      BY <1>4
    <2> QED
      BY <1>4, <2>1 DEF SizeLoop
  <1> QED
    BY <1>5, <1>6 DEF F, M

------------------------------------------------------------------------------
(* Powers of two, the lowest set bit of a segment's number and the table of   *)
(* offsets that check_segments and copy_segments keep.                        *)

\* A remainder is determined by its quotient.
LEMMA Remainder ==
  ASSUME NEW n \in Nat, NEW p \in Nat \ {0}, NEW q \in Nat, NEW r \in 0..(p - 1), n = (p * q) + r
  PROVE  n % p = r
  OBVIOUS

\* Division with remainder.
LEMMA Quotient ==
  ASSUME NEW n \in Nat, NEW p \in Nat \ {0}
  PROVE  n \div p \in Nat /\ n % p \in 0..(p - 1) /\ n = (p * (n \div p)) + (n % p)
  OBVIOUS

\* Powers of two are positive and double from one to the next.
LEMMA Powers ==
  /\ \A b \in 0..24 : Power[b] \in Nat \ {0}
  /\ Power[0] = 1
  /\ \A b \in 0..23 : Power[b + 1] = 2 * Power[b]
  <1>1. Power[0] = 1 /\ \A b \in 0..23 : Power[b + 1] = 2 * Power[b]
    BY PowerTurns
  <1> DEFINE T == {b \in 0..24 : Power[b] \in Nat \ {0}}
  <1>2. 0 \in T
    BY <1>1
  <1>3. ASSUME NEW b \in 0..(24 - 1), b \in T PROVE b + 1 \in T
    <2>1. b \in 0..23 /\ b + 1 \in 0..24 /\ Power[b] \in Nat \ {0}
      BY <1>3
    <2> QED
      BY <1>1, <2>1
  <1>4. \A b \in 0..24 : b \in T
    <2> HIDE DEF T
    <2> QED
      BY <1>2, <1>3, UpTo
  <1> QED
    BY <1>1, <1>4

\* What a power of two divides, the lower ones divide as well.
LEMMA PowersDivide ==
  ASSUME NEW n \in Nat, NEW a \in 0..24, NEW b \in 0..24, a <= b, n % Power[b] = 0
  PROVE  n % Power[a] = 0
  <1> DEFINE T == {t \in 0..b : n % Power[b - t] = 0}
  <1>1. 0 \in T
    OBVIOUS
  <1>2. ASSUME NEW t \in 0..(b - 1), t \in T PROVE t + 1 \in T
    <2>1. t + 1 \in 0..b /\ b - (t + 1) \in 0..23 /\ b - t = (b - (t + 1)) + 1 /\ b - t \in 0..24
      OBVIOUS
    <2> DEFINE p == Power[b - (t + 1)]
               q == n \div Power[b - t]
    <2>2. Power[b - t] = 2 * p /\ p \in Nat \ {0} /\ Power[b - t] \in Nat \ {0}
      <3> DEFINE x == b - (t + 1)
      <3>1. x \in 0..23 /\ x \in 0..24 /\ b - t = x + 1
        BY <2>1
      <3> HIDE DEF x
      <3>2. Power[x + 1] = 2 * Power[x] /\ Power[x] \in Nat \ {0}
        BY <3>1, Powers
      <3>3. Power[b - t] = 2 * Power[x] /\ Power[x] \in Nat \ {0}
        BY <3>1, <3>2
      <3>4. Power[b - t] = 2 * p /\ p \in Nat \ {0}
        BY <3>3 DEF x
      <3> QED
        BY <3>4
    <2>3. q \in Nat /\ n = Power[b - t] * q
      <3>1. n % Power[b - t] = 0
        BY <1>2
      <3> HIDE DEF p
      <3>2. Power[b - t] \in Nat \ {0}
        BY <2>2
      <3> DEFINE w == Power[b - t]
      <3>3. w \in Nat \ {0} /\ n % w = 0 /\ q = n \div w
        BY <3>1, <3>2
      <3> HIDE DEF w, q
      <3>4. q \in Nat /\ n = (w * q) + (n % w)
        BY <3>3, Quotient
      <3>5. n = w * q
        BY <3>3, <3>4
      <3> QED
        BY <3>4, <3>5 DEF w
    <2>4. n = (p * (2 * q)) + 0 /\ 2 * q \in Nat /\ 0 \in 0..(p - 1)
      <3> HIDE DEF p, q
      <3>1. n = (2 * p) * q
        BY <2>2, <2>3
      <3> QED
        BY <3>1, <2>2, <2>3
    <2>5. n % p = 0
      <3> HIDE DEF p, q
      <3> QED
        BY <2>2, <2>4, Remainder
    <2> QED
      BY <2>1, <2>5
  <1>3. b - a \in 0..b
    OBVIOUS
  <1>4. b - a \in T
    <2> HIDE DEF T
    <2> QED
      BY <1>1, <1>2, <1>3, UpTo
  <1>5. b - (b - a) = a
    OBVIOUS
  <1> QED
    BY <1>4, <1>5

\* The lowest set bit of a segment's number: its power of two divides the
\* number, and exactly the powers up to it do.
LEMMA BitFacts ==
  ASSUME NEW n \in Nat, n # 0, n < Power[24]
  PROVE  /\ BitOf(n) \in Bits
         /\ LowBit(n) \in 1..n /\ n % LowBit(n) = 0
         /\ \A b \in Bits : b <= BitOf(n) <=> n % Power[b] = 0
  <1> DEFINE U == {b \in 0..24 : n % Power[b] # 0}
  <1>1. n % Power[24] = n
    <2>1. Power[24] \in Nat \ {0}
      BY Powers
    <2>2. n = (Power[24] * 0) + n /\ n \in 0..(Power[24] - 1) /\ 0 \in Nat
      BY <2>1
    <2> QED
      BY <2>1, <2>2, Remainder
  <1>2. PICK u \in U : \A v \in U : u <= v
    <2>1. 24 \in U /\ U \subseteq Nat
      BY <1>1
    <2> HIDE DEF U
    <2> QED
      BY <2>1, LeastNat
  <1>3. n % Power[0] = 0
    <2>1. n = (1 * n) + 0 /\ 0 \in 0..(1 - 1)
      OBVIOUS
    <2> QED
      BY <2>1, Powers, Remainder
  <1>4. u # 0
    BY <1>2, <1>3
  <1>5. u - 1 \in Bits /\ (u - 1) + 1 = u
    BY <1>2, <1>4 DEF Bits
  <1>6. n % Power[u - 1] = 0 /\ n % Power[(u - 1) + 1] # 0
    <2>1. u - 1 \in 0..24 /\ u - 1 \notin U
      BY <1>2, <1>4
    <2> QED
      BY <1>2, <1>5, <2>1
  <1> DEFINE b == BitOf(n)
  <1>7. b \in Bits /\ n % Power[b] = 0 /\ n % Power[b + 1] # 0
    <2>1. \E x \in Bits : n % Power[x] = 0 /\ n % Power[x + 1] # 0
      BY <1>5, <1>6
    <2> QED
      BY <2>1 DEF BitOf
  <1> HIDE DEF b
  <1>8. ASSUME NEW x \in Bits PROVE x <= b <=> n % Power[x] = 0
    <2>1. x \in 0..24 /\ b \in 0..24 /\ b + 1 \in 0..24 /\ (x <= b \/ b + 1 <= x)
      BY <1>7 DEF Bits
    <2>2. CASE x <= b
      BY <2>1, <2>2, <1>7, PowersDivide
    <2>3. CASE b + 1 <= x
      <3>1. n % Power[x] # 0
        BY <2>1, <2>3, <1>7, PowersDivide
      <3>2. ~ (x <= b)
        BY <2>1, <2>3
      <3> QED
        BY <3>1, <3>2
    <2> QED
      BY <2>1, <2>2, <2>3
  <1>9. Power[b] \in 1..n
    <2> DEFINE p == Power[b]
               q == n \div p
    <2>1. p \in Nat \ {0} /\ n % p = 0
      BY <1>7, Powers DEF Bits
    <2> HIDE DEF p
    <2>6. q \in Nat /\ n = (p * q) + (n % p)
      BY <2>1, Quotient
    <2> HIDE DEF q
    <2>2. q \in Nat /\ n = p * q
      BY <2>1, <2>6
    <2>3. q # 0
      BY <2>1, <2>2
    <2>4. p <= p * q
      BY <2>1, <2>2, <2>3
    <2>5. p \in 1..n
      BY <2>1, <2>2, <2>4
    <2> QED
      BY <2>5 DEF p
  <1> QED
    BY <1>7, <1>8, <1>9 DEF b, LowBit

\* The offset of segment n, or 0 where there is none before the first.
StartOf(st, n) == IF n = 0 THEN 0 ELSE st[n]

\* The table of offsets after n segments.
Table(st, n) == [b \in Bits |-> StartOf(st, n - (n % Power[b]))]

\* The table starts empty.
LEMMA TableEmpty ==
  ASSUME NEW st
  PROVE  NoOffsets = Table(st, 0)
  <1>1. ASSUME NEW b \in Bits PROVE 0 % Power[b] = 0
    <2>1. Power[b] \in Nat \ {0}
      BY Powers DEF Bits
    <2>2. 0 = (Power[b] * 0) + 0 /\ 0 \in 0..(Power[b] - 1)
      BY <2>1
    <2> QED
      BY <2>1, <2>2, Remainder
  <1> QED
    BY <1>1 DEF NoOffsets, Table, StartOf

\* The remainder of the number before.
LEMMA RemainderBefore ==
  ASSUME NEW n \in Nat, n # 0, NEW p \in Nat \ {0}
  PROVE  IF n % p = 0 THEN (n - 1) - ((n - 1) % p) = n - p ELSE (n - 1) - ((n - 1) % p) = n - (n % p)
  <1> DEFINE q == n \div p
             r == n % p
  <1>1. q \in Nat /\ r \in 0..(p - 1) /\ n = (p * q) + r
    BY Quotient
  <1> HIDE DEF q, r
  <1>2. n - 1 \in Nat
    OBVIOUS
  <1>3. CASE r = 0
    <2>1. q # 0
      BY <1>1, <1>3
    <2>2. p * q = (p * (q - 1)) + p
      BY <1>1
    <2>3. n - 1 = (p * (q - 1)) + (p - 1) /\ q - 1 \in Nat /\ p - 1 \in 0..(p - 1)
      BY <1>1, <1>3, <2>1, <2>2
    <2>4. (n - 1) % p = p - 1
      BY <1>2, <2>3, Remainder
    <2> QED
      BY <1>3, <2>4 DEF r
  <1>4. CASE r # 0
    <2>1. n - 1 = (p * q) + (r - 1) /\ r - 1 \in 0..(p - 1)
      BY <1>1, <1>4
    <2>2. (n - 1) % p = r - 1
      BY <1>1, <1>2, <2>1, Remainder
    <2>3. (n - 1) - ((n - 1) % p) = n - r
      BY <2>2, <1>1
    <2> QED
      BY <1>4, <2>3 DEF r
  <1> QED
    BY <1>3, <1>4

\* Recording a segment yields the next table.
LEMMA TableNext ==
  ASSUME NEW st, NEW n \in Nat, n # 0, n < Power[24]
  PROVE  RecordOffset(Table(st, n - 1), n, st[n]) = Table(st, n)
  <1>1. ASSUME NEW b \in Bits
        PROVE  (IF b <= BitOf(n) THEN st[n] ELSE Table(st, n - 1)[b]) = Table(st, n)[b]
    <2>1. Power[b] \in Nat \ {0}
      BY Powers DEF Bits
    <2>2. b <= BitOf(n) <=> n % Power[b] = 0
      BY BitFacts
    <2>3. CASE n % Power[b] = 0
      <3>1. n - (n % Power[b]) = n
        BY <2>3
      <3> QED
        BY <2>2, <2>3, <3>1 DEF Table, StartOf
    <2>4. CASE n % Power[b] # 0
      <3>1. (n - 1) - ((n - 1) % Power[b]) = n - (n % Power[b])
        BY <2>1, <2>4, RemainderBefore
      <3> QED
        BY <2>2, <2>4, <3>1 DEF Table
    <2> QED
      BY <2>3, <2>4
  <1>2. RecordOffset(Table(st, n - 1), n, st[n]) =
           [b \in Bits |-> IF b <= BitOf(n) THEN st[n] ELSE Table(st, n - 1)[b]]
    BY DEF RecordOffset
  <1>3. Table(st, n) = [b \in Bits |-> Table(st, n)[b]]
    BY DEF Table
  <1> QED
    BY <1>1, <1>2, <1>3

\* The table's entry for a new segment is the segment its skip link names.
LEMMA TableSkip ==
  ASSUME NEW st, NEW n \in Nat, n # 0, n < Power[24]
  PROVE  Table(st, n - 1)[BitOf(n)] = StartOf(st, n - LowBit(n))
  <1>1. BitOf(n) \in Bits /\ n % LowBit(n) = 0 /\ LowBit(n) \in Nat \ {0}
    BY BitFacts
  <1>2. (n - 1) - ((n - 1) % LowBit(n)) = n - LowBit(n)
    BY <1>1, RemainderBefore
  <1> QED
    BY <1>1, <1>2 DEF Table, LowBit

------------------------------------------------------------------------------
(* Frames in a file. *)

\* What a batch and a segment header are.
FrameSet == [kind : {"frame"}, seq : 1..SeqMax, records : Inputs \cup LegacyInputs]
SegmentSet == [kind : {"segment"}, size : {1, 2}, first : 1..SeqMax, last : 1..SeqMax, body : Nat,
               minimum : Times, maximum : Times, previous : Nat, skip : Nat, ordered : BOOLEAN]

\* A file holds nothing but batches and headers.
Cells(file) == \A o \in DOMAIN file : o \in Nat /\ file[o] \in FrameSet \cup SegmentSet

\* The batches fr lie one after the other from offset a to offset b, batch i at
\* offset at[i], and their sequences count up from first.
IsFrames(file, a, b, first, fr, at) ==
    /\ fr \in Seq(FrameSet)
    /\ at \in [1..(Len(fr) + 1) -> Nat]
    /\ at[1] = a /\ at[Len(fr) + 1] = b
    /\ \A i \in 1..Len(fr) : /\ at[i] \in DOMAIN file /\ file[at[i]] = fr[i]
                             /\ fr[i].seq = first + (i - 1)
                             /\ at[i + 1] = at[i] + FrameSize(fr[i])

\* A batch has records, and it is not the answer of a failed read.
LEMMA FrameFacts ==
  ASSUME NEW f \in FrameSet
  PROVE  /\ FrameSize(f) \in Nat /\ FrameSize(f) >= 1
         /\ f # Bad /\ f.kind = "frame" /\ f.seq \in 1..SeqMax
         /\ f.records \in Seq(Records) /\ f.records # <<>>
         /\ FirstTimeOf(f) \in Times /\ LastTimeOf(f) \in Times
         /\ \A i \in DOMAIN f.records : f.records[i].time \in Times
  <1>1. f.kind = "frame" /\ f.seq \in 1..SeqMax /\ f.records \in Seq(Records) /\ f.records # <<>>
    <2>1. f.kind = "frame" /\ f.seq \in 1..SeqMax /\ f.records \in Inputs \cup LegacyInputs
      BY DEF FrameSet
    <2> QED
      BY <2>1, ReaderAssumption
  <1>2. Len(f.records) \in Nat /\ Len(f.records) >= 1 /\ DOMAIN f.records = 1..Len(f.records)
    BY <1>1
  <1>3. f # Bad
    BY <1>1 DEF Bad
  <1>4. \A i \in DOMAIN f.records : f.records[i] \in Records
    BY <1>1
  <1>5. \A i \in DOMAIN f.records : f.records[i].time \in Times
    BY <1>4 DEF Records
  <1>6. 1 \in DOMAIN f.records /\ Len(f.records) \in DOMAIN f.records
    BY <1>2
  <1> QED
    BY <1>1, <1>2, <1>3, <1>5, <1>6 DEF FrameSize, FirstTimeOf, LastTimeOf

\* Each frame takes at least a unit.
LEMMA FramesGrow ==
  ASSUME NEW file, NEW a, NEW b, NEW first, NEW fr, NEW at, IsFrames(file, a, b, first, fr, at),
         NEW i \in 1..(Len(fr) + 1), NEW j \in i..(Len(fr) + 1)
  PROVE  /\ at[i] + (j - i) <= at[j]
         /\ j < Len(fr) + 1 => at[j] + FrameSize(fr[j]) <= b
         /\ Len(fr) \in Nat /\ at[i] \in Nat /\ at[j] \in Nat /\ a \in Nat /\ b \in Nat
         /\ a + Len(fr) <= b /\ a <= at[i] /\ at[j] <= b
  <1>1. /\ fr \in Seq(FrameSet) /\ Len(fr) \in Nat /\ at \in [1..(Len(fr) + 1) -> Nat]
        /\ at[1] = a /\ at[Len(fr) + 1] = b
    BY DEF IsFrames
  <1>2. ASSUME NEW k \in 1..Len(fr) PROVE at[k] \in Nat /\ at[k + 1] \in Nat /\ at[k] + 1 <= at[k + 1]
                                          /\ at[k + 1] = at[k] + FrameSize(fr[k])
    <2>1. fr[k] \in FrameSet
      BY <1>1
    <2>2. FrameSize(fr[k]) \in Nat /\ FrameSize(fr[k]) >= 1
      BY <2>1, FrameFacts
    <2>3. at[k] \in Nat /\ at[k + 1] \in Nat /\ at[k + 1] = at[k] + FrameSize(fr[k])
      BY SMTT(30), <1>1 DEF IsFrames
    <2> QED
      BY <2>2, <2>3
  <1>3. ASSUME NEW x \in 1..(Len(fr) + 1) PROVE \A y \in x..(Len(fr) + 1) : at[x] + (y - x) <= at[y]
    <2> DEFINE T == {t \in 0..((Len(fr) + 1) - x) : at[x] + t <= at[x + t]}
               N == (Len(fr) + 1) - x
    <2>1. N \in Nat /\ at[x] \in Nat
      BY <1>1
    <2>2. 0 \in T
      BY <2>1, <1>1
    <2>3. ASSUME NEW t \in 0..(N - 1), t \in T PROVE t + 1 \in T
      <3>1. x + t \in 1..Len(fr) /\ t + 1 \in 0..((Len(fr) + 1) - x) /\ x + (t + 1) = (x + t) + 1
        BY <2>1, <1>1
      <3>2. at[x] + t <= at[x + t]
        BY <2>3
      <3>3. at[x + t] \in Nat /\ at[(x + t) + 1] \in Nat /\ at[x + t] + 1 <= at[(x + t) + 1]
        BY <3>1, <1>2
      <3>4. at[x] + (t + 1) <= at[(x + t) + 1]
        BY SMTT(30), <2>1, <3>2, <3>3
      <3> QED
        BY <3>1, <3>4
    <2>4. \A t \in 0..N : t \in T
      <3> HIDE DEF T, N
      <3> QED
        BY <2>1, <2>2, <2>3, UpTo
    <2> TAKE y \in x..(Len(fr) + 1)
    <2>5. y - x \in 0..N /\ x + (y - x) = y
      BY <1>1
    <2> QED
      BY <2>4, <2>5
  <1>4. at[i] + (j - i) <= at[j] /\ i \in 1..(Len(fr) + 1) /\ j \in 1..(Len(fr) + 1)
    BY <1>1, <1>3
  <1>5. 1 \in 1..(Len(fr) + 1) /\ Len(fr) + 1 \in 1..(Len(fr) + 1) /\ Len(fr) + 1 \in j..(Len(fr) + 1)
        /\ i \in 1..(Len(fr) + 1)
    BY <1>1, <1>4
  <1>6. a + ((Len(fr) + 1) - 1) <= b /\ a + (i - 1) <= at[i] /\ at[j] + ((Len(fr) + 1) - j) <= b
    BY <1>1, <1>3, <1>4, <1>5
  <1>7. a \in Nat /\ b \in Nat /\ at[i] \in Nat /\ at[j] \in Nat
    BY <1>1, <1>4, <1>5
  <1>8. a + Len(fr) <= b /\ a <= at[i] /\ at[j] <= b
    BY <1>1, <1>4, <1>6, <1>7
  <1>9. ASSUME j < Len(fr) + 1 PROVE at[j] + FrameSize(fr[j]) <= b
    <2>1. j \in 1..Len(fr) /\ j + 1 \in 1..(Len(fr) + 1) /\ Len(fr) + 1 \in (j + 1)..(Len(fr) + 1)
      BY <1>1, <1>4, <1>9
    <2>2. at[j + 1] = at[j] + FrameSize(fr[j]) /\ at[j + 1] \in Nat
      BY <1>2, <2>1
    <2>3. at[j + 1] + ((Len(fr) + 1) - (j + 1)) <= at[Len(fr) + 1]
      BY <1>3, <2>1
    <2> QED
      BY <1>1, <1>7, <2>1, <2>2, <2>3
  <1> QED
    BY <1>1, <1>4, <1>7, <1>8, <1>9

\* read_frame at the place of a batch delivers it.
LEMMA ReadFrameAt ==
  ASSUME NEW file, NEW a, NEW b, NEW first, NEW fr, NEW at, IsFrames(file, a, b, first, fr, at),
         NEW i \in 1..Len(fr), NEW e \in Int, b <= e
  PROVE  ReadFrame(file, at[i], e, first + (i - 1)) = fr[i]
  <1>1. fr \in Seq(FrameSet) /\ Len(fr) \in Nat
    BY DEF IsFrames
  <1>2. at[i] \in DOMAIN file /\ file[at[i]] = fr[i] /\ fr[i].seq = first + (i - 1) /\ fr[i] \in FrameSet
    BY <1>1 DEF IsFrames
  <1>3. fr[i].kind = "frame"
    BY <1>2, FrameFacts
  <1>4. at[i] + FrameSize(fr[i]) <= b /\ b \in Nat /\ at[i] \in Nat
    <2>1. i \in 1..(Len(fr) + 1) /\ i \in i..(Len(fr) + 1) /\ i < Len(fr) + 1
      BY <1>1
    <2> QED
      BY <2>1, FramesGrow
  <1>5. at[i] + FrameSize(fr[i]) <= e
    <2>1. FrameSize(fr[i]) \in Nat
      BY <1>2, FrameFacts
    <2> QED
      BY <1>4, <2>1
  <1> QED
    BY <1>2, <1>3, <1>5 DEF ReadFrame

\* There is no frame at the end of a part of a file.
LEMMA ReadFrameEnd ==
  ASSUME NEW file, Cells(file), NEW e, NEW q
  PROVE  ReadFrame(file, e, e, q) = Bad
  <1>1. ASSUME e \in DOMAIN file, file[e].kind = "frame" PROVE ~ (e + FrameSize(file[e]) <= e)
    <2>1. e \in Nat /\ file[e] \in FrameSet
      BY <1>1 DEF Cells, SegmentSet
    <2>2. FrameSize(file[e]) \in Nat /\ FrameSize(file[e]) >= 1
      BY <2>1, FrameFacts
    <2> QED
      BY <2>1, <2>2
  <1> QED
    BY <1>1 DEF ReadFrame

\* Walking the frames of a part of a file finds all of them.
LEMMA FramesFound ==
  ASSUME NEW file, Cells(file), NEW a, NEW b, NEW first \in Int, NEW fr, NEW at,
         IsFrames(file, a, b, first, fr, at)
  PROVE  FramesFrom(file, a, b, first) = fr
  <1>1. /\ fr \in Seq(FrameSet) /\ Len(fr) \in Nat /\ at \in [1..(Len(fr) + 1) -> Nat]
        /\ at[1] = a /\ at[Len(fr) + 1] = b
    BY DEF IsFrames
  <1>2. a \in Nat /\ b \in Nat /\ a + Len(fr) <= b
    <2>1. 1 \in 1..(Len(fr) + 1) /\ 1 \in 1..(Len(fr) + 1)
      BY <1>1
    <2> QED
      BY <2>1, FramesGrow
  <1> DEFINE walk == FrameWalk(file, a, b, first)
             m(k) == IF k <= Len(fr) THEN k ELSE Len(fr)
             T == {k \in 0..(b - a) : walk[k] = [at |-> at[m(k) + 1], frames |-> SubSeq(fr, 1, m(k))]}
  <1>3. /\ walk[0] = [at |-> a, frames |-> <<>>]
        /\ \A k \in 0..((b - a) - 1) : walk[k + 1] = FrameStep(file, b, first, walk[k])
    <2>1. a \in Int /\ b \in Int /\ a <= b
      BY <1>1, <1>2
    <2> QED
      BY SMTT(30), <2>1, FrameTurns
  <1> HIDE DEF walk
  <1>4. 0 \in T
    <2>1. m(0) = 0 /\ SubSeq(fr, 1, 0) = <<>> /\ 0 \in 0..(b - a)
      BY <1>1, <1>2
    <2> QED
      BY <1>1, <1>3, <2>1
  <1>5. ASSUME NEW k \in 0..((b - a) - 1), k \in T PROVE k + 1 \in T
    <2> DEFINE w == walk[k]
    <2>1. w = [at |-> at[m(k) + 1], frames |-> SubSeq(fr, 1, m(k))]
      BY <1>5
    <2>2. k + 1 \in 0..(b - a) /\ m(k) \in 0..Len(fr) /\ Len(SubSeq(fr, 1, m(k))) = m(k)
      BY <1>1, <1>2
    <2>3. walk[k + 1] = FrameStep(file, b, first, w)
      BY <1>3
    <2>4. w.at = at[m(k) + 1] /\ Len(w.frames) = m(k) /\ w.frames = SubSeq(fr, 1, m(k))
      BY <2>1, <2>2
    <2> HIDE DEF w
    <2>5. CASE k < Len(fr)
      <3>1. m(k) = k /\ m(k + 1) = k + 1 /\ k + 1 \in 1..Len(fr) /\ (k + 1) - 1 = k
        BY <1>1, <2>5
      <3>2. ReadFrame(file, at[k + 1], b, first + ((k + 1) - 1)) = fr[k + 1]
        BY <1>2, <3>1, ReadFrameAt
      <3>3. ReadFrame(file, w.at, b, first + Len(w.frames)) = fr[k + 1]
        BY <2>4, <3>1, <3>2
      <3>4. fr[k + 1] # Bad
        BY <1>1, <3>1, FrameFacts
      <3>5. walk[k + 1] = [at |-> w.at + FrameSize(fr[k + 1]), frames |-> Append(w.frames, fr[k + 1])]
        BY <2>3, <3>3, <3>4 DEF FrameStep
      <3>6. at[(k + 1) + 1] = at[k + 1] + FrameSize(fr[k + 1])
        BY <3>1 DEF IsFrames
      <3>7. Append(SubSeq(fr, 1, k), fr[k + 1]) = SubSeq(fr, 1, k + 1)
        BY <1>1, <3>1
      <3> QED
        BY <2>2, <2>4, <3>1, <3>5, <3>6, <3>7
    <2>6. CASE ~ (k < Len(fr))
      <3>1. m(k) = Len(fr) /\ m(k + 1) = Len(fr)
        BY <1>1, <2>6
      <3>2. w.at = b
        BY <1>1, <2>4, <3>1
      <3>3. ReadFrame(file, w.at, b, first + Len(w.frames)) = Bad
        BY <3>2, ReadFrameEnd
      <3>4. walk[k + 1] = w
        BY <2>3, <3>3 DEF FrameStep
      <3> QED
        BY <2>1, <2>2, <3>1, <3>4 DEF w
    <2> QED
      BY <2>5, <2>6
  <1>6. b - a \in T
    <2> HIDE DEF T
    <2>1. b - a \in Nat /\ b - a \in 0..(b - a)
      BY <1>2
    <2> QED
      BY <1>4, <1>5, <2>1, UpTo
  <1>7. m(b - a) = Len(fr)
    BY <1>1, <1>2
  <1>8. SubSeq(fr, 1, Len(fr)) = fr
    BY <1>1
  <1> QED
    BY <1>6, <1>7, <1>8 DEF FramesFrom, walk

------------------------------------------------------------------------------
(* Segments in a file. *)

\* The segment at offset o holds exactly the batches fr.
SegmentWhole(d, o, fr, at) ==
    /\ o \in DOMAIN d /\ d[o] \in SegmentSet
    /\ d[o].minimum <= d[o].maximum
    /\ fr # <<>>
    /\ IsFrames(d, o + d[o].size, After(o, d[o]), d[o].first, fr, at)
    /\ d[o].last = d[o].first + (Len(fr) - 1)

\* The part of a file from root to end is n segments, segment k at st[k] with
\* the batches sf[k] at sa[k], and sequences grow from one to the next.
Layout(d, root, end, n, st, sf, sa) ==
    /\ n \in Nat
    /\ st \in [1..(n + 1) -> Nat]
    /\ st[1] = root /\ st[n + 1] = end
    /\ \A k \in 1..n : SegmentWhole(d, st[k], sf[k], sa[k]) /\ st[k + 1] = After(st[k], d[st[k]])
    /\ \A k \in 1..(n - 1) : d[st[k]].last < d[st[k + 1]].first

\* Every header has the links of its number; one of an old release has none.
Linked(d, n, st) ==
    \A k \in 1..n :
        IF d[st[k]].size = 2
        THEN d[st[k]].previous = StartOf(st, k - 1) /\ d[st[k]].skip = StartOf(st, k - LowBit(k))
        ELSE d[st[k]].previous = 0 /\ d[st[k]].skip = 0

\* What a header of a whole segment says.
LEMMA WholeFacts ==
  ASSUME NEW d, NEW o \in Nat, NEW fr, NEW at, SegmentWhole(d, o, fr, at)
  PROVE  /\ d[o].kind = "segment" /\ d[o].size \in {1, 2} /\ d[o].body \in Nat /\ d[o].body >= 1
         /\ d[o].first \in 1..SeqMax /\ d[o].last \in 1..SeqMax /\ d[o].first <= d[o].last
         /\ d[o].minimum \in Times /\ d[o].maximum \in Times /\ d[o].minimum <= d[o].maximum
         /\ d[o].ordered \in BOOLEAN /\ d[o] # Bad
         /\ fr \in Seq(FrameSet) /\ Len(fr) \in Nat /\ Len(fr) >= 1
         /\ After(o, d[o]) = (o + d[o].size) + d[o].body /\ After(o, d[o]) \in Nat
         /\ o + 2 <= After(o, d[o])
         /\ d[o].last - d[o].first = Len(fr) - 1
  <1>1. d[o] \in SegmentSet /\ fr # <<>> /\ d[o].minimum <= d[o].maximum
        /\ d[o].last = d[o].first + (Len(fr) - 1)
        /\ IsFrames(d, o + d[o].size, After(o, d[o]), d[o].first, fr, at)
    BY DEF SegmentWhole
  <1>2. /\ d[o].kind = "segment" /\ d[o].size \in {1, 2} /\ d[o].body \in Nat
        /\ d[o].first \in 1..SeqMax /\ d[o].last \in 1..SeqMax
        /\ d[o].minimum \in Times /\ d[o].maximum \in Times /\ d[o].ordered \in BOOLEAN
    BY <1>1 DEF SegmentSet
  <1>3. d[o] # Bad
    BY <1>2 DEF Bad
  <1>4. fr \in Seq(FrameSet) /\ Len(fr) \in Nat /\ Len(fr) >= 1
    <2>1. fr \in Seq(FrameSet)
      BY <1>1 DEF IsFrames
    <2> QED
      BY <1>1, <2>1
  <1>5. After(o, d[o]) = (o + d[o].size) + d[o].body /\ After(o, d[o]) \in Nat
    BY <1>2 DEF After
  <1>6. (o + d[o].size) + Len(fr) <= After(o, d[o])
    <2>1. 1 \in 1..(Len(fr) + 1) /\ 1 \in 1..(Len(fr) + 1)
      BY <1>4
    <2> QED
      BY <1>1, <2>1, FramesGrow
  <1>7. d[o].body >= 1 /\ o + 2 <= After(o, d[o])
    BY <1>2, <1>4, <1>5, <1>6
  <1>8. SeqMax \in Nat
    BY LimitAssumption
  <1>9. d[o].first <= d[o].last /\ d[o].last - d[o].first = Len(fr) - 1
    BY <1>1, <1>2, <1>4, <1>8
  <1> QED
    BY <1>1, <1>2, <1>3, <1>4, <1>5, <1>7, <1>9

\* The facts about segment k of a layout.
LEMMA LayoutFacts ==
  ASSUME NEW d, NEW root, NEW end, NEW n, NEW st, NEW sf, NEW sa, Layout(d, root, end, n, st, sf, sa)
  PROVE  /\ n \in Nat /\ root \in Nat /\ end \in Nat /\ st[1] = root /\ st[n + 1] = end
         /\ \A k \in 1..(n + 1) : st[k] \in Nat
         /\ \A k \in 1..n : SegmentWhole(d, st[k], sf[k], sa[k]) /\ st[k + 1] = After(st[k], d[st[k]])
                            /\ st[k] + 2 <= st[k + 1]
  <1>1. n \in Nat /\ st \in [1..(n + 1) -> Nat] /\ st[1] = root /\ st[n + 1] = end
    BY DEF Layout
  <1>2. \A k \in 1..(n + 1) : st[k] \in Nat
    BY <1>1
  <1>3. 1 \in 1..(n + 1) /\ n + 1 \in 1..(n + 1)
    BY <1>1
  <1>4. ASSUME NEW k \in 1..n
        PROVE  SegmentWhole(d, st[k], sf[k], sa[k]) /\ st[k + 1] = After(st[k], d[st[k]])
               /\ st[k] + 2 <= st[k + 1]
    <2>1. SegmentWhole(d, st[k], sf[k], sa[k]) /\ st[k + 1] = After(st[k], d[st[k]])
      BY DEF Layout
    <2>2. k \in 1..(n + 1)
      BY <1>1
    <2>3. st[k] + 2 <= After(st[k], d[st[k]])
      BY <1>2, <2>1, <2>2, WholeFacts
    <2> QED
      BY <2>1, <2>3
  <1> QED
    BY <1>1, <1>2, <1>3, <1>4

\* Each segment takes at least two units.
LEMMA LayoutGrow ==
  ASSUME NEW d, NEW root, NEW end, NEW n, NEW st, NEW sf, NEW sa, Layout(d, root, end, n, st, sf, sa),
         NEW i \in 1..(n + 1), NEW j \in i..(n + 1)
  PROVE  /\ st[i] + (2 * (j - i)) <= st[j]
         /\ root <= st[i] /\ st[j] <= end /\ root + (2 * n) <= end
  <1>1. /\ n \in Nat /\ root \in Nat /\ end \in Nat /\ st[1] = root /\ st[n + 1] = end
        /\ \A k \in 1..(n + 1) : st[k] \in Nat
        /\ \A k \in 1..n : st[k] + 2 <= st[k + 1]
    BY LayoutFacts
  <1>2. ASSUME NEW x \in 1..(n + 1) PROVE \A y \in x..(n + 1) : st[x] + (2 * (y - x)) <= st[y]
    <2> DEFINE N == (n + 1) - x
               T == {t \in 0..N : st[x] + (2 * t) <= st[x + t]}
    <2>1. N \in Nat /\ st[x] \in Nat
      BY <1>1
    <2>2. 0 \in T
      BY <2>1, <1>1
    <2>3. ASSUME NEW t \in 0..(N - 1), t \in T PROVE t + 1 \in T
      <3>1. x + t \in 1..n /\ x + t \in 1..(n + 1) /\ (x + t) + 1 \in 1..(n + 1) /\ t + 1 \in 0..N
            /\ x + (t + 1) = (x + t) + 1
        BY <2>1, <1>1
      <3>2. st[x + t] \in Nat /\ st[(x + t) + 1] \in Nat /\ st[x + t] + 2 <= st[(x + t) + 1]
        BY <1>1, <3>1
      <3>3. st[x] + (2 * t) <= st[x + t]
        BY <2>3
      <3>4. st[x] + (2 * (t + 1)) <= st[(x + t) + 1]
        BY <2>1, <3>2, <3>3
      <3> QED
        BY <3>1, <3>4
    <2>4. \A t \in 0..N : t \in T
      <3> HIDE DEF T, N
      <3> QED
        BY <2>1, <2>2, <2>3, UpTo
    <2> TAKE y \in x..(n + 1)
    <2>5. y - x \in 0..N /\ x + (y - x) = y
      BY <1>1
    <2> QED
      BY <2>4, <2>5
  <1>3. 1 \in 1..(n + 1) /\ i \in 1..(n + 1) /\ n + 1 \in j..(n + 1) /\ n + 1 \in 1..(n + 1)
        /\ j \in 1..(n + 1)
    BY <1>1
  <1>4. st[i] + (2 * (j - i)) <= st[j] /\ st[1] + (2 * (i - 1)) <= st[i]
        /\ st[j] + (2 * ((n + 1) - j)) <= st[n + 1] /\ st[1] + (2 * ((n + 1) - 1)) <= st[n + 1]
    BY <1>2, <1>3
  <1>5. st[i] \in Nat /\ st[j] \in Nat
    BY <1>1, <1>3
  <1> QED
    BY <1>1, <1>3, <1>4, <1>5

\* 24 entries of the table cover the capacity of a database.
LEMMA TableCovers ==
  ASSUME NEW d, NEW root, NEW end, NEW n, NEW st, NEW sf, NEW sa, Layout(d, root, end, n, st, sf, sa),
         DataStart <= root, end <= DbCapacity
  PROVE  n < Power[24]
  <1>1. n \in Nat /\ root \in Nat /\ end \in Nat
    BY LayoutFacts
  <1>2. root + (2 * n) <= end
    <2>1. 1 \in 1..(n + 1) /\ 1 \in 1..(n + 1)
      BY <1>1
    <2> QED
      BY <2>1, LayoutGrow
  <1>3. DbCapacity \in Nat /\ DbCapacity <= 2 * Power[24]
    BY ReaderAssumption
  <1>4. Power[24] \in Nat
    BY Powers, 24 \in 0..24
  <1> QED
    BY <1>1, <1>2, <1>3, <1>4 DEF DataStart

\* read_segment accepts every segment of a linked layout.
LEMMA SegmentRead ==
  ASSUME NEW d, NEW root, NEW end, NEW n, NEW st, NEW sf, NEW sa, Layout(d, root, end, n, st, sf, sa),
         Linked(d, n, st), DataStart <= root, n < Power[24],
         NEW k \in 1..n, NEW e \in Int, end <= e
  PROVE  ReadSegment(d, st[k], e) = d[st[k]] /\ d[st[k]] # Bad
  <1>1. /\ n \in Nat /\ root \in Nat /\ end \in Nat /\ st[1] = root /\ st[n + 1] = end
        /\ \A i \in 1..(n + 1) : st[i] \in Nat
        /\ SegmentWhole(d, st[k], sf[k], sa[k]) /\ st[k + 1] = After(st[k], d[st[k]])
    BY LayoutFacts
  <1> DEFINE s == d[st[k]]
  <1>2. k \in 1..(n + 1) /\ k + 1 \in 1..(n + 1) /\ st[k] \in Nat
    BY <1>1
  <1>3. /\ s.kind = "segment" /\ s.size \in {1, 2} /\ s.body \in Nat
        /\ s.first \in 1..SeqMax /\ s.last \in 1..SeqMax /\ s.first <= s.last
        /\ s.minimum <= s.maximum /\ s # Bad
        /\ After(st[k], s) = (st[k] + s.size) + s.body
    BY <1>1, <1>2, WholeFacts
  <1>4. st[k] \in DOMAIN d
    BY <1>1 DEF SegmentWhole
  <1>5. (st[k] + s.size) + s.body <= e
    <2>1. k + 1 \in (k + 1)..(n + 1)
      BY <1>1
    <2>2. st[k + 1] <= end
      BY <1>2, <2>1, LayoutGrow
    <2>3. st[k + 1] \in Nat
      BY <1>1, <1>2
    <2> QED
      BY <1>1, <1>3, <2>2, <2>3
  <1>6. ASSUME NEW x \in 0..(k - 1) PROVE StartOf(st, x) = 0 \/ StartOf(st, x) \in DataStart..(st[k] - 1)
    <2>1. CASE x = 0
      BY <2>1 DEF StartOf
    <2>2. CASE x # 0
      <3>1. x \in 1..(n + 1) /\ k \in x..(n + 1)
        BY <1>1, <2>2
      <3>2. st[x] + (2 * (k - x)) <= st[k] /\ root <= st[x]
        BY <3>1, LayoutGrow
      <3>3. st[x] \in Nat
        BY <1>1, <3>1
      <3>4. st[x] \in DataStart..(st[k] - 1)
        BY <1>1, <1>2, <3>1, <3>2, <3>3 DEF DataStart
      <3> QED
        BY <2>2, <3>4 DEF StartOf
    <2> QED
      BY <2>1, <2>2
  <1>7. /\ s.previous = 0 \/ s.previous \in DataStart..(st[k] - 1)
        /\ s.skip = 0 \/ s.skip \in DataStart..(st[k] - 1)
    <2>1. k \in Nat /\ k # 0 /\ k < Power[24]
      BY <1>1, Powers
    <2>2. LowBit(k) \in 1..k
      BY <2>1, BitFacts
    <2>3. k - 1 \in 0..(k - 1) /\ k - LowBit(k) \in 0..(k - 1)
      BY <2>1, <2>2
    <2> QED
      BY <1>6, <2>3 DEF Linked
  <1>8. SeqMax \in Nat
    BY LimitAssumption
  <1>9. s.first # 0
    BY <1>3, <1>8
  <1> QED
    BY <1>3, <1>4, <1>5, <1>7, <1>9 DEF ReadSegment

\* Walking from header to header finds the segments.
LEMMA StartsFound ==
  ASSUME NEW d, NEW root, NEW end, NEW n, NEW st, NEW sf, NEW sa, Layout(d, root, end, n, st, sf, sa),
         NEW t \in 0..n
  PROVE  /\ DOMAIN SegmentStarts(d, root, t) = 1..(t + 1)
         /\ \A k \in 1..(t + 1) : SegmentStarts(d, root, t)[k] = st[k]
         /\ SegmentStarts(d, root, n) = st
  <1>1. /\ n \in Nat /\ st[1] = root /\ st \in [1..(n + 1) -> Nat]
        /\ \A i \in 1..n : st[i + 1] = After(st[i], d[st[i]])
    BY DEF Layout
  <1>2. ASSUME NEW r \in 0..n PROVE \A k \in 1..(r + 1) : SegmentStarts(d, root, r)[k] = st[k]
    <2> DEFINE P == Passed(d, root, r)
               T == {k \in 0..r : P[k] = st[k + 1]}
    <2>1. r \in Nat
      OBVIOUS
    <2>2. P[0] = root /\ \A k \in 0..(r - 1) : P[k + 1] = After(P[k], d[P[k]])
      BY <2>1, PassedTurns
    <2> HIDE DEF P
    <2>3. 0 \in T
      BY <1>1, <2>1, <2>2
    <2>4. ASSUME NEW k \in 0..(r - 1), k \in T PROVE k + 1 \in T
      <3>1. k + 1 \in 1..n /\ k + 1 \in 0..r
        BY <1>1, <2>1
      <3>2. P[k] = st[k + 1]
        BY <2>4
      <3>3. st[(k + 1) + 1] = After(st[k + 1], d[st[k + 1]])
        BY <1>1, <3>1
      <3>4. P[k + 1] = After(P[k], d[P[k]])
        BY <2>2
      <3> QED
        BY <3>1, <3>2, <3>3, <3>4
    <2>5. \A k \in 0..r : k \in T
      <3> HIDE DEF T
      <3> QED
        BY <2>1, <2>3, <2>4, UpTo
    <2> TAKE k \in 1..(r + 1)
    <2>6. k - 1 \in 0..r /\ (k - 1) + 1 = k
      BY <2>1
    <2>7. P[k - 1] = st[k]
      BY <2>5, <2>6
    <2> QED
      BY <2>7 DEF SegmentStarts, P
  <1>3. n \in 0..n
    BY <1>1
  <1>4. DOMAIN SegmentStarts(d, root, t) = 1..(t + 1)
    BY DEF SegmentStarts
  <1>5. SegmentStarts(d, root, n) = st
    <2>1. \A k \in 1..(n + 1) : SegmentStarts(d, root, n)[k] = st[k]
      BY <1>2, <1>3
    <2> DEFINE S == SegmentStarts(d, root, n)
    <2>2. S = [k \in 1..(n + 1) |-> S[k]]
      BY DEF SegmentStarts
    <2> HIDE DEF S
    <2>3. \A k \in 1..(n + 1) : S[k] = st[k]
      BY <2>1 DEF S
    <2>4. S = st
      BY <1>1, <2>2, <2>3
    <2> QED
      BY <2>4 DEF S
  <1> QED
    BY <1>2, <1>4, <1>5

\* segment_at finds every segment of a linked layout from the last one.
LEMMA SegmentFound ==
  ASSUME NEW d, NEW end, NEW n, NEW st, NEW sf, NEW sa, Layout(d, DataStart, end, n, st, sf, sa),
         Linked(d, n, st), n < Power[24], NEW target \in 1..n, NEW e \in Int, end <= e
  PROVE  SegmentAt(d, e, n, StartOf(st, n), target) = st[target]
  <1>1. n \in Nat /\ target \in 1..n /\ Power[24] \in Nat
    BY LayoutFacts, Powers
  <1> DEFINE at == Hops(d, e, n, StartOf(st, n), target)
             stops(x) == x.n = target \/ d[st[x.n]].size = 1
             T == {k \in 0..n : /\ at[k].n \in target..n /\ at[k].offset = st[at[k].n]
                                /\ stops(at[k]) \/ at[k].n <= n - k}
  <1>2. /\ at[0] = [n |-> n, offset |-> StartOf(st, n)]
        /\ \A k \in 0..(n - 1) : at[k + 1] = Hop(d, e, at[k], target)
    BY <1>1, HopTurns
  <1> HIDE DEF at
  <1>3. 0 \in T
    <2>1. at[0].n = n /\ at[0].offset = st[n]
      BY <1>1, <1>2 DEF StartOf
    <2> QED
      BY <1>1, <2>1
  <1>4. ASSUME NEW k \in 0..(n - 1), k \in T PROVE k + 1 \in T
    <2> DEFINE x == at[k]
    <2>1. /\ x.n \in target..n /\ x.offset = st[x.n]
          /\ stops(x) \/ x.n <= n - k
      BY <1>4
    <2>2. at[k + 1] = Hop(d, e, x, target) /\ k + 1 \in 0..n
      BY <1>1, <1>2
    <2> HIDE DEF x
    <2>3. x.n \in 1..n /\ x.n # 0
      BY <1>1, <2>1
    <2> DEFINE s == d[st[x.n]]
    <2>4. ReadSegment(d, x.offset, e) = s /\ s # Bad
      <3>1. DataStart <= DataStart
        BY DEF DataStart
      <3> QED
        BY <2>1, <2>3, <3>1, SegmentRead
    <2>5. CASE stops(x)
      <3>1. at[k + 1] = x
        BY <2>2, <2>4, <2>5 DEF Hop
      <3> QED
        BY <2>1, <2>2, <2>5, <3>1
    <2>6. CASE ~ stops(x)
      <3>1. s.size = 2
        <4>1. SegmentWhole(d, st[x.n], sf[x.n], sa[x.n]) /\ st[x.n] \in Nat
          <5>1. x.n \in 1..(n + 1)
            BY <1>1, <2>3
          <5> QED
            BY <2>3, <5>1, LayoutFacts
        <4>2. s.size \in {1, 2}
          BY <4>1, WholeFacts
        <4> QED
          BY <2>6, <4>2
      <3>2. s.previous = StartOf(st, x.n - 1) /\ s.skip = StartOf(st, x.n - LowBit(x.n))
        BY <2>3, <3>1 DEF Linked
      <3>3. LowBit(x.n) \in 1..x.n
        <4>1. x.n \in Nat /\ x.n < Power[24]
          BY <1>1, <2>3
        <4> QED
          BY <2>3, <4>1, BitFacts
      <3>4. CASE x.n - LowBit(x.n) >= target
        <4>1. at[k + 1] = [n |-> x.n - LowBit(x.n), offset |-> s.skip]
          BY <2>2, <2>3, <2>4, <2>6, <3>4 DEF Hop
        <4>2. x.n - LowBit(x.n) \in target..n /\ x.n - LowBit(x.n) # 0 /\ x.n - LowBit(x.n) <= n - (k + 1)
          BY <1>1, <2>1, <2>3, <2>6, <3>3, <3>4
        <4>3. s.skip = st[x.n - LowBit(x.n)]
          BY <3>2, <4>2 DEF StartOf
        <4> QED
          BY <2>2, <4>1, <4>2, <4>3
      <3>5. CASE ~ (x.n - LowBit(x.n) >= target)
        <4>1. at[k + 1] = [n |-> x.n - 1, offset |-> s.previous]
          BY <2>2, <2>3, <2>4, <2>6, <3>5 DEF Hop
        <4>2. x.n - 1 \in target..n /\ x.n - 1 # 0 /\ x.n - 1 <= n - (k + 1)
          BY <1>1, <2>1, <2>3, <2>6
        <4>3. s.previous = st[x.n - 1]
          BY <3>2, <4>2 DEF StartOf
        <4> QED
          BY <2>2, <4>1, <4>2, <4>3
      <3> QED
        BY <3>4, <3>5
    <2> QED
      BY <2>5, <2>6
  <1>5. n \in T
    <2> HIDE DEF T
    <2>1. n \in 0..n
      BY <1>1
    <2> QED
      BY <1>1, <1>3, <1>4, <2>1, UpTo
  <1> DEFINE x == at[n]
  <1>6. x.n \in target..n /\ x.offset = st[x.n] /\ stops(x) /\ x.n # 0 /\ x.n \in 1..n
    BY <1>1, <1>5
  <1>7. ReadSegment(d, x.offset, e) # Bad
    <2>1. DataStart <= DataStart
      BY DEF DataStart
    <2>2. ReadSegment(d, st[x.n], e) = d[st[x.n]] /\ d[st[x.n]] # Bad
      <3> HIDE DEF x
      <3> QED
        BY <1>6, <2>1, SegmentRead
    <2> QED
      BY <1>6, <2>2
  <1>8. SegmentStarts(d, DataStart, target)[target] = st[target]
    <2>1. target \in 0..n /\ target \in 1..(target + 1)
      BY <1>1
    <2> QED
      BY <2>1, StartsFound
  <1>9. SegmentAt(d, e, n, StartOf(st, n), target) =
           IF x.n = target THEN x.offset ELSE SegmentStarts(d, DataStart, target)[target]
    BY <1>6, <1>7 DEF SegmentAt, at
  <1> QED
    BY <1>6, <1>8, <1>9

------------------------------------------------------------------------------
(* Moving and extending what a file holds. *)

\* What file d holds from a to b, file e holds as well, or holds s further on.
Agree(d, e, a, b) == \A o \in Nat : o \in DOMAIN d /\ o >= a /\ o < b => o \in DOMAIN e /\ e[o] = d[o]
Moved(d, e, a, b, s) ==
    \A o \in Nat : o \in DOMAIN d /\ o >= a /\ o < b => o + s \in DOMAIN e /\ e[o + s] = d[o]

\* A part of a file copied by a distance s holds the same frames.
LEMMA FramesMove ==
  ASSUME NEW d, NEW e, NEW a, NEW b, NEW first, NEW fr, NEW at, IsFrames(d, a, b, first, fr, at),
         NEW s \in Int, a + s \in Nat, Moved(d, e, a, b, s)
  PROVE  IsFrames(e, a + s, b + s, first, fr, [i \in 1..(Len(fr) + 1) |-> at[i] + s])
  <1> DEFINE am == [i \in 1..(Len(fr) + 1) |-> at[i] + s]
  <1>1. /\ fr \in Seq(FrameSet) /\ at \in [1..(Len(fr) + 1) -> Nat] /\ Len(fr) \in Nat
        /\ at[1] = a /\ at[Len(fr) + 1] = b
    BY DEF IsFrames
  <1>2. ASSUME NEW i \in 1..(Len(fr) + 1) PROVE at[i] >= a /\ at[i] \in Nat /\ at[i] + s \in Nat
    <2>1. i \in i..(Len(fr) + 1)
      BY <1>1
    <2>2. at[i] \in Nat /\ a \in Nat /\ a <= at[i]
      BY <2>1, FramesGrow
    <2> QED
      BY <2>2
  <1>3. ASSUME NEW i \in 1..Len(fr)
        PROVE  /\ am[i] \in DOMAIN e /\ e[am[i]] = fr[i] /\ fr[i].seq = first + (i - 1)
               /\ am[i + 1] = am[i] + FrameSize(fr[i])
    <2>1. i \in 1..(Len(fr) + 1) /\ i + 1 \in 1..(Len(fr) + 1) /\ i \in i..(Len(fr) + 1) /\ i < Len(fr) + 1
      BY <1>1
    <2>2. at[i] \in DOMAIN d /\ d[at[i]] = fr[i] /\ fr[i].seq = first + (i - 1)
          /\ at[i + 1] = at[i] + FrameSize(fr[i])
      BY DEF IsFrames
    <2>3. fr[i] \in FrameSet
      BY <1>1
    <2>4. FrameSize(fr[i]) \in Nat /\ FrameSize(fr[i]) >= 1
      BY <2>3, FrameFacts
    <2>5. at[i] + FrameSize(fr[i]) <= b /\ b \in Nat
      BY <2>1, FramesGrow
    <2>6. at[i] >= a /\ at[i] < b
      BY <1>2, <2>1, <2>4, <2>5
    <2>7. at[i] + s \in DOMAIN e /\ e[at[i] + s] = d[at[i]]
      BY <1>2, <2>1, <2>2, <2>6 DEF Moved
    <2>8. am[i] = at[i] + s /\ am[i + 1] = at[i + 1] + s
      BY <2>1
    <2>9. (at[i] + FrameSize(fr[i])) + s = (at[i] + s) + FrameSize(fr[i])
      BY <1>2, <2>1, <2>4
    <2> QED
      BY <2>2, <2>7, <2>8, <2>9
  <1>4. am \in [1..(Len(fr) + 1) -> Nat]
    BY <1>2
  <1>5. am[1] = a + s /\ am[Len(fr) + 1] = b + s
    BY <1>1
  <1> HIDE DEF am
  <1> QED
    BY <1>1, <1>3, <1>4, <1>5 DEF IsFrames, am

\* Two files that agree on a part of them hold the same frames there.
LEMMA FramesAgree ==
  ASSUME NEW d, NEW e, NEW a, NEW b, NEW first, NEW fr, NEW at, IsFrames(d, a, b, first, fr, at),
         Agree(d, e, a, b)
  PROVE  IsFrames(e, a, b, first, fr, at)
  <1>1. /\ fr \in Seq(FrameSet) /\ at \in [1..(Len(fr) + 1) -> Nat] /\ Len(fr) \in Nat
        /\ at[1] = a /\ at[Len(fr) + 1] = b
    BY DEF IsFrames
  <1>2. ASSUME NEW i \in 1..Len(fr)
        PROVE  /\ at[i] \in DOMAIN e /\ e[at[i]] = fr[i] /\ fr[i].seq = first + (i - 1)
               /\ at[i + 1] = at[i] + FrameSize(fr[i])
    <2>1. i \in 1..(Len(fr) + 1) /\ i \in i..(Len(fr) + 1) /\ i < Len(fr) + 1
      BY <1>1
    <2>2. at[i] \in DOMAIN d /\ d[at[i]] = fr[i] /\ fr[i].seq = first + (i - 1)
          /\ at[i + 1] = at[i] + FrameSize(fr[i])
      BY DEF IsFrames
    <2>3. fr[i] \in FrameSet
      BY <1>1
    <2>4. FrameSize(fr[i]) \in Nat /\ FrameSize(fr[i]) >= 1
      BY <2>3, FrameFacts
    <2>5. at[i] + FrameSize(fr[i]) <= b /\ b \in Nat /\ a <= at[i] /\ at[i] \in Nat /\ a \in Nat
      BY <2>1, FramesGrow
    <2>6. at[i] >= a /\ at[i] < b
      BY <2>4, <2>5
    <2> QED
      BY <2>2, <2>5, <2>6 DEF Agree
  <1> QED
    BY <1>1, <1>2 DEF IsFrames

\* The headers of n segments are the same in two files.
HeadersKept(d, e, n, st) == \A k \in 1..n : e[st[k]] = d[st[k]]

\* Two files that agree on a part of them have the same layout there.
LEMMA LayoutAgree ==
  ASSUME NEW d, NEW e, NEW root, NEW end, NEW n, NEW st, NEW sf, NEW sa,
         Layout(d, root, end, n, st, sf, sa),
         Agree(d, e, root, end)
  PROVE  /\ Layout(e, root, end, n, st, sf, sa)
         /\ HeadersKept(d, e, n, st)
  <1>1. /\ n \in Nat /\ root \in Nat /\ end \in Nat /\ st[1] = root /\ st[n + 1] = end
        /\ \A k \in 1..(n + 1) : st[k] \in Nat
        /\ \A k \in 1..n : SegmentWhole(d, st[k], sf[k], sa[k]) /\ st[k + 1] = After(st[k], d[st[k]])
                            /\ st[k] + 2 <= st[k + 1]
    BY LayoutFacts
  <1>2. ASSUME NEW k \in 1..n PROVE SegmentWhole(e, st[k], sf[k], sa[k]) /\ e[st[k]] = d[st[k]]
    <2>1. k \in 1..(n + 1) /\ k + 1 \in k..(n + 1) /\ k \in k..(n + 1)
      BY <1>1
    <2>2. root <= st[k] /\ st[k + 1] <= end /\ st[k] \in Nat /\ st[k + 1] \in Nat
      BY <1>1, <2>1, LayoutGrow
    <2>3. SegmentWhole(d, st[k], sf[k], sa[k]) /\ st[k + 1] = After(st[k], d[st[k]]) /\ st[k] + 2 <= st[k + 1]
      BY <1>1
    <2>4. st[k] \in DOMAIN d
      BY <2>3 DEF SegmentWhole
    <2>5. st[k] \in DOMAIN e /\ e[st[k]] = d[st[k]]
      BY <1>1, <2>2, <2>3, <2>4 DEF Agree
    <2>6. d[st[k]].size \in {1, 2}
      BY <2>2, <2>3, WholeFacts
    <2> DEFINE a == st[k] + d[st[k]].size
               b == After(st[k], d[st[k]])
    <2>7. IsFrames(d, a, b, d[st[k]].first, sf[k], sa[k])
      BY <2>3 DEF SegmentWhole
    <2>8. a >= root /\ b <= end /\ a \in Nat /\ b \in Nat
      BY <1>1, <2>2, <2>3, <2>6
    <2>9. Agree(d, e, a, b)
      BY <1>1, <2>8 DEF Agree
    <2> HIDE DEF a, b
    <2>10. IsFrames(e, a, b, d[st[k]].first, sf[k], sa[k])
      BY <2>7, <2>9, FramesAgree
    <2> QED
      BY <2>3, <2>5, <2>10 DEF SegmentWhole, a, b
  <1>3. \A k \in 1..(n - 1) : e[st[k]].last < e[st[k + 1]].first
    <2>1. \A k \in 1..(n - 1) : k \in 1..n /\ k + 1 \in 1..n
      BY <1>1
    <2>2. \A k \in 1..(n - 1) : d[st[k]].last < d[st[k + 1]].first
      BY DEF Layout
    <2> QED
      BY <1>2, <2>1, <2>2
  <1>4. st \in [1..(n + 1) -> Nat]
    BY DEF Layout
  <1>5. \A k \in 1..n : SegmentWhole(e, st[k], sf[k], sa[k]) /\ st[k + 1] = After(st[k], e[st[k]])
    BY <1>1, <1>2
  <1>6. HeadersKept(d, e, n, st)
    BY <1>2 DEF HeadersKept
  <1> QED
    BY <1>1, <1>3, <1>4, <1>5, <1>6 DEF Layout

\* A sequence of n values and one more.
Longer(s, n, x) == [k \in 1..(n + 1) |-> IF k = n + 1 THEN x ELSE s[k]]

\* A whole segment after a layout extends it.
LEMMA LayoutExtends ==
  ASSUME NEW d, NEW e, NEW root, NEW end, NEW n, NEW st, NEW sf, NEW sa,
         Layout(d, root, end, n, st, sf, sa), Agree(d, e, root, end),
         NEW fr, NEW at, SegmentWhole(e, end, fr, at), n # 0 => d[st[n]].last < e[end].first
  PROVE  /\ Layout(e, root, After(end, e[end]), n + 1, Longer(st, n + 1, After(end, e[end])),
                   Longer(sf, n, fr), Longer(sa, n, at))
         /\ \A k \in 1..(n + 1) : Longer(st, n + 1, After(end, e[end]))[k] = st[k]
         /\ \A k \in 1..n : e[st[k]] = d[st[k]] /\ Longer(sf, n, fr)[k] = sf[k]
                                              /\ Longer(sa, n, at)[k] = sa[k]
         /\ Longer(sf, n, fr)[n + 1] = fr /\ Longer(sa, n, at)[n + 1] = at /\ st[n + 1] = end
  <1> DEFINE after == After(end, e[end])
             tt == Longer(st, n + 1, after)
             ff == Longer(sf, n, fr)
             aa == Longer(sa, n, at)
  <1>1. /\ n \in Nat /\ root \in Nat /\ end \in Nat /\ st[1] = root /\ st[n + 1] = end
        /\ \A k \in 1..(n + 1) : st[k] \in Nat
    BY LayoutFacts
  <1>2. Layout(e, root, end, n, st, sf, sa) /\ \A k \in 1..n : e[st[k]] = d[st[k]]
    <2>1. Layout(e, root, end, n, st, sf, sa) /\ HeadersKept(d, e, n, st)
      BY LayoutAgree
    <2> QED
      BY <2>1 DEF HeadersKept
  <1>3. /\ \A k \in 1..n : SegmentWhole(e, st[k], sf[k], sa[k]) /\ st[k + 1] = After(st[k], e[st[k]])
        /\ \A k \in 1..(n - 1) : e[st[k]].last < e[st[k + 1]].first
    BY <1>2 DEF Layout
  <1>4. after \in Nat
    BY <1>1, WholeFacts
  <1>5. /\ \A k \in 1..(n + 1) : tt[k] = st[k]
        /\ tt[n + 2] = after
        /\ tt \in [1..(n + 2) -> Nat]
    BY <1>1, <1>4 DEF Longer
  <1>6. /\ \A k \in 1..n : ff[k] = sf[k] /\ aa[k] = sa[k]
        /\ ff[n + 1] = fr /\ aa[n + 1] = at
    BY <1>1 DEF Longer
  <1> HIDE DEF after, tt, ff, aa
  <1>7. ASSUME NEW k \in 1..(n + 1)
        PROVE  SegmentWhole(e, tt[k], ff[k], aa[k]) /\ tt[k + 1] = After(tt[k], e[tt[k]])
    <2>1. CASE k = n + 1
      <3>1. tt[k] = end /\ tt[k + 1] = after /\ ff[k] = fr /\ aa[k] = at
        BY <1>1, <1>5, <1>6, <2>1
      <3> QED
        BY <3>1 DEF after
    <2>2. CASE k # n + 1
      <3>1. k \in 1..n /\ k \in 1..(n + 1) /\ k + 1 \in 1..(n + 1)
        BY <1>1, <2>2
      <3> QED
        BY <1>3, <1>5, <1>6, <3>1
    <2> QED
      BY <2>1, <2>2
  <1>8. ASSUME NEW k \in 1..((n + 1) - 1) PROVE e[tt[k]].last < e[tt[k + 1]].first
    <2>1. k \in 1..(n + 1) /\ k + 1 \in 1..(n + 1) /\ k \in 1..n /\ n # 0
      BY <1>1
    <2>2. tt[k] = st[k] /\ tt[k + 1] = st[k + 1]
      BY <1>5, <2>1
    <2>3. CASE k = n
      BY <1>1, <1>2, <2>1, <2>2, <2>3
    <2>4. CASE k # n
      <3>1. k \in 1..(n - 1)
        BY <1>1, <2>4
      <3> QED
        BY <1>3, <2>2, <3>1
    <2> QED
      BY <2>3, <2>4
  <1>9. 1 \in 1..(n + 1) /\ n + 1 \in Nat /\ (n + 1) + 1 = n + 2
    BY <1>1
  <1>10. Layout(e, root, after, n + 1, tt, ff, aa)
    BY <1>1, <1>5, <1>7, <1>8, <1>9 DEF Layout
  <1> QED
    BY <1>1, <1>2, <1>5, <1>6, <1>10 DEF after, tt, ff, aa

\* A new header with the links of its number keeps every header linked.
LEMMA LinkedExtends ==
  ASSUME NEW d, NEW e, NEW n \in Nat, NEW st, NEW tt, Linked(d, n, st), n + 1 < Power[24],
         \A k \in 1..(n + 1) : tt[k] = st[k],
         \A k \in 1..n : e[st[k]] = d[st[k]],
         IF e[st[n + 1]].size = 2
         THEN e[st[n + 1]].previous = StartOf(st, n) /\ e[st[n + 1]].skip = StartOf(st, (n + 1) - LowBit(n + 1))
         ELSE e[st[n + 1]].previous = 0 /\ e[st[n + 1]].skip = 0
  PROVE  Linked(e, n + 1, tt)
  <1>0. Power[24] \in Nat
    BY Powers, 24 \in 0..24
  <1>1. ASSUME NEW k \in 1..(n + 1)
        PROVE  IF e[tt[k]].size = 2
               THEN e[tt[k]].previous = StartOf(tt, k - 1) /\ e[tt[k]].skip = StartOf(tt, k - LowBit(k))
               ELSE e[tt[k]].previous = 0 /\ e[tt[k]].skip = 0
    <2>1. k \in Nat /\ k # 0 /\ k < Power[24]
      BY <1>0
    <2>2. LowBit(k) \in 1..k
      BY <2>1, BitFacts
    <2>3. k - 1 \in 0..n /\ k - LowBit(k) \in 0..n
      BY <2>2
    <2>4. StartOf(tt, k - 1) = StartOf(st, k - 1) /\ StartOf(tt, k - LowBit(k)) = StartOf(st, k - LowBit(k))
      <3>1. \A i \in 0..n : i = 0 \/ i \in 1..(n + 1)
        OBVIOUS
      <3> QED
        BY <2>3, <3>1 DEF StartOf
    <2>5. tt[k] = st[k]
      OBVIOUS
    <2>6. CASE k = n + 1
      <3>1. k - 1 = n
        BY <2>6
      <3> QED
        BY <2>4, <2>5, <2>6, <3>1
    <2>7. CASE k # n + 1
      <3>1. k \in 1..n
        BY <2>7
      <3>2. IF d[st[k]].size = 2
            THEN d[st[k]].previous = StartOf(st, k - 1) /\ d[st[k]].skip = StartOf(st, k - LowBit(k))
            ELSE d[st[k]].previous = 0 /\ d[st[k]].skip = 0
        BY <3>1 DEF Linked
      <3> QED
        BY <2>4, <2>5, <3>1, <3>2
    <2> QED
      BY <2>6, <2>7
  <1> QED
    BY <1>1 DEF Linked

\* The table of the layout and of the layout extended are the same up to there.
LEMMA TableSame ==
  ASSUME NEW st, NEW tt, NEW n \in Nat, n < Power[24], \A k \in 1..n : tt[k] = st[k]
  PROVE  Table(tt, n) = Table(st, n)
  <1>1. ASSUME NEW b \in Bits PROVE StartOf(tt, n - (n % Power[b])) = StartOf(st, n - (n % Power[b]))
    <2>1. b \in 0..24
      BY DEF Bits
    <2>2. Power[b] \in Nat \ {0}
      BY <2>1, Powers
    <2> DEFINE q == n \div Power[b]
               r == n % Power[b]
    <2>3. q \in Nat /\ r \in 0..(Power[b] - 1) /\ n = (Power[b] * q) + r
      BY <2>2, Quotient
    <2> HIDE DEF q, r
    <2>4. Power[b] * q \in Nat
      BY <2>2, <2>3
    <2>5. n - r \in 0..n
      BY <2>2, <2>3, <2>4
    <2>6. n - r = 0 \/ n - r \in 1..n
      BY <2>5
    <2>7. StartOf(tt, n - r) = StartOf(st, n - r)
      BY <2>6 DEF StartOf
    <2> QED
      BY <2>7 DEF r
  <1> QED
    BY <1>1 DEF Table

------------------------------------------------------------------------------
(* What check_segments finds. *)

\* What a header says about the times of its batches.
HeaderTimes(s, fr) ==
    /\ \A i \in 1..Len(fr) : \A t \in TimesOf(fr[i]) : s.minimum <= t /\ t <= s.maximum
    /\ s.size = 1 => ~s.ordered
    /\ s.ordered => /\ Ordered(fr)
                    /\ s.minimum = FirstTimeOf(fr[1]) /\ s.maximum = LastTimeOf(fr[Len(fr)])

TimesKept(d, n, st, sf) == \A k \in 1..n : HeaderTimes(d[st[k]], sf[k])

\* The ordered suffix of n segments starts at segment x.
SpanIs(d, st, n, x) ==
    /\ x \in 1..(n + 1)
    /\ \A k \in x..n : d[st[k]].ordered
    /\ \A k \in (x + 1)..n : d[st[k]].minimum >= d[st[k - 1]].maximum
    /\ x > 1 => ~d[st[x - 1]].ordered \/ (x <= n /\ d[st[x]].minimum < d[st[x - 1]].maximum)

\* There is one such suffix.
LEMMA SpanUnique ==
  ASSUME NEW d, NEW st, NEW n \in Nat, NEW x, NEW y, SpanIs(d, st, n, x), SpanIs(d, st, n, y),
         \A k \in 1..n : d[st[k]].minimum \in Int /\ d[st[k]].maximum \in Int
  PROVE  x = y
  <1>1. ASSUME NEW u, NEW v, SpanIs(d, st, n, u), SpanIs(d, st, n, v), u < v PROVE FALSE
    <2>1. /\ u \in 1..(n + 1) /\ v \in 1..(n + 1)
          /\ \A k \in u..n : d[st[k]].ordered
          /\ \A k \in (u + 1)..n : d[st[k]].minimum >= d[st[k - 1]].maximum
          /\ v > 1 => ~d[st[v - 1]].ordered \/ (v <= n /\ d[st[v]].minimum < d[st[v - 1]].maximum)
      BY <1>1 DEF SpanIs
    <2>2. v > 1 /\ v - 1 \in u..n
      BY <1>1, <2>1
    <2>3. d[st[v - 1]].ordered
      BY <2>1, <2>2
    <2>4. v <= n /\ d[st[v]].minimum < d[st[v - 1]].maximum
      BY <2>1, <2>2, <2>3
    <2>5. v \in (u + 1)..n /\ v \in 1..n /\ v - 1 \in 1..n
      BY <1>1, <2>1, <2>2, <2>4
    <2>6. d[st[v]].minimum >= d[st[v - 1]].maximum
      BY <2>1, <2>5
    <2> QED
      BY <2>4, <2>5, <2>6
  <1>2. x \in Int /\ y \in Int
    BY DEF SpanIs
  <1>3. ~(x < y)
    BY <1>1
  <1>4. ~(y < x)
    BY <1>1
  <1> QED
    BY <1>2, <1>3, <1>4

\* The start of the ordered suffix after one more segment.
NextSpan(s, n, pm, x) == IF ~s.ordered THEN n + 2 ELSE IF s.minimum < pm THEN n + 1 ELSE x

\* A file e has the first n headers of file d, whose ordered suffix starts at x,
\* and pm is the greatest time of the last of them if it belongs to the suffix.
SpanGoesOn(d, st, e, tt, n, x, pm) ==
    /\ SpanIs(d, st, n, x)
    /\ \A k \in 1..n : e[tt[k]] = d[st[k]]
    /\ e[tt[n + 1]].minimum \in Int
    /\ x <= n => pm = d[st[n]].maximum

\* Then it is the start of the ordered suffix with one more segment.
LEMMA SpanNext ==
  ASSUME NEW d, NEW st, NEW e, NEW tt, NEW n \in Nat, NEW x, NEW pm \in Int,
         SpanGoesOn(d, st, e, tt, n, x, pm)
  PROVE  SpanIs(e, tt, n + 1, NextSpan(e[tt[n + 1]], n, pm, x))
  <1> DEFINE s == e[tt[n + 1]]
  <1> SUFFICES ASSUME SpanIs(d, st, n, x), \A k \in 1..n : e[tt[k]] = d[st[k]],
                      e[tt[n + 1]].minimum \in Int, x <= n => pm = d[st[n]].maximum
               PROVE  SpanIs(e, tt, n + 1, NextSpan(e[tt[n + 1]], n, pm, x))
    BY DEF SpanGoesOn
  <1>1. /\ x \in 1..(n + 1)
        /\ \A k \in x..n : e[tt[k]].ordered
        /\ \A k \in (x + 1)..n : e[tt[k]].minimum >= e[tt[k - 1]].maximum
        /\ x > 1 => ~e[tt[x - 1]].ordered \/ (x <= n /\ e[tt[x]].minimum < e[tt[x - 1]].maximum)
    <2>1. /\ x \in 1..(n + 1)
          /\ \A k \in x..n : d[st[k]].ordered
          /\ \A k \in (x + 1)..n : d[st[k]].minimum >= d[st[k - 1]].maximum
          /\ x > 1 => ~d[st[x - 1]].ordered \/ (x <= n /\ d[st[x]].minimum < d[st[x - 1]].maximum)
      BY DEF SpanIs
    <2>2. \A k \in x..n : k \in 1..n
      BY <2>1
    <2>3. \A k \in (x + 1)..n : k \in 1..n /\ k - 1 \in 1..n
      BY <2>1
    <2>4. x > 1 => x - 1 \in 1..n
      BY <2>1
    <2>5. x <= n => x \in 1..n
      BY <2>1
    <2>6. x > 1 => ~e[tt[x - 1]].ordered \/ (x <= n /\ e[tt[x]].minimum < e[tt[x - 1]].maximum)
      BY <2>1, <2>4, <2>5
    <2>7. \A k \in (x + 1)..n : e[tt[k]].minimum >= e[tt[k - 1]].maximum
      BY <2>1, <2>3
    <2> QED
      BY <2>1, <2>2, <2>6, <2>7
  <1>2. CASE ~s.ordered
    <2>1. NextSpan(s, n, pm, x) = n + 2
      BY <1>2 DEF NextSpan
    <2>2. (n + 2) - 1 = n + 1 /\ n + 2 \in 1..((n + 1) + 1) /\ (n + 2)..(n + 1) = {} /\ ((n + 2) + 1)..(n + 1) = {}
      OBVIOUS
    <2> QED
      BY <1>2, <2>1, <2>2 DEF SpanIs
  <1>3. CASE s.ordered /\ s.minimum < pm
    <2>1. NextSpan(s, n, pm, x) = n + 1
      BY <1>3 DEF NextSpan
    <2>2. /\ n + 1 \in 1..((n + 1) + 1)
          /\ \A k \in (n + 1)..(n + 1) : k = n + 1
          /\ ((n + 1) + 1)..(n + 1) = {}
          /\ (n + 1) - 1 = n
      OBVIOUS
    <2>3. n + 1 > 1 => ~e[tt[n]].ordered \/ s.minimum < e[tt[n]].maximum
      <3>1. CASE x <= n
        <4>1. n \in 1..n
          BY <1>1, <3>1
        <4>2. e[tt[n]] = d[st[n]]
          BY <4>1
        <4> QED
          BY <1>3, <3>1, <4>2
      <3>2. CASE ~(x <= n)
        <4>1. x = n + 1 /\ x - 1 = n
          BY <1>1, <3>2
        <4> QED
          BY <1>1, <3>2, <4>1
      <3> QED
        BY <3>1, <3>2
    <2> QED
      BY <1>3, <2>1, <2>2, <2>3 DEF SpanIs
  <1>4. CASE s.ordered /\ ~(s.minimum < pm)
    <2>1. NextSpan(s, n, pm, x) = x
      BY <1>4 DEF NextSpan
    <2>2. ASSUME NEW k \in x..(n + 1) PROVE e[tt[k]].ordered
      <3>1. k = n + 1 \/ k \in x..n
        BY <1>1
      <3> QED
        BY <1>1, <1>4, <3>1
    <2>3. ASSUME NEW k \in (x + 1)..(n + 1) PROVE e[tt[k]].minimum >= e[tt[k - 1]].maximum
      <3>1. CASE k = n + 1
        <4>1. k - 1 = n /\ x <= n /\ n \in 1..n
          BY <1>1, <3>1
        <4>2. e[tt[n]] = d[st[n]]
          BY <4>1
        <4>3. s.minimum >= pm
          BY <1>4
        <4> QED
          BY <3>1, <4>1, <4>2, <4>3
      <3>2. CASE k # n + 1
        <4>1. k \in (x + 1)..n
          BY <1>1, <3>2
        <4> QED
          BY <1>1, <4>1
      <3> QED
        BY <3>1, <3>2
    <2>4. x \in 1..((n + 1) + 1) /\ (x <= n => x <= n + 1)
      BY <1>1
    <2> QED
      BY <1>1, <2>1, <2>2, <2>3, <2>4 DEF SpanIs
  <1> QED
    BY <1>2, <1>3, <1>4

\* The last sequence of n segments, and segments without gaps between them.
LastOf(d, st, n) == IF n = 0 THEN 0 ELSE d[st[n]].last
Numbered(d, st, n) == \A k \in 1..n : d[st[k]].first = LastOf(d, st, k - 1) + 1

\* What the walk knows after k segments.
Walked(d, st, k, acc) ==
    /\ acc.ok = TRUE /\ acc.n = k /\ acc.seq = LastOf(d, st, k)
    /\ acc.previous = StartOf(st, k) /\ acc.at = st[k + 1] /\ acc.table = Table(st, k)
    /\ SpanIs(d, st, k, acc.span)
    /\ acc.priorMax = IF k = 0 \/ d[st[k]].size = 1 THEN 0 ELSE d[st[k]].maximum

\* check_segments accepts a linked layout and finds its last segment, its last
\* sequence and the start of its ordered suffix.
LEMMA CheckFound ==
  ASSUME NEW d, NEW m, NEW st, NEW sf, NEW sa, Layout(d, DataStart, m.end, m.count, st, sf, sa),
         Linked(d, m.count, st), TimesKept(d, m.count, st, sf), m.count < Power[24],
         m.retain \in BOOLEAN, ~m.retain => Numbered(d, st, m.count)
  PROVE  Walked(d, st, m.count, CheckWalk(d, m)[m.count])
  <1> DEFINE n == m.count
             walk == CheckWalk(d, m)
             T == {k \in 0..n : Walked(d, st, k, walk[k])}
  <1>1. /\ n \in Nat /\ DataStart \in Nat /\ m.end \in Nat /\ st[1] = DataStart /\ st[n + 1] = m.end
        /\ \A k \in 1..(n + 1) : st[k] \in Nat
        /\ \A k \in 1..n : SegmentWhole(d, st[k], sf[k], sa[k]) /\ st[k + 1] = After(st[k], d[st[k]])
                            /\ st[k] + 2 <= st[k + 1]
    BY LayoutFacts
  <1>0. Power[24] \in Nat
    BY Powers, 24 \in 0..24
  <1>2. /\ walk[0] = CheckStart
        /\ \A k \in 0..(n - 1) : walk[k + 1] = CheckSegment(d, m, walk[k])
    BY <1>1, CheckTurns
  <1> HIDE DEF walk
  <1>3. 0 \in T
    <2>1. SpanIs(d, st, 0, 1)
      BY DEF SpanIs
    <2>2. 0 + 1 = 1
      OBVIOUS
    <2> QED
      BY <1>1, <1>2, <2>1, <2>2, TableEmpty DEF Walked, CheckStart, LastOf, StartOf
  <1>4. ASSUME NEW k \in 0..(n - 1), k \in T PROVE k + 1 \in T
    <2> DEFINE acc == walk[k]
               s == d[st[k + 1]]
    <2>1. Walked(d, st, k, acc)
      BY <1>4
    <2>2. walk[k + 1] = CheckSegment(d, m, acc)
      BY <1>2
    <2>3. k + 1 \in 1..n /\ k + 1 \in 1..(n + 1) /\ k + 1 # 0 /\ (k + 1) - 1 = k /\ k \in Nat /\ k + 1 \in Nat
          /\ k + 1 \in 0..n
      BY <1>1
    <2>4. ReadSegment(d, st[k + 1], m.end) = s /\ s # Bad
      BY <1>1, <2>3, SegmentRead
    <2>5. /\ s.size \in {1, 2} /\ s.first \in 1..SeqMax /\ s.last \in 1..SeqMax /\ s.minimum \in Times
          /\ s.maximum \in Times
      BY <1>1, <2>3, WholeFacts
    <2>6. HeaderTimes(s, sf[k + 1])
      BY <2>3 DEF TimesKept
    <2>7. LastOf(d, st, k) \in 0..SeqMax /\ s.first > LastOf(d, st, k)
      <3>1. CASE k = 0
        BY <2>5, <3>1, LimitAssumption DEF LastOf
      <3>2. CASE k # 0
        <4>1. k \in 1..n /\ k \in 1..(n - 1) /\ k \in 1..(n + 1)
          BY <1>1, <3>2
        <4>2. d[st[k]].last \in 1..SeqMax
          BY <1>1, <4>1, WholeFacts
        <4>3. d[st[k]].last < d[st[k + 1]].first
          BY <4>1 DEF Layout
        <4> QED
          BY <2>5, <3>2, <4>2, <4>3, LimitAssumption DEF LastOf
      <3> QED
        BY <3>1, <3>2
    <2>8. m.retain \/ s.first = LastOf(d, st, k) + 1
      BY <2>3 DEF Numbered
    <2>9. s.size = 2 => s.previous = StartOf(st, k) /\ s.skip = Table(st, k)[BitOf(k + 1)]
      <3>1. k + 1 < Power[24]
        BY <1>0, <1>1
      <3>2. Table(st, (k + 1) - 1)[BitOf(k + 1)] = StartOf(st, (k + 1) - LowBit(k + 1))
        BY <2>3, <3>1, TableSkip
      <3> QED
        BY <2>3, <3>2 DEF Linked
    <2>10. RecordOffset(Table(st, k), k + 1, st[k + 1]) = Table(st, k + 1)
      <3>1. k + 1 < Power[24]
        BY <1>0, <1>1
      <3>2. RecordOffset(Table(st, (k + 1) - 1), k + 1, st[k + 1]) = Table(st, k + 1)
        BY <2>3, <3>1, TableNext
      <3> QED
        BY <2>3, <3>2
    <2> DEFINE pm == acc.priorMax
               span == IF s.size = 1 \/ ~s.ordered THEN (k + 1) + 1
                       ELSE IF s.minimum < pm THEN k + 1 ELSE acc.span
    <2>11. SpanIs(d, st, k + 1, span)
      <3>1. SpanIs(d, st, k, acc.span) /\ pm = IF k = 0 \/ d[st[k]].size = 1 THEN 0 ELSE d[st[k]].maximum
        BY <2>1 DEF Walked
      <3>2. k # 0 => d[st[k]].size \in {1, 2} /\ d[st[k]].maximum \in Times /\ HeaderTimes(d[st[k]], sf[k])
        <4>1. SUFFICES ASSUME k # 0
                       PROVE  d[st[k]].size \in {1, 2} /\ d[st[k]].maximum \in Times
                              /\ HeaderTimes(d[st[k]], sf[k])
          OBVIOUS
        <4>2. k \in 1..n /\ k \in 1..(n + 1)
          BY <1>1, <4>1
        <4> QED
          BY <1>1, <4>2, WholeFacts DEF TimesKept
      <3>3. pm \in Int
        BY <3>1, <3>2, LimitAssumption DEF Times
      <3>4. acc.span <= k => pm = d[st[k]].maximum
        <4>1. SUFFICES ASSUME acc.span <= k PROVE pm = d[st[k]].maximum
          OBVIOUS
        <4>2. acc.span \in 1..(k + 1) /\ \A i \in (acc.span)..k : d[st[i]].ordered
          BY <3>1 DEF SpanIs
        <4>3. k # 0 /\ k \in (acc.span)..k
          BY <2>3, <4>1, <4>2
        <4>4. d[st[k]].ordered
          BY <4>2, <4>3
        <4>5. d[st[k]].size # 1
          BY <3>2, <4>3, <4>4 DEF HeaderTimes
        <4> QED
          BY <3>1, <4>3, <4>5
      <3>5. s.minimum \in Int
        BY <2>5, LimitAssumption DEF Times
      <3>6. SpanIs(d, st, k + 1, NextSpan(s, k, pm, acc.span))
        BY <2>3, <3>1, <3>3, <3>4, <3>5, SpanNext DEF SpanGoesOn
      <3>7. s.size = 1 => ~s.ordered
        BY <2>6 DEF HeaderTimes
      <3>8. (k + 1) + 1 = k + 2
        BY <2>3
      <3>9. span = NextSpan(s, k, pm, acc.span)
        BY <3>7, <3>8 DEF NextSpan
      <3> QED
        BY <3>6, <3>9
    <2>12. CheckSegment(d, m, acc) =
             [ok |-> TRUE, n |-> k + 1, seq |-> s.last, previous |-> st[k + 1],
              at |-> After(st[k + 1], s), table |-> Table(st, k + 1), span |-> span,
              priorMax |-> IF s.size = 1 THEN 0 ELSE s.maximum]
      <3>1. /\ acc.ok = TRUE /\ acc.n = k /\ acc.seq = LastOf(d, st, k)
            /\ acc.previous = StartOf(st, k) /\ acc.at = st[k + 1] /\ acc.table = Table(st, k)
        BY <2>1 DEF Walked
      <3>2. (/\ LastOf(d, st, k) # SeqMax /\ s.first > LastOf(d, st, k)
             /\ m.retain \/ s.first = LastOf(d, st, k) + 1
             /\ s.size = 2 => s.previous = StartOf(st, k) /\ s.skip = Table(st, k)[BitOf(k + 1)]) = TRUE
        BY <2>5, <2>7, <2>8, <2>9, LimitAssumption
      <3> HIDE DEF acc, s
      <3> QED
        BY <2>4, <2>10, <3>1, <3>2 DEF CheckSegment
    <2>13. st[k + 2] = After(st[k + 1], s) /\ (k + 1) + 1 = k + 2
      <3>1. (k + 1) + 1 = k + 2
        BY <2>3
      <3> QED
        BY <1>1, <2>3, <3>1
    <2> HIDE DEF span
    <2>14. Walked(d, st, k + 1, walk[k + 1])
      BY <2>2, <2>3, <2>11, <2>12, <2>13 DEF Walked, LastOf, StartOf
    <2> QED
      BY <2>3, <2>14
  <1>5. n \in T
    <2> HIDE DEF T
    <2>1. \A k \in 0..n : k \in T
      BY <1>1, <1>3, <1>4, UpTo
    <2> QED
      BY <1>1, <2>1
  <1> QED
    BY <1>5 DEF walk

------------------------------------------------------------------------------
(* What an open finds. *)

\* The least and the greatest element of a set.
LEMMA MinIs ==
  ASSUME NEW S, S \subseteq Int, NEW x \in S, \A y \in S : x <= y
  PROVE  Min(S) = x
  <1>1. \E z \in S : \A y \in S : z <= y
    OBVIOUS
  <1>2. Min(S) \in S /\ \A y \in S : Min(S) <= y
    BY <1>1 DEF Min
  <1>3. Min(S) \in Int /\ x \in Int /\ Min(S) <= x /\ x <= Min(S)
    BY <1>2
  <1> QED
    BY <1>3

\* An element that no other exceeds is the greatest.
LEMMA MaxIs ==
  ASSUME NEW S, S \subseteq Int, NEW x \in S, \A y \in S : x >= y
  PROVE  Max(S) = x
  <1>1. \E z \in S : \A y \in S : z >= y
    OBVIOUS
  <1>2. Max(S) \in S /\ \A y \in S : Max(S) >= y
    BY <1>1 DEF Max
  <1>3. Max(S) \in Int /\ x \in Int /\ Max(S) >= x /\ x >= Max(S)
    BY <1>2
  <1> QED
    BY <1>3

\* A set of natural numbers has its least element.
LEMMA MinExists ==
  ASSUME NEW S, S \subseteq Nat, S # {}
  PROVE  Min(S) \in S /\ \A y \in S : Min(S) <= y
  <1>1. PICK x \in S : \A y \in S : x <= y
    BY LeastNat
  <1>2. Min(S) = x
    <2>1. S \subseteq Int
      OBVIOUS
    <2> QED
      BY <1>1, <2>1, MinIs
  <1> QED
    BY <1>1, <1>2

\* A bounded set of natural numbers has its greatest element.
LEMMA MaxExists ==
  ASSUME NEW S, NEW b \in Nat, S \subseteq 0..b, S # {}
  PROVE  Max(S) \in S /\ \A y \in S : Max(S) >= y
  <1> DEFINE T == {b - y : y \in S}
  <1>0. ASSUME NEW y \in S PROVE b - y \in Nat
    <2>1. y \in 0..b
      OBVIOUS
    <2> QED
      BY <2>1
  <1>1. T \subseteq Nat /\ T # {}
    <2>1. T \subseteq Nat
      BY <1>0
    <2>2. PICK y : y \in S
      OBVIOUS
    <2>3. b - y \in T
      BY <2>2
    <2> QED
      BY <2>1, <2>3
  <1>2. PICK z \in T : \A y \in T : z <= y
    <2> HIDE DEF T
    <2> QED
      BY <1>1, LeastNat
  <1>3. PICK x \in S : z = b - x
    BY <1>2
  <1>4. ASSUME NEW y \in S PROVE x >= y
    <2>1. b - y \in T
      OBVIOUS
    <2>2. b - x <= b - y
      BY <1>2, <1>3, <2>1
    <2>3. x \in Int /\ y \in Int
      OBVIOUS
    <2> QED
      BY <2>2, <2>3
  <1>5. Max(S) = x
    <2>1. S \subseteq Int
      OBVIOUS
    <2> QED
      BY <1>4, <2>1, MaxIs
  <1> QED
    BY <1>4, <1>5

\* The times of the log.
AllTimes(fr) == UNION {TimesOf(fr[i]) : i \in DOMAIN fr}

\* They lie between the least and the greatest of them.
LEMMA AllTimesFacts ==
  ASSUME NEW fr \in Seq(FrameSet), fr # <<>>
  PROVE  /\ AllTimes(fr) \subseteq Times /\ AllTimes(fr) \subseteq Nat /\ AllTimes(fr) # {}
         /\ Min(AllTimes(fr)) \in AllTimes(fr) /\ Max(AllTimes(fr)) \in AllTimes(fr)
         /\ \A t \in AllTimes(fr) : Min(AllTimes(fr)) <= t /\ Max(AllTimes(fr)) >= t
  <1> DEFINE S == AllTimes(fr)
  <1>1. Len(fr) \in Nat /\ Len(fr) >= 1 /\ DOMAIN fr = 1..Len(fr) /\ 1 \in DOMAIN fr
    OBVIOUS
  <1>2. S \subseteq Times
    <2>1. ASSUME NEW i \in DOMAIN fr PROVE TimesOf(fr[i]) \subseteq Times
      <3>1. fr[i] \in FrameSet
        BY <1>1
      <3>2. \A k \in DOMAIN fr[i].records : fr[i].records[k].time \in Times
        BY <3>1, FrameFacts
      <3> QED
        BY <3>2 DEF TimesOf
    <2> QED
      BY <2>1 DEF AllTimes
  <1>3. S # {}
    <2>1. fr[1] \in FrameSet
      BY <1>1
    <2>2. fr[1].records \in Seq(Records) /\ fr[1].records # <<>>
      BY <2>1, FrameFacts
    <2>3. 1 \in DOMAIN fr[1].records
      BY <2>2
    <2>4. fr[1].records[1].time \in TimesOf(fr[1])
      BY <2>3 DEF TimesOf
    <2> QED
      BY <1>1, <2>4 DEF AllTimes
  <1>4. Times \subseteq Nat /\ Times = 0..TimeMax /\ TimeMax \in Nat
    BY LimitAssumption DEF Times
  <1> HIDE DEF S
  <1>5. Min(S) \in S /\ \A y \in S : Min(S) <= y
    <2>1. S \subseteq Nat
      BY <1>2, <1>4
    <2> QED
      BY <1>3, <2>1, MinExists
  <1>6. Max(S) \in S /\ \A y \in S : Max(S) >= y
    <2>1. S \subseteq 0..TimeMax
      BY <1>2, <1>4
    <2> QED
      BY <1>3, <1>4, <2>1, MaxExists
  <1> QED
    BY <1>2, <1>3, <1>4, <1>5, <1>6 DEF S

\* Walking the frames of a segment finds them.
LEMMA SegmentFramesFound ==
  ASSUME NEW d, Cells(d), NEW o \in Nat, NEW fr, NEW at, SegmentWhole(d, o, fr, at)
  PROVE  SegmentFrames(d, o) = fr
  <1>1. IsFrames(d, o + d[o].size, After(o, d[o]), d[o].first, fr, at)
    BY DEF SegmentWhole
  <1>2. d[o].first \in Int
    BY WholeFacts
  <1>3. FramesFrom(d, o + d[o].size, After(o, d[o]), d[o].first) = fr
    BY <1>1, <1>2, FramesFound
  <1> QED
    BY <1>3 DEF SegmentFrames

\* The segments of a database: where they end, how many they are, the last
\* sequence installed, whether retention has removed any, and the last time.
Segments(d, end, n, last, retain, time, st, sf, sa) ==
    /\ Cells(d) /\ \A o \in DOMAIN d : DataStart <= o /\ o < end
    /\ Layout(d, DataStart, end, n, st, sf, sa) /\ Linked(d, n, st) /\ TimesKept(d, n, st, sf)
    /\ end <= DbCapacity
    /\ last \in 0..SeqMax /\ retain \in BOOLEAN /\ time \in Times
    /\ IF retain THEN LastOf(d, st, n) <= last ELSE LastOf(d, st, n) = last /\ Numbered(d, st, n)
    /\ ~retain /\ n # 0 => time = LastTimeOf(sf[n][Len(sf[n])])

\* What the manifest says about their time and their tail.
ManifestTimes(m, time, tail) ==
    /\ m.hasTime \in BOOLEAN
    /\ m.hasTime => m.tail = tail
    /\ m.hasTime \/ m.count = 0 => m.time = time
    /\ ~m.hasTime => ~m.retain

\* What check_segments yields for them.
LEMMA CheckResult ==
  ASSUME NEW d, NEW m, NEW time, NEW st, NEW sf, NEW sa,
         Segments(d, m.end, m.count, m.last, m.retain, time, st, sf, sa),
         ManifestTimes(m, time, StartOf(st, m.count))
  PROVE  /\ CheckSegments(d, m).ok = TRUE
         /\ CheckSegments(d, m).tail = StartOf(st, m.count)
         /\ CheckSegments(d, m).time = time
         /\ SpanIs(d, st, m.count, CheckSegments(d, m).span)
  <1> DEFINE n == m.count
             walked == CheckWalk(d, m)[m.count]
             tail == walked.previous
  <1>1. /\ Cells(d) /\ Layout(d, DataStart, m.end, n, st, sf, sa) /\ Linked(d, n, st)
        /\ TimesKept(d, n, st, sf) /\ m.end <= DbCapacity
        /\ m.last \in 0..SeqMax /\ m.retain \in BOOLEAN
        /\ IF m.retain THEN LastOf(d, st, n) <= m.last ELSE LastOf(d, st, n) = m.last /\ Numbered(d, st, n)
        /\ ~m.retain /\ n # 0 => time = LastTimeOf(sf[n][Len(sf[n])])
    BY DEF Segments
  <1>2. /\ n \in Nat /\ st[n + 1] = m.end /\ m.end \in Nat /\ st[1] = DataStart
        /\ \A k \in 1..(n + 1) : st[k] \in Nat
        /\ \A k \in 1..n : SegmentWhole(d, st[k], sf[k], sa[k]) /\ st[k + 1] = After(st[k], d[st[k]])
                            /\ st[k] + 2 <= st[k + 1]
    BY <1>1, LayoutFacts
  <1>3. n < Power[24]
    BY <1>1, TableCovers DEF DataStart
  <1>4. Walked(d, st, n, walked)
    BY <1>1, <1>3, CheckFound
  <1>5. /\ walked.ok = TRUE /\ walked.seq = LastOf(d, st, n) /\ tail = StartOf(st, n)
        /\ walked.at = m.end /\ SpanIs(d, st, n, walked.span)
    BY <1>2, <1>4 DEF Walked
  <1>6. n # 0 => /\ tail = st[n] /\ tail # 0 /\ SegmentFrames(d, tail) = sf[n]
                 /\ HeaderTimes(d[tail], sf[n]) /\ d[tail].ordered \in BOOLEAN
    <2>1. SUFFICES ASSUME n # 0
                   PROVE  /\ tail = st[n] /\ tail # 0 /\ SegmentFrames(d, tail) = sf[n]
                          /\ HeaderTimes(d[tail], sf[n]) /\ d[tail].ordered \in BOOLEAN
      OBVIOUS
    <2>2. n \in 1..(n + 1) /\ n \in n..(n + 1) /\ n \in 1..n
      BY <1>2, <2>1
    <2>3. tail = st[n]
      BY <1>5, <2>1 DEF StartOf
    <2>4. DataStart <= st[n] /\ st[n] \in Nat
      BY <1>1, <1>2, <2>2, LayoutGrow
    <2>5. SegmentWhole(d, st[n], sf[n], sa[n])
      BY <1>2, <2>2
    <2>6. SegmentFrames(d, st[n]) = sf[n] /\ d[st[n]].ordered \in BOOLEAN
      BY <1>1, <2>4, <2>5, SegmentFramesFound, WholeFacts
    <2> QED
      BY <1>1, <2>2, <2>3, <2>4, <2>6 DEF TimesKept, DataStart
  <1>7. n = 0 => tail = 0
    BY <1>5 DEF StartOf
  <1>8. /\ m.hasTime \in BOOLEAN /\ m.hasTime => m.tail = tail
        /\ (m.hasTime \/ n = 0) => m.time = time
        /\ ~m.hasTime => ~m.retain
    BY <1>5 DEF ManifestTimes
  <1>9. n # 0 /\ d[tail].ordered /\ ~m.retain => time = d[tail].maximum
    BY <1>1, <1>6 DEF HeaderTimes
  <1> DEFINE t == IF tail = 0 \/ ~walked.ok THEN m.time
                  ELSE IF d[tail].ordered /\ ~m.retain THEN d[tail].maximum
                  ELSE IF m.hasTime THEN m.time
                  ELSE LastTimeOf(Last(SegmentFrames(d, tail)))
  <1>10. t = time
    <2>1. CASE n = 0
      BY <1>7, <1>8, <2>1
    <2>2. CASE n # 0
      <3>1. CASE d[tail].ordered /\ ~m.retain
        BY <1>5, <1>6, <1>9, <2>2, <3>1
      <3>2. CASE ~(d[tail].ordered /\ ~m.retain) /\ m.hasTime
        BY <1>5, <1>6, <1>8, <2>2, <3>2
      <3>3. CASE ~(d[tail].ordered /\ ~m.retain) /\ ~m.hasTime
        BY <1>1, <1>5, <1>6, <1>8, <2>2, <3>3 DEF Last
      <3> QED
        BY <3>1, <3>2, <3>3, <1>8
    <2> QED
      BY <2>1, <2>2
  <1> DEFINE ok == /\ walked.ok /\ walked.at = m.end
                   /\ IF m.retain THEN walked.seq <= m.last ELSE walked.seq = m.last
                   /\ m.hasTime => m.tail = tail
                   /\ m.hasTime /\ ~m.retain /\ m.count # 0 /\ d[tail].ordered
                         => m.time = d[tail].maximum
  <1>11. ok = TRUE
    BY <1>1, <1>5, <1>8, <1>9
  <1>12. CheckSegments(d, m) = [ok |-> ok, tail |-> tail, time |-> t, span |-> walked.span]
    BY DEF CheckSegments
  <1> HIDE DEF ok, t
  <1> QED
    BY <1>5, <1>10, <1>11, <1>12

\* The log: the batches after the installed ones and nothing else.
Log(w, end, last, wf, wa) ==
    /\ Cells(w) /\ DOMAIN w = {wa[i] : i \in 1..Len(wf)}
    /\ IsFrames(w, WalStart, end, last + 1, wf, wa)
    /\ end <= WalCapacity
    /\ last \in Nat /\ last + Len(wf) <= SeqMax

\* An open finds the end of the log.
LEMMA WalEndIs ==
  ASSUME NEW w, NEW end, NEW first, NEW wf, NEW wa, DOMAIN w = {wa[i] : i \in 1..Len(wf)},
         IsFrames(w, WalStart, end, first, wf, wa)
  PROVE  WalEnd(w) = end
  <1> DEFINE S == {WalStart} \cup {o + FrameSize(w[o]) : o \in DOMAIN w}
  <1>1. /\ DOMAIN w = {wa[i] : i \in 1..Len(wf)}
        /\ IsFrames(w, WalStart, end, first, wf, wa)
    OBVIOUS
  <1>2. /\ wf \in Seq(FrameSet) /\ Len(wf) \in Nat /\ wa \in [1..(Len(wf) + 1) -> Nat]
        /\ wa[1] = WalStart /\ wa[Len(wf) + 1] = end
        /\ \A i \in 1..Len(wf) : w[wa[i]] = wf[i] /\ wa[i + 1] = wa[i] + FrameSize(wf[i])
    <2>1. /\ wf \in Seq(FrameSet) /\ wa \in [1..(Len(wf) + 1) -> Nat]
          /\ wa[1] = WalStart /\ wa[Len(wf) + 1] = end
      BY <1>1 DEF IsFrames
    <2>2. \A i \in 1..Len(wf) : w[wa[i]] = wf[i] /\ wa[i + 1] = wa[i] + FrameSize(wf[i])
      BY <1>1 DEF IsFrames
    <2>3. Len(wf) \in Nat
      BY <2>1
    <2>4. /\ wf \in Seq(FrameSet) /\ wa \in [1..(Len(wf) + 1) -> Nat]
          /\ wa[1] = WalStart /\ wa[Len(wf) + 1] = end
      BY <2>1
    <2> HIDE DEF S
    <2> QED
      BY <2>2, <2>3, <2>4, Zenon
  <1>3. end \in Nat /\ WalStart <= end
    <2>1. 1 \in 1..(Len(wf) + 1) /\ 1 \in 1..(Len(wf) + 1)
      BY <1>2
    <2>2. end \in Nat /\ wa[1] <= end
      BY <1>1, <2>1, FramesGrow
    <2> QED
      BY <1>2, <2>2
  <1>4. ASSUME NEW o \in DOMAIN w PROVE o + FrameSize(w[o]) \in Nat /\ o + FrameSize(w[o]) <= end
    <2>1. PICK i \in 1..Len(wf) : o = wa[i]
      BY <1>1
    <2>2. i + 1 \in 1..(Len(wf) + 1) /\ i + 1 \in (i + 1)..(Len(wf) + 1)
      BY <1>2
    <2>3. wa[i + 1] \in Nat /\ wa[i + 1] <= end
      BY <1>1, <2>2, FramesGrow
    <2> QED
      BY <1>2, <2>1, <2>3
  <1>5. S \subseteq Int /\ \A y \in S : end >= y
    BY <1>3, <1>4 DEF WalStart
  <1>6. end \in S
    <2>1. CASE Len(wf) = 0
      BY <1>2, <2>1
    <2>2. CASE Len(wf) # 0
      <3>1. Len(wf) \in 1..Len(wf)
        BY <1>2, <2>2
      <3>2. wa[Len(wf)] \in DOMAIN w
        BY <1>1, <3>1
      <3>3. end = wa[Len(wf)] + FrameSize(w[wa[Len(wf)]])
        BY <1>2, <3>1
      <3> QED
        BY <3>2, <3>3
    <2> QED
      BY <2>1, <2>2
  <1> HIDE DEF S
  <1>7. Max(S) = end
    BY <1>5, <1>6, MaxIs
  <1> QED
    BY <1>7 DEF WalEnd, S

\* The end of a log is where its frames end.
LEMMA WalEndFound ==
  ASSUME NEW w, NEW end, NEW last, NEW wf, NEW wa, Log(w, end, last, wf, wa)
  PROVE  WalEnd(w) = end
  <1>1. DOMAIN w = {wa[i] : i \in 1..Len(wf)} /\ IsFrames(w, WalStart, end, last + 1, wf, wa)
    BY DEF Log
  <1> QED
    BY <1>1, WalEndIs

\* What the fields of a handle are.
HandleSet ==
    [end : Nat, sequence : Nat, dataEnd : Nat, installed : Nat, generation : Nat,
     retention : BOOLEAN, lastTime : Times, installedTime : Times, lastSegment : Nat,
     spanStart : Nat, walFirst : Times, walMin : Times, walMax : Times,
     walOrdered : BOOLEAN, failed : BOOLEAN]

\* What the handle says about the segments and the log.
HandleSays(d, hd, st, wf) ==
    /\ hd \in HandleSet /\ hd.failed = FALSE
    /\ hd.lastSegment = StartOf(st, hd.generation)
    /\ SpanIs(d, st, hd.generation, hd.spanStart)
    /\ hd.sequence = hd.installed + Len(wf)
    /\ hd.walOrdered = Ordered(wf)
    /\ hd.lastTime = IF wf = <<>> THEN hd.installedTime ELSE LastTimeOf(wf[Len(wf)])
    /\ wf # <<>> => /\ hd.walFirst = FirstTimeOf(wf[1])
                    /\ hd.walMin = Min(AllTimes(wf)) /\ hd.walMax = Max(AllTimes(wf))

\* What the manifest and the handle have in common.
ManifestOf(m, hd) ==
    /\ m.count = hd.generation /\ m.end = hd.dataEnd /\ m.last = hd.installed
    /\ m.retain = hd.retention
    /\ ManifestTimes(m, hd.installedTime, hd.lastSegment)

\* The files, the manifest and the handle: the segments sf at the offsets st and
\* sa, and the batches wf of the log at the offsets wa.
Stored(d, w, m, hd, st, sf, sa, wf, wa) ==
    /\ Segments(d, hd.dataEnd, hd.generation, hd.installed, hd.retention, hd.installedTime, st, sf, sa)
    /\ Log(w, hd.end, hd.installed, wf, wa)
    /\ ManifestOf(m, hd)
    /\ HandleSays(d, hd, st, wf)

\* A handle just opened has no times for an empty log.
NoTimes(hd, wf) == wf = <<>> => hd.walFirst = 0 /\ hd.walMin = 0 /\ hd.walMax = 0

\* An open of sound files yields a handle that fits them.
LEMMA OpenedStored ==
  ASSUME NEW d, NEW w, NEW m, NEW time, NEW end, NEW st, NEW sf, NEW sa, NEW wf, NEW wa,
         Segments(d, m.end, m.count, m.last, m.retain, time, st, sf, sa),
         ManifestTimes(m, time, StartOf(st, m.count)),
         Log(w, end, m.last, wf, wa)
  PROVE  /\ Stored(d, w, m, Opened(d, w, m), st, sf, sa, wf, wa)
         /\ Opened(d, w, m).end = end /\ Opened(d, w, m).installedTime = time
         /\ NoTimes(Opened(d, w, m), wf)
  <1> DEFINE chk == CheckSegments(d, m)
             hd == Opened(d, w, m)
             order == WalOrder(wf)
  <1>1. /\ chk.ok = TRUE /\ chk.tail = StartOf(st, m.count) /\ chk.time = time
        /\ SpanIs(d, st, m.count, chk.span)
    BY CheckResult
  <1>2. /\ Cells(w) /\ IsFrames(w, WalStart, end, m.last + 1, wf, wa)
        /\ m.last \in Nat /\ m.last + Len(wf) <= SeqMax /\ end <= WalCapacity
    BY DEF Log
  <1>3. /\ m.last + 1 \in Int /\ m.retain \in BOOLEAN /\ time \in Times
        /\ Layout(d, DataStart, m.end, m.count, st, sf, sa)
    BY <1>2 DEF Segments
  <1>4. WalEnd(w) = end
    BY WalEndFound
  <1>5. FramesFrom(w, WalStart, end, m.last + 1) = wf
    BY <1>2, <1>3, FramesFound
  <1>6. hd = HandleOf(m, chk, end, Len(wf), order)
    BY <1>4, <1>5 DEF Opened
  <1> HIDE DEF chk, hd, order
  <1>7. /\ hd.end = end /\ hd.sequence = m.last + Len(wf) /\ hd.dataEnd = m.end /\ hd.installed = m.last
        /\ hd.generation = m.count /\ hd.retention = m.retain
        /\ hd.lastTime = IF Len(wf) = 0 THEN time ELSE order.last
        /\ hd.installedTime = time /\ hd.lastSegment = StartOf(st, m.count)
        /\ hd.spanStart = chk.span /\ hd.walFirst = order.first /\ hd.walMin = order.min
        /\ hd.walMax = order.max /\ hd.walOrdered = order.ordered /\ hd.failed = FALSE
    BY <1>1, <1>6 DEF HandleOf
  <1>8. /\ wf \in Seq(FrameSet) /\ Len(wf) \in Nat /\ end \in Nat
    <2>1. wf \in Seq(FrameSet)
      BY <1>2 DEF IsFrames
    <2>2. 1 \in 1..(Len(wf) + 1) /\ 1 \in 1..(Len(wf) + 1) /\ Len(wf) \in Nat
      BY <2>1
    <2>3. end \in Nat
      BY <1>2, <2>2, FramesGrow
    <2> QED
      BY <2>1, <2>2, <2>3
  <1>9. /\ m.end \in Nat /\ m.count \in Nat /\ StartOf(st, m.count) \in Nat
    <2>1. m.end \in Nat /\ m.count \in Nat /\ \A k \in 1..(m.count + 1) : st[k] \in Nat
      BY <1>3, LayoutFacts
    <2>2. m.count # 0 => m.count \in 1..(m.count + 1)
      BY <2>1
    <2> QED
      BY <2>1, <2>2 DEF StartOf
  <1>10. chk.span \in Nat
    <2>1. chk.span \in 1..(m.count + 1)
      BY <1>1 DEF SpanIs
    <2> QED
      BY <1>9, <2>1
  <1>11. order.ordered = Ordered(wf) /\ order.ordered \in BOOLEAN
    <2>1. CASE wf = <<>>
      <3>1. Len(wf) = 0 /\ DOMAIN wf = {} /\ 2..Len(wf) = {}
        BY <2>1
      <3>2. Ordered(wf) = TRUE
        BY <3>1 DEF Ordered
      <3> QED
        BY <2>1, <3>2 DEF order, WalOrder
    <2>2. CASE wf # <<>>
      BY <2>2 DEF order, WalOrder, Ordered
    <2> QED
      BY <2>1, <2>2
  <1>12. ASSUME wf # <<>>
         PROVE  /\ order.first = FirstTimeOf(wf[1]) /\ order.last = LastTimeOf(wf[Len(wf)])
                /\ order.min = Min(AllTimes(wf)) /\ order.max = Max(AllTimes(wf))
                /\ order.first \in Times /\ order.last \in Times /\ order.min \in Times /\ order.max \in Times
    <2>1. /\ order.first = FirstTimeOf(wf[1]) /\ order.last = LastTimeOf(wf[Len(wf)])
          /\ order.min = Min(AllTimes(wf)) /\ order.max = Max(AllTimes(wf))
      BY <1>12 DEF order, WalOrder, AllTimes, Last
    <2>2. wf[1] \in FrameSet /\ wf[Len(wf)] \in FrameSet
      BY <1>8, <1>12
    <2>3. FirstTimeOf(wf[1]) \in Times /\ LastTimeOf(wf[Len(wf)]) \in Times
      BY <2>2, FrameFacts
    <2>4. Min(AllTimes(wf)) \in Times /\ Max(AllTimes(wf)) \in Times
      BY <1>8, <1>12, AllTimesFacts
    <2> QED
      BY <2>1, <2>3, <2>4
  <1>13. ASSUME wf = <<>>
         PROVE  /\ order.first = 0 /\ order.last = 0 /\ order.min = 0 /\ order.max = 0 /\ 0 \in Times
                /\ Len(wf) = 0
    BY <1>13, LimitAssumption DEF order, WalOrder, Times
  <1>14. Len(wf) = 0 <=> wf = <<>>
    BY <1>8
  <1>15. hd \in HandleSet
    <2>1. order.first \in Times /\ order.last \in Times /\ order.min \in Times /\ order.max \in Times
      BY <1>12, <1>13
    <2>2. hd.lastTime \in Times
      BY <1>3, <1>7, <2>1
    <2>3. hd = [end |-> hd.end, sequence |-> hd.sequence, dataEnd |-> hd.dataEnd, installed |-> hd.installed,
                generation |-> hd.generation, retention |-> hd.retention, lastTime |-> hd.lastTime,
                installedTime |-> hd.installedTime, lastSegment |-> hd.lastSegment,
                spanStart |-> hd.spanStart, walFirst |-> hd.walFirst, walMin |-> hd.walMin,
                walMax |-> hd.walMax, walOrdered |-> hd.walOrdered, failed |-> hd.failed]
      BY <1>6 DEF HandleOf
    <2>4. hd.sequence \in Nat
      BY <1>2, <1>7, <1>8
    <2> QED
      BY <1>2, <1>3, <1>7, <1>8, <1>9, <1>10, <1>11, <2>1, <2>2, <2>3, <2>4 DEF HandleSet
  <1>16. HandleSays(d, hd, st, wf)
    <2>1. hd.lastTime = IF wf = <<>> THEN hd.installedTime ELSE LastTimeOf(wf[Len(wf)])
      BY <1>7, <1>12, <1>14
    <2> QED
      BY <1>1, <1>7, <1>11, <1>12, <1>15, <2>1 DEF HandleSays
  <1>17. ManifestOf(m, hd)
    BY <1>7 DEF ManifestOf
  <1>18. Stored(d, w, m, hd, st, sf, sa, wf, wa)
    BY <1>7, <1>16, <1>17 DEF Stored
  <1>19. NoTimes(hd, wf)
    BY <1>7, <1>13 DEF NoTimes
  <1> QED
    BY <1>7, <1>18, <1>19 DEF hd

\* Two handles with the same fields are the same.
LEMMA SameHandle ==
  ASSUME NEW x \in HandleSet, NEW y \in HandleSet,
         x.end = y.end, x.sequence = y.sequence, x.dataEnd = y.dataEnd, x.installed = y.installed,
         x.generation = y.generation, x.retention = y.retention, x.lastTime = y.lastTime,
         x.installedTime = y.installedTime, x.lastSegment = y.lastSegment, x.spanStart = y.spanStart,
         x.walFirst = y.walFirst, x.walMin = y.walMin, x.walMax = y.walMax,
         x.walOrdered = y.walOrdered, x.failed = y.failed
  PROVE  x = y
  BY DEF HandleSet

\* What the handle keeps is what an open computes.
LEMMA StoredOrder ==
  ASSUME NEW st, NEW sf, NEW sa, NEW wf, NEW wa, Stored(db, wal, manifest, h, st, sf, sa, wf, wa)
  PROVE  OrderMatchesReopen
  <1> DEFINE o == Opened(db, wal, manifest)
             now(hd) == IF h.end # WalStart THEN hd
                        ELSE [hd EXCEPT !.walFirst = 0, !.walMin = 0, !.walMax = 0]
  <1>1. /\ Segments(db, h.dataEnd, h.generation, h.installed, h.retention, h.installedTime, st, sf, sa)
        /\ Log(wal, h.end, h.installed, wf, wa)
        /\ ManifestOf(manifest, h)
        /\ HandleSays(db, h, st, wf)
    BY DEF Stored
  <1>2. /\ manifest.count = h.generation /\ manifest.end = h.dataEnd /\ manifest.last = h.installed
        /\ manifest.retain = h.retention
        /\ ManifestTimes(manifest, h.installedTime, h.lastSegment)
    BY <1>1 DEF ManifestOf
  <1>3. h.lastSegment = StartOf(st, manifest.count)
    BY <1>1, <1>2 DEF HandleSays
  <1>4. /\ Segments(db, manifest.end, manifest.count, manifest.last, manifest.retain, h.installedTime, st, sf, sa)
        /\ ManifestTimes(manifest, h.installedTime, StartOf(st, manifest.count))
        /\ Log(wal, h.end, manifest.last, wf, wa)
    BY <1>1, <1>2, <1>3
  <1>5. /\ Stored(db, wal, manifest, o, st, sf, sa, wf, wa)
        /\ o.end = h.end /\ o.installedTime = h.installedTime
        /\ wf = <<>> => o.walFirst = 0 /\ o.walMin = 0 /\ o.walMax = 0
    <2>1. Stored(db, wal, manifest, o, st, sf, sa, wf, wa)
      BY <1>4, OpenedStored
    <2>2. o.end = h.end /\ o.installedTime = h.installedTime
      BY <1>4, OpenedStored
    <2>3. NoTimes(o, wf)
      BY <1>4, OpenedStored
    <2> QED
      BY <2>1, <2>2, <2>3 DEF NoTimes
  <1> HIDE DEF o
  <1>6. HandleSays(db, o, st, wf) /\ ManifestOf(manifest, o)
    BY <1>5 DEF Stored
  <1>7. /\ o.generation = h.generation /\ o.dataEnd = h.dataEnd /\ o.installed = h.installed
        /\ o.retention = h.retention
    BY <1>2, <1>6 DEF ManifestOf
  <1>8. o.lastSegment = h.lastSegment /\ o.sequence = h.sequence /\ o.walOrdered = h.walOrdered
        /\ o.lastTime = h.lastTime /\ o.failed = h.failed /\ o \in HandleSet /\ h \in HandleSet
    BY <1>1, <1>5, <1>6, <1>7 DEF HandleSays
  <1>9. o.spanStart = h.spanStart
    <2>1. SpanIs(db, st, h.generation, o.spanStart) /\ SpanIs(db, st, h.generation, h.spanStart)
      BY <1>1, <1>6, <1>7 DEF HandleSays
    <2>2. Layout(db, DataStart, h.dataEnd, h.generation, st, sf, sa)
      BY <1>1 DEF Segments
    <2>3. h.generation \in Nat /\ \A k \in 1..(h.generation + 1) : st[k] \in Nat
      BY <2>2, LayoutFacts
    <2>4. ASSUME NEW k \in 1..h.generation PROVE db[st[k]].minimum \in Int /\ db[st[k]].maximum \in Int
      <3>1. k \in 1..(h.generation + 1)
        BY <2>3
      <3>2. SegmentWhole(db, st[k], sf[k], sa[k]) /\ st[k] \in Nat
        BY <2>2, <2>3, <3>1, LayoutFacts
      <3>3. db[st[k]].minimum \in Times /\ db[st[k]].maximum \in Times
        BY <3>2, WholeFacts
      <3> QED
        BY <3>3, LimitAssumption DEF Times
    <2> QED
      BY <2>1, <2>3, <2>4, SpanUnique
  <1>10. h.end = WalStart <=> wf = <<>>
    <2>1. IsFrames(wal, WalStart, h.end, h.installed + 1, wf, wa)
      BY <1>1 DEF Log
    <2>2. wf \in Seq(FrameSet) /\ Len(wf) \in Nat
      BY <2>1 DEF IsFrames
    <2>3. 1 \in 1..(Len(wf) + 1) /\ 1 \in 1..(Len(wf) + 1)
      BY <2>2
    <2>4. WalStart + Len(wf) <= h.end /\ h.end \in Nat
      BY <2>1, <2>3, FramesGrow
    <2>5. Len(wf) = 0 => h.end = WalStart
      BY <2>1 DEF IsFrames
    <2> QED
      BY <2>2, <2>4, <2>5 DEF WalStart
  <1>11. CASE wf # <<>>
    <2>1. o.walFirst = h.walFirst /\ o.walMin = h.walMin /\ o.walMax = h.walMax
      BY <1>1, <1>6, <1>11 DEF HandleSays
    <2>2. o = h
      BY <1>5, <1>7, <1>8, <1>9, <2>1, SameHandle
    <2> QED
      BY <1>10, <1>11, <2>2 DEF OrderMatchesReopen, o
  <1>12. CASE wf = <<>>
    <2> DEFINE x == [h EXCEPT !.walFirst = 0, !.walMin = 0, !.walMax = 0]
               y == [o EXCEPT !.walFirst = 0, !.walMin = 0, !.walMax = 0]
    <2>0. 0 \in Times
      BY LimitAssumption DEF Times
    <2>1. x \in HandleSet /\ y \in HandleSet
      BY <1>8, <2>0 DEF HandleSet
    <2>2. /\ x.end = h.end /\ x.sequence = h.sequence /\ x.dataEnd = h.dataEnd /\ x.installed = h.installed
          /\ x.generation = h.generation /\ x.retention = h.retention /\ x.lastTime = h.lastTime
          /\ x.installedTime = h.installedTime /\ x.lastSegment = h.lastSegment
          /\ x.spanStart = h.spanStart /\ x.walFirst = 0 /\ x.walMin = 0 /\ x.walMax = 0
          /\ x.walOrdered = h.walOrdered /\ x.failed = h.failed
      BY <1>8 DEF HandleSet
    <2>3. /\ y.end = o.end /\ y.sequence = o.sequence /\ y.dataEnd = o.dataEnd /\ y.installed = o.installed
          /\ y.generation = o.generation /\ y.retention = o.retention /\ y.lastTime = o.lastTime
          /\ y.installedTime = o.installedTime /\ y.lastSegment = o.lastSegment
          /\ y.spanStart = o.spanStart /\ y.walFirst = 0 /\ y.walMin = 0 /\ y.walMax = 0
          /\ y.walOrdered = o.walOrdered /\ y.failed = o.failed
      BY <1>8 DEF HandleSet
    <2> HIDE DEF x, y
    <2>4. x = y
      BY <1>5, <1>7, <1>8, <1>9, <2>1, <2>2, <2>3, SameHandle
    <2> QED
      BY <1>10, <1>12, <2>4 DEF OrderMatchesReopen, o, x, y
  <1> QED
    BY <1>11, <1>12

------------------------------------------------------------------------------
(* Cursors. *)

\* Sequences wrap around after the last one.
LEMMA WrapFacts ==
  ASSUME NEW n \in Nat
  PROVE  /\ Wrap(n) \in 0..SeqMax
         /\ n <= SeqMax => Wrap(n) = n
         /\ n = SeqMax + 1 => Wrap(n) = 0
  <1> DEFINE p == SeqMax + 1
  <1>1. p \in Nat \ {0} /\ p - 1 = SeqMax /\ SeqMax \in Nat
    BY LimitAssumption
  <1> HIDE DEF p
  <1>2. n % p \in 0..(p - 1)
    BY <1>1, Quotient
  <1>3. n <= SeqMax => n % p = n
    <2>1. SUFFICES ASSUME n <= SeqMax PROVE n % p = n
      OBVIOUS
    <2>2. n \in 0..(p - 1) /\ n = (p * 0) + n
      BY <1>1, <2>1
    <2> QED
      BY <1>1, <2>2, Remainder
  <1>4. n = p => n % p = 0
    <2>1. SUFFICES ASSUME n = p PROVE n % p = 0
      OBVIOUS
    <2>2. 0 \in 0..(p - 1) /\ n = (p * 1) + 0
      BY <1>1, <2>1
    <2> QED
      BY <1>1, <2>2, Remainder
  <1> QED
    BY <1>1, <1>2, <1>3, <1>4 DEF Wrap, p

\* Sequences grow from segment to segment.
LEMMA SequencesGrow ==
  ASSUME NEW d, NEW root, NEW end, NEW n, NEW st, NEW sf, NEW sa, Layout(d, root, end, n, st, sf, sa),
         NEW k \in 0..n
  PROVE  /\ LastOf(d, st, k) \in 0..SeqMax
         /\ k < n => LastOf(d, st, k) < d[st[k + 1]].first
  <1>1. /\ n \in Nat /\ \A i \in 1..(n + 1) : st[i] \in Nat
        /\ \A i \in 1..n : SegmentWhole(d, st[i], sf[i], sa[i]) /\ st[i + 1] = After(st[i], d[st[i]])
                            /\ st[i] + 2 <= st[i + 1]
    BY LayoutFacts
  <1>2. ASSUME NEW i \in 1..n PROVE d[st[i]].last \in 1..SeqMax /\ d[st[i]].first \in 1..SeqMax
    <2>1. i \in 1..(n + 1)
      BY <1>1
    <2> QED
      BY <1>1, <2>1, WholeFacts
  <1>3. CASE k = 0
    <2>1. k < n => k + 1 \in 1..n
      BY <1>1, <1>3
    <2> QED
      BY <1>2, <1>3, <2>1, LimitAssumption DEF LastOf
  <1>4. CASE k # 0
    <2>1. k \in 1..n /\ (k < n => k \in 1..(n - 1))
      BY <1>1, <1>4
    <2>2. \A i \in 1..(n - 1) : d[st[i]].last < d[st[i + 1]].first
      BY DEF Layout
    <2>3. LastOf(d, st, k) = d[st[k]].last
      BY <1>4 DEF LastOf
    <2> QED
      BY <1>2, <2>1, <2>2, <2>3, LimitAssumption
  <1> QED
    BY <1>3, <1>4

\* A cursor in front of batch j of the log, of batch j of segment k, and between
\* segments, in front of segment k.
InLog(hd, wf, wa, cur, k, j) ==
    /\ cur.inWal = TRUE /\ k = hd.generation + 1 /\ j \in 1..(Len(wf) + 1)
    /\ cur.cursor = wa[j] /\ cur.readSequence = Wrap(hd.installed + j)
InSegment(hd, st, sf, sa, cur, k, j) ==
    /\ cur.inWal = FALSE /\ k \in 1..hd.generation /\ j \in 1..Len(sf[k])
    /\ cur.cursor = sa[k][j] /\ cur.segmentEnd = st[k + 1] /\ cur.readSequence = sf[k][j].seq
Between(d, hd, st, cur, k, j) ==
    /\ cur.inWal = FALSE /\ k \in 1..(hd.generation + 1) /\ j = 1
    /\ cur.cursor = st[k] /\ cur.segmentEnd = st[k] /\ cur.readSequence = Wrap(LastOf(d, st, k - 1) + 1)

At(d, hd, st, sf, sa, wf, wa, cur, k, j) ==
    /\ cur \in CursorType
    /\ \/ InLog(hd, wf, wa, cur, k, j)
       \/ InSegment(hd, st, sf, sa, cur, k, j)
       \/ Between(d, hd, st, cur, k, j)

\* The facts about segments and log that reading needs.
LEMMA StoredFacts ==
  ASSUME NEW d, NEW w, NEW m, NEW hd, NEW st, NEW sf, NEW sa, NEW wf, NEW wa,
         Stored(d, w, m, hd, st, sf, sa, wf, wa)
  PROVE  /\ Cells(d) /\ Layout(d, DataStart, hd.dataEnd, hd.generation, st, sf, sa)
         /\ Linked(d, hd.generation, st) /\ TimesKept(d, hd.generation, st, sf)
         /\ hd.generation \in Nat /\ hd.generation < Power[24] /\ hd.dataEnd \in Nat
         /\ hd.dataEnd <= DbCapacity
         /\ hd.installed \in 0..SeqMax /\ hd.retention \in BOOLEAN
         /\ LastOf(d, st, hd.generation) <= hd.installed
         /\ (~hd.retention => LastOf(d, st, hd.generation) = hd.installed /\ Numbered(d, st, hd.generation))
         /\ Cells(w) /\ IsFrames(w, WalStart, hd.end, hd.installed + 1, wf, wa)
         /\ wf \in Seq(FrameSet) /\ Len(wf) \in Nat /\ hd.end \in Nat /\ hd.end <= WalCapacity
         /\ hd.sequence = hd.installed + Len(wf) /\ hd.sequence \in 0..SeqMax
         /\ hd \in HandleSet /\ hd.failed = FALSE
         /\ hd.lastSegment = StartOf(st, hd.generation)
         /\ SpanIs(d, st, hd.generation, hd.spanStart)
  <1>1. /\ Segments(d, hd.dataEnd, hd.generation, hd.installed, hd.retention, hd.installedTime, st, sf, sa)
        /\ Log(w, hd.end, hd.installed, wf, wa)
        /\ HandleSays(d, hd, st, wf)
    BY DEF Stored
  <1>2. /\ Cells(d) /\ Layout(d, DataStart, hd.dataEnd, hd.generation, st, sf, sa)
        /\ Linked(d, hd.generation, st) /\ TimesKept(d, hd.generation, st, sf)
        /\ hd.dataEnd <= DbCapacity
        /\ hd.installed \in 0..SeqMax /\ hd.retention \in BOOLEAN
        /\ (hd.retention => LastOf(d, st, hd.generation) <= hd.installed)
        /\ (~hd.retention => LastOf(d, st, hd.generation) = hd.installed /\ Numbered(d, st, hd.generation))
    BY <1>1 DEF Segments
  <1>3. hd.generation \in Nat /\ hd.dataEnd \in Nat
    BY <1>2, LayoutFacts
  <1>4. hd.generation < Power[24]
    BY <1>2, TableCovers DEF DataStart
  <1>5. /\ Cells(w) /\ IsFrames(w, WalStart, hd.end, hd.installed + 1, wf, wa)
        /\ hd.end <= WalCapacity /\ hd.installed + Len(wf) <= SeqMax
    BY <1>1 DEF Log
  <1>6. wf \in Seq(FrameSet) /\ Len(wf) \in Nat
    BY <1>5 DEF IsFrames
  <1>7. /\ hd.sequence = hd.installed + Len(wf)
        /\ hd \in HandleSet /\ hd.failed = FALSE
        /\ hd.lastSegment = StartOf(st, hd.generation)
        /\ SpanIs(d, st, hd.generation, hd.spanStart)
    BY <1>1 DEF HandleSays
  <1>8. hd.end \in Nat
    BY <1>7 DEF HandleSet
  <1>9. hd.sequence \in 0..SeqMax
    BY <1>2, <1>5, <1>6, <1>7
  <1>10. LastOf(d, st, hd.generation) <= hd.installed
    <2>1. CASE hd.retention
      BY <1>2, <2>1
    <2>2. CASE ~hd.retention
      BY <1>2, <2>2
    <2> QED
      BY <2>1, <2>2
  <1> QED
    BY <1>2, <1>3, <1>4, <1>5, <1>6, <1>7, <1>8, <1>9, <1>10

\* What read_cursor makes of a cursor before it looks at the frame under it.
Settled(d, hd, cur) == EnterSegment(d, hd, EnterWal(hd, cur))

\* It stands in front of the same batch, inside a segment or the log.
LEMMA SettledAt ==
  ASSUME NEW d, NEW w, NEW m, NEW hd, NEW st, NEW sf, NEW sa, NEW wf, NEW wa,
         Stored(d, w, m, hd, st, sf, sa, wf, wa), NEW cur, NEW k, NEW j,
         At(d, hd, st, sf, sa, wf, wa, cur, k, j)
  PROVE  /\ Settled(d, hd, cur) \in CursorType
         /\ \/ InLog(hd, wf, wa, Settled(d, hd, cur), k, j)
            \/ InSegment(hd, st, sf, sa, Settled(d, hd, cur), k, j)
  <1> DEFINE g == hd.generation
  <1>1. /\ Layout(d, DataStart, hd.dataEnd, g, st, sf, sa) /\ Linked(d, g, st)
        /\ g \in Nat /\ g < Power[24] /\ hd.dataEnd \in Nat
        /\ hd.installed \in 0..SeqMax /\ hd.retention \in BOOLEAN
        /\ (~hd.retention => Numbered(d, st, g))
        /\ IsFrames(w, WalStart, hd.end, hd.installed + 1, wf, wa)
        /\ wf \in Seq(FrameSet) /\ Len(wf) \in Nat
    BY StoredFacts
  <1>2. /\ \A i \in 1..(g + 1) : st[i] \in Nat
        /\ st[g + 1] = hd.dataEnd
        /\ \A i \in 1..g : SegmentWhole(d, st[i], sf[i], sa[i]) /\ st[i + 1] = After(st[i], d[st[i]])
                            /\ st[i] + 2 <= st[i + 1]
    BY <1>1, LayoutFacts
  <1>3. cur \in CursorType
    BY DEF At
  <1>4. ASSUME NEW i \in 1..g PROVE st[i] < hd.dataEnd /\ st[i + 1] <= hd.dataEnd /\ st[i] \in Nat /\ st[i + 1] \in Nat
    <2>1. i \in 1..(g + 1) /\ i + 1 \in i..(g + 1) /\ i + 1 \in 1..(g + 1)
      BY <1>1
    <2>2. st[i + 1] <= hd.dataEnd
      BY <1>1, <2>1, LayoutGrow
    <2> QED
      BY <1>2, <2>1, <2>2, <1>1
  <1>5. CASE InLog(hd, wf, wa, cur, k, j)
    <2>1. cur.inWal = TRUE
      BY <1>5 DEF InLog
    <2>2. Settled(d, hd, cur) = cur
      BY <2>1 DEF Settled, EnterSegment, EnterWal
    <2> QED
      BY <1>3, <1>5, <2>2
  <1>6. CASE InSegment(hd, st, sf, sa, cur, k, j)
    <2>1. /\ cur.inWal = FALSE /\ k \in 1..g /\ j \in 1..Len(sf[k])
          /\ cur.cursor = sa[k][j] /\ cur.segmentEnd = st[k + 1]
      BY <1>6 DEF InSegment
    <2>2. IsFrames(d, st[k] + d[st[k]].size, st[k + 1], d[st[k]].first, sf[k], sa[k])
      BY <1>2, <2>1 DEF SegmentWhole
    <2>3. sf[k] \in Seq(FrameSet) /\ Len(sf[k]) \in Nat
      BY <2>2 DEF IsFrames
    <2>4. j \in 1..(Len(sf[k]) + 1) /\ j \in j..(Len(sf[k]) + 1) /\ j < Len(sf[k]) + 1 /\ sf[k][j] \in FrameSet
      BY <2>1, <2>3
    <2>5. sa[k][j] + FrameSize(sf[k][j]) <= st[k + 1] /\ sa[k][j] \in Nat
      BY <2>2, <2>4, FramesGrow
    <2>6. FrameSize(sf[k][j]) \in Nat /\ FrameSize(sf[k][j]) >= 1
      BY <2>4, FrameFacts
    <2>7. cur.cursor # hd.dataEnd /\ cur.cursor # cur.segmentEnd
      BY <1>1, <1>4, <2>1, <2>5, <2>6
    <2>8. Settled(d, hd, cur) = cur
      BY <2>1, <2>7 DEF Settled, EnterSegment, EnterWal
    <2> QED
      BY <1>3, <1>6, <2>8
  <1>7. CASE Between(d, hd, st, cur, k, j) /\ k = g + 1
    <2>1. cur.inWal = FALSE /\ j = 1 /\ cur.cursor = hd.dataEnd
      BY <1>2, <1>7 DEF Between
    <2> DEFINE nx == [cur EXCEPT !.inWal = TRUE, !.cursor = WalStart, !.readSequence = Wrap(hd.installed + 1)]
    <2>2. EnterWal(hd, cur) = nx
      BY <2>1 DEF EnterWal
    <2>3. nx.inWal = TRUE /\ nx.cursor = WalStart /\ nx.readSequence = Wrap(hd.installed + 1)
      BY <1>3 DEF CursorType
    <2>4. Wrap(hd.installed + 1) \in 0..SeqMax
      BY <1>1, WrapFacts
    <2>5. nx \in CursorType
      BY <1>3, <2>4 DEF CursorType, WalStart
    <2>6. wa[1] = WalStart
      BY <1>1 DEF IsFrames
    <2> HIDE DEF nx
    <2>7. Settled(d, hd, cur) = nx
      BY <2>2, <2>3 DEF Settled, EnterSegment
    <2>8. InLog(hd, wf, wa, nx, k, j)
      <3>1. 1 \in 1..(Len(wf) + 1)
        BY <1>1
      <3> QED
        BY <1>7, <2>1, <2>3, <2>6, <3>1 DEF InLog
    <2> QED
      BY <2>5, <2>7, <2>8
  <1>8. CASE Between(d, hd, st, cur, k, j) /\ k # g + 1
    <2>1. /\ cur.inWal = FALSE /\ j = 1 /\ k \in 1..g /\ cur.cursor = st[k] /\ cur.segmentEnd = st[k]
          /\ cur.readSequence = Wrap(LastOf(d, st, k - 1) + 1)
      BY <1>1, <1>8 DEF Between
    <2> DEFINE s == d[st[k]]
               nx == [cursor |-> st[k] + s.size, segmentEnd |-> After(st[k], s), inWal |-> FALSE,
                      readSequence |-> s.first]
    <2>2. st[k] # hd.dataEnd /\ st[k] \in Nat
      BY <1>1, <1>4, <2>1
    <2>3. ReadSegment(d, st[k], hd.dataEnd) = s /\ s # Bad
      <3>1. DataStart <= DataStart /\ hd.dataEnd \in Int /\ hd.dataEnd <= hd.dataEnd
        BY <1>1 DEF DataStart
      <3> QED
        BY <1>1, <2>1, <3>1, SegmentRead
    <2>4. /\ s.size \in {1, 2} /\ s.first \in 1..SeqMax /\ After(st[k], s) \in Nat /\ sf[k] \in Seq(FrameSet)
          /\ Len(sf[k]) \in Nat /\ Len(sf[k]) >= 1
      BY <1>2, <2>1, <2>2, WholeFacts
    <2>5. LastOf(d, st, k - 1) \in 0..SeqMax /\ LastOf(d, st, k - 1) < s.first
      <3>1. k - 1 \in 0..g /\ k - 1 < g /\ (k - 1) + 1 = k
        BY <1>1, <2>1
      <3> QED
        BY <1>1, <3>1, SequencesGrow
    <2>6. cur.readSequence = LastOf(d, st, k - 1) + 1 /\ cur.readSequence <= s.first
      <3>1. LastOf(d, st, k - 1) + 1 \in Nat /\ LastOf(d, st, k - 1) + 1 <= SeqMax
        BY <2>4, <2>5, LimitAssumption
      <3>2. Wrap(LastOf(d, st, k - 1) + 1) = LastOf(d, st, k - 1) + 1
        BY <3>1, WrapFacts
      <3> QED
        BY <2>1, <2>4, <2>5, <3>2
    <2>7. ~hd.retention => s.first = cur.readSequence
      BY <1>1, <2>1, <2>6 DEF Numbered
    <2>8. Entered(hd, cur, s) = nx
      <3>1. ~(/\ s.first # cur.readSequence
              /\ ~(hd.retention /\ s.first >= cur.readSequence))
        BY <2>4, <2>5, <2>6, <2>7
      <3> QED
        BY <2>1, <2>3, <3>1 DEF Entered
    <2>9. Settled(d, hd, cur) = nx
      <3>1. EnterWal(hd, cur) = cur
        BY <2>1, <2>2 DEF EnterWal
      <3> QED
        BY <2>1, <2>3, <2>8, <3>1 DEF Settled, EnterSegment
    <2>10. nx \in CursorType
      BY <2>2, <2>4, LimitAssumption DEF CursorType
    <2>11. InSegment(hd, st, sf, sa, nx, k, j)
      <3>1. IsFrames(d, st[k] + s.size, After(st[k], s), s.first, sf[k], sa[k])
        BY <1>2, <2>1 DEF SegmentWhole
      <3>2. 1 \in 1..Len(sf[k])
        BY <2>4
      <3>3. sa[k][1] = st[k] + s.size /\ sf[k][1].seq = s.first + (1 - 1)
        BY <3>1, <3>2 DEF IsFrames
      <3>4. sf[k][1].seq = s.first
        BY <2>4, <3>3
      <3>5. st[k + 1] = After(st[k], s)
        BY <1>2, <2>1
      <3> QED
        BY <2>1, <3>2, <3>3, <3>4, <3>5 DEF InSegment
    <2> QED
      BY <2>9, <2>10, <2>11
  <1> QED
    BY <1>5, <1>6, <1>7, <1>8 DEF At

\* A read inside a segment delivers the batch in front of the cursor and leaves
\* the cursor in front of the next one.
LEMMA ReadInSegment ==
  ASSUME NEW d, NEW w, NEW m, NEW hd, NEW st, NEW sf, NEW sa, NEW wf, NEW wa,
         Stored(d, w, m, hd, st, sf, sa, wf, wa), NEW cur \in CursorType, NEW k, NEW j,
         InSegment(hd, st, sf, sa, cur, k, j)
  PROVE  \E nx : /\ FrameUnder(d, w, hd, cur) = [kind |-> "read", frame |-> sf[k][j], cur |-> nx]
                 /\ nx.readSequence = Wrap(sf[k][j].seq + 1)
                 /\ IF j < Len(sf[k]) THEN At(d, hd, st, sf, sa, wf, wa, nx, k, j + 1)
                                      ELSE At(d, hd, st, sf, sa, wf, wa, nx, k + 1, 1)
  <1> DEFINE g == hd.generation
             f == sf[k][j]
             nx == [cur EXCEPT !.cursor = @ + FrameSize(f), !.readSequence = Wrap(@ + 1)]
  <1>1. /\ Layout(d, DataStart, hd.dataEnd, g, st, sf, sa) /\ g \in Nat
    BY StoredFacts
  <1>2. /\ cur.inWal = FALSE /\ k \in 1..g /\ j \in 1..Len(sf[k])
        /\ cur.cursor = sa[k][j] /\ cur.segmentEnd = st[k + 1] /\ cur.readSequence = f.seq
    BY DEF InSegment
  <1>3. /\ \A i \in 1..(g + 1) : st[i] \in Nat
        /\ \A i \in 1..g : SegmentWhole(d, st[i], sf[i], sa[i]) /\ st[i + 1] = After(st[i], d[st[i]])
    BY <1>1, LayoutFacts
  <1> DEFINE first == d[st[k]].first
             a == st[k] + d[st[k]].size
  <1>4. IsFrames(d, a, st[k + 1], first, sf[k], sa[k])
    BY <1>2, <1>3 DEF SegmentWhole
  <1>5. k \in 1..(g + 1) /\ k + 1 \in 1..(g + 1) /\ (k + 1) - 1 = k /\ k # 0
    BY <1>1, <1>2
  <1>6. /\ first \in 1..SeqMax /\ Len(sf[k]) \in Nat /\ sf[k] \in Seq(FrameSet)
        /\ d[st[k]].last \in 1..SeqMax /\ d[st[k]].last - first = Len(sf[k]) - 1
    <2>1. SegmentWhole(d, st[k], sf[k], sa[k]) /\ st[k] \in Nat
      BY <1>2, <1>3, <1>5
    <2> QED
      BY SMTT(30), <2>1, WholeFacts
  <1>7. f \in FrameSet /\ j \in Nat /\ j - 1 \in Nat
    BY <1>2, <1>6
  <1>8. FrameSize(f) \in Nat /\ f # Bad /\ f.seq \in 1..SeqMax
    BY <1>7, FrameFacts
  <1>9. f.seq = first + (j - 1) /\ sa[k][j + 1] = sa[k][j] + FrameSize(f)
    BY <1>2, <1>4 DEF IsFrames
  <1>10. st[k + 1] \in Int /\ st[k + 1] <= st[k + 1] /\ st[k + 1] \in Nat
    BY <1>3, <1>5
  <1>11. ReadFrame(d, sa[k][j], st[k + 1], f.seq) = f
    <2>1. ReadFrame(d, sa[k][j], st[k + 1], first + (j - 1)) = f
      BY <1>2, <1>4, <1>10, ReadFrameAt
    <2> QED
      BY <1>9, <2>1
  <1>12. cur # Bad
    <2>1. "cursor" \in DOMAIN cur
      BY DEF CursorType
    <2>2. "cursor" \notin DOMAIN Bad
      BY DEF Bad
    <2> QED
      BY <2>1, <2>2
  <1>13. FrameUnder(d, w, hd, cur) = [kind |-> "read", frame |-> f, cur |-> nx]
    <2> HIDE DEF f
    <2> QED
      BY <1>2, <1>8, <1>11, <1>12 DEF FrameUnder, Delivered
  <1>14. f.seq + 1 \in Nat /\ Wrap(f.seq + 1) \in 0..SeqMax
    <2>1. f.seq + 1 \in Nat
      BY <1>8
    <2> QED
      BY <2>1, WrapFacts
  <1>15. sa[k][j + 1] \in Nat
    <2>1. j + 1 \in 1..(Len(sf[k]) + 1) /\ sa[k] \in [1..(Len(sf[k]) + 1) -> Nat]
      BY <1>2, <1>4, <1>6 DEF IsFrames
    <2> QED
      BY <2>1
  <1>16. /\ nx \in CursorType /\ nx.inWal = FALSE /\ nx.cursor = sa[k][j + 1]
         /\ nx.segmentEnd = st[k + 1] /\ nx.readSequence = Wrap(f.seq + 1)
    <2>1. cur.cursor + FrameSize(f) = sa[k][j + 1]
      BY <1>2, <1>9
    <2> HIDE DEF f
    <2> QED
      BY <1>2, <1>14, <1>15, <2>1 DEF CursorType
  <1> HIDE DEF nx
  <1>17. CASE j < Len(sf[k])
    <2>1. j + 1 \in 1..Len(sf[k]) /\ sf[k][j + 1] \in FrameSet
      BY <1>2, <1>6, <1>17
    <2>2. sf[k][j + 1].seq = first + ((j + 1) - 1)
      BY <1>4, <2>1 DEF IsFrames
    <2>3. sf[k][j + 1].seq \in 1..SeqMax
      BY <2>1, FrameFacts
    <2>4. f.seq + 1 = sf[k][j + 1].seq /\ f.seq + 1 <= SeqMax
      BY <1>6, <1>7, <1>9, <2>2, <2>3, LimitAssumption
    <2>5. nx.readSequence = sf[k][j + 1].seq
      BY <1>14, <1>16, <2>4, WrapFacts
    <2>6. InSegment(hd, st, sf, sa, nx, k, j + 1)
      BY <1>2, <1>16, <2>1, <2>5 DEF InSegment
    <2>7. At(d, hd, st, sf, sa, wf, wa, nx, k, j + 1)
      BY <1>16, <2>6 DEF At
    <2> QED
      BY <1>13, <1>16, <1>17, <2>7
  <1>18. CASE ~(j < Len(sf[k]))
    <2>1. j = Len(sf[k])
      BY <1>2, <1>6, <1>18
    <2>2. sa[k][j + 1] = st[k + 1]
      BY <1>4, <2>1 DEF IsFrames
    <2>3. f.seq = LastOf(d, st, (k + 1) - 1)
      BY <1>5, <1>6, <1>9, <2>1 DEF LastOf
    <2>4. Between(d, hd, st, nx, k + 1, 1)
      BY <1>5, <1>16, <2>2, <2>3 DEF Between
    <2>5. At(d, hd, st, sf, sa, wf, wa, nx, k + 1, 1)
      BY <1>16, <2>4 DEF At
    <2> QED
      BY <1>13, <1>16, <1>18, <2>5
  <1> QED
    BY <1>17, <1>18

\* The same in the log, where a read at its end delivers nothing.
LEMMA ReadInLog ==
  ASSUME NEW d, NEW w, NEW m, NEW hd, NEW st, NEW sf, NEW sa, NEW wf, NEW wa,
         Stored(d, w, m, hd, st, sf, sa, wf, wa), NEW cur \in CursorType, NEW k, NEW j,
         InLog(hd, wf, wa, cur, k, j)
  PROVE  IF j <= Len(wf)
         THEN \E nx : /\ FrameUnder(d, w, hd, cur) = [kind |-> "read", frame |-> wf[j], cur |-> nx]
                      /\ nx.readSequence = Wrap(wf[j].seq + 1)
                      /\ At(d, hd, st, sf, sa, wf, wa, nx, k, j + 1)
         ELSE FrameUnder(d, w, hd, cur) = Done
  <1> DEFINE f == wf[j]
             nx == [cur EXCEPT !.cursor = @ + FrameSize(f), !.readSequence = Wrap(@ + 1)]
  <1>1. /\ IsFrames(w, WalStart, hd.end, hd.installed + 1, wf, wa)
        /\ wf \in Seq(FrameSet) /\ Len(wf) \in Nat /\ hd.end \in Nat
        /\ hd.installed \in 0..SeqMax /\ hd.sequence = hd.installed + Len(wf) /\ hd.sequence \in 0..SeqMax
    <2>1. IsFrames(w, WalStart, hd.end, hd.installed + 1, wf, wa)
      BY StoredFacts
    <2>2. wf \in Seq(FrameSet) /\ Len(wf) \in Nat /\ hd.end \in Nat
      BY StoredFacts
    <2>3. hd.installed \in 0..SeqMax /\ hd.sequence \in 0..SeqMax
      BY StoredFacts
    <2>4. hd.sequence = hd.installed + Len(wf)
      BY DEF Stored, HandleSays
    <2> QED
      BY <2>1, <2>2, <2>3, <2>4
  <1>2. /\ cur.inWal = TRUE /\ k = hd.generation + 1 /\ j \in 1..(Len(wf) + 1)
        /\ cur.cursor = wa[j] /\ cur.readSequence = Wrap(hd.installed + j)
    BY DEF InLog
  <1>3. cur # Bad
    <2>1. "cursor" \in DOMAIN cur
      BY DEF CursorType
    <2>2. "cursor" \notin DOMAIN Bad
      BY DEF Bad
    <2> QED
      BY <2>1, <2>2
  <1>4. CASE j <= Len(wf)
    <2>1. j \in 1..Len(wf) /\ j \in Nat /\ j \in 1..(Len(wf) + 1) /\ j \in j..(Len(wf) + 1) /\ j < Len(wf) + 1
          /\ j + 1 \in 1..(Len(wf) + 1) /\ f \in FrameSet
      BY <1>1, <1>2, <1>4
    <2>2. FrameSize(f) \in Nat /\ FrameSize(f) >= 1 /\ f # Bad
      BY <2>1, FrameFacts
    <2>3. wa[j] + FrameSize(f) <= hd.end /\ wa[j] \in Nat
      BY <1>1, <2>1, FramesGrow
    <2>4. wa[j] # hd.end
      BY <1>1, <2>2, <2>3
    <2>5. hd.installed + j \in Nat /\ hd.installed + j <= SeqMax /\ hd.installed + j = (hd.installed + 1) + (j - 1)
      <3>1. hd.installed \in Nat /\ j \in Nat /\ j <= Len(wf) /\ Len(wf) \in Nat /\ SeqMax \in Nat
            /\ hd.installed + Len(wf) <= SeqMax
        BY <1>1, <1>4, <2>1, LimitAssumption
      <3> QED
        BY <3>1
    <2>6. Wrap(hd.installed + j) = (hd.installed + 1) + (j - 1) /\ cur.readSequence = hd.installed + j
      BY <1>2, <2>5, WrapFacts
    <2>7. hd.end \in Int /\ hd.end <= hd.end
      BY <1>1
    <2>8. ReadFrame(w, wa[j], hd.end, (hd.installed + 1) + (j - 1)) = f
      BY <1>1, <2>1, <2>7, ReadFrameAt
    <2>9. FrameUnder(d, w, hd, cur) = [kind |-> "read", frame |-> f, cur |-> nx]
      <3> HIDE DEF f
      <3> QED
        BY <1>2, <1>3, <2>2, <2>4, <2>6, <2>8 DEF FrameUnder, Delivered
    <2>10. wa[j + 1] = wa[j] + FrameSize(f) /\ wa[j + 1] \in Nat
      BY <1>1, <2>1 DEF IsFrames
    <2>11. (hd.installed + j) + 1 = hd.installed + (j + 1) /\ hd.installed + (j + 1) \in Nat
      BY <1>1, <2>1
    <2>12. Wrap(hd.installed + (j + 1)) \in 0..SeqMax
      BY <2>11, WrapFacts
    <2>13. /\ nx \in CursorType /\ nx.inWal = TRUE /\ nx.cursor = wa[j + 1]
           /\ nx.readSequence = Wrap(hd.installed + (j + 1))
      <3> HIDE DEF f
      <3> QED
        BY <1>2, <2>6, <2>10, <2>11, <2>12 DEF CursorType
    <2> HIDE DEF nx
    <2>14. InLog(hd, wf, wa, nx, k, j + 1)
      BY <1>2, <2>1, <2>13 DEF InLog
    <2>15. At(d, hd, st, sf, sa, wf, wa, nx, k, j + 1)
      BY <2>13, <2>14 DEF At
    <2>16. f.seq + 1 = hd.installed + (j + 1)
      <3>1. f.seq = (hd.installed + 1) + (j - 1)
        BY <1>1, <2>1 DEF IsFrames
      <3> QED
        BY <2>5, <2>11, <3>1
    <2> QED
      BY <1>4, <2>9, <2>13, <2>15, <2>16
  <1>5. CASE ~(j <= Len(wf))
    <2>1. j = Len(wf) + 1
      BY <1>1, <1>2, <1>5
    <2>2. cur.cursor = hd.end
      BY <1>1, <1>2, <2>1 DEF IsFrames
    <2> QED
      BY <1>2, <1>3, <1>5, <2>2 DEF FrameUnder
  <1> QED
    BY <1>4, <1>5

\* A read delivers batch j of segment k, or of the log, or ends.
FromSegment(d, w, hd, st, sf, sa, wf, wa, cur, k, j) ==
    /\ k \in 1..hd.generation /\ j \in 1..Len(sf[k])
    /\ \E nx : /\ ReadCursor(d, w, hd, cur) = [kind |-> "read", frame |-> sf[k][j], cur |-> nx]
               /\ nx.readSequence = Wrap(sf[k][j].seq + 1)
               /\ IF j < Len(sf[k]) THEN At(d, hd, st, sf, sa, wf, wa, nx, k, j + 1)
                                    ELSE At(d, hd, st, sf, sa, wf, wa, nx, k + 1, 1)
FromLog(d, w, hd, st, sf, sa, wf, wa, cur, k, j) ==
    /\ k = hd.generation + 1 /\ j \in 1..Len(wf)
    /\ \E nx : /\ ReadCursor(d, w, hd, cur) = [kind |-> "read", frame |-> wf[j], cur |-> nx]
               /\ nx.readSequence = Wrap(wf[j].seq + 1)
               /\ At(d, hd, st, sf, sa, wf, wa, nx, k, j + 1)
AtEnd(d, w, hd, wf, cur, k, j) ==
    k = hd.generation + 1 /\ j = Len(wf) + 1 /\ ReadCursor(d, w, hd, cur) = Done

\* A call of read_cursor delivers the batch its cursor stands in front of.
LEMMA ReadAt ==
  ASSUME NEW d, NEW w, NEW m, NEW hd, NEW st, NEW sf, NEW sa, NEW wf, NEW wa,
         Stored(d, w, m, hd, st, sf, sa, wf, wa), NEW cur, NEW k, NEW j,
         At(d, hd, st, sf, sa, wf, wa, cur, k, j)
  PROVE  \/ FromSegment(d, w, hd, st, sf, sa, wf, wa, cur, k, j)
         \/ FromLog(d, w, hd, st, sf, sa, wf, wa, cur, k, j)
         \/ AtEnd(d, w, hd, wf, cur, k, j)
  <1> DEFINE s == Settled(d, hd, cur)
  <1>1. s \in CursorType
    BY SettledAt
  <1>2. InLog(hd, wf, wa, s, k, j) \/ InSegment(hd, st, sf, sa, s, k, j)
    BY SettledAt
  <1>3. ReadCursor(d, w, hd, cur) = FrameUnder(d, w, hd, s)
    BY DEF ReadCursor, Settled
  <1> HIDE DEF s
  <1>4. CASE InLog(hd, wf, wa, s, k, j)
    <2>1. k = hd.generation + 1 /\ j \in 1..(Len(wf) + 1)
      BY <1>4 DEF InLog
    <2>2. Len(wf) \in Nat
      BY StoredFacts
    <2>3. IF j <= Len(wf)
          THEN \E nx : /\ FrameUnder(d, w, hd, s) = [kind |-> "read", frame |-> wf[j], cur |-> nx]
                       /\ nx.readSequence = Wrap(wf[j].seq + 1)
                       /\ At(d, hd, st, sf, sa, wf, wa, nx, k, j + 1)
          ELSE FrameUnder(d, w, hd, s) = Done
      BY <1>1, <1>4, ReadInLog
    <2>4. CASE j <= Len(wf)
      <3>1. j \in 1..Len(wf)
        BY <2>1, <2>2, <2>4
      <3> QED
        BY <1>3, <2>1, <2>3, <2>4, <3>1 DEF FromLog
    <2>5. CASE ~(j <= Len(wf))
      <3>1. j = Len(wf) + 1
        BY <2>1, <2>2, <2>5
      <3> QED
        BY <1>3, <2>1, <2>3, <2>5, <3>1 DEF AtEnd
    <2> QED
      BY <2>4, <2>5
  <1>5. CASE InSegment(hd, st, sf, sa, s, k, j)
    <2>1. k \in 1..hd.generation /\ j \in 1..Len(sf[k])
      BY <1>5 DEF InSegment
    <2>2. \E nx : /\ FrameUnder(d, w, hd, s) = [kind |-> "read", frame |-> sf[k][j], cur |-> nx]
                  /\ nx.readSequence = Wrap(sf[k][j].seq + 1)
                  /\ IF j < Len(sf[k]) THEN At(d, hd, st, sf, sa, wf, wa, nx, k, j + 1)
                                       ELSE At(d, hd, st, sf, sa, wf, wa, nx, k + 1, 1)
      BY <1>1, <1>5, ReadInSegment
    <2> QED
      BY <1>3, <2>1, <2>2 DEF FromSegment
  <1> QED
    BY <1>2, <1>4, <1>5

------------------------------------------------------------------------------
(* The batches of the files in one sequence. *)

\* The batches lv of n segments and the log, segment k after the first lo[k].
Flat(n, sf, wf, lo, lv) ==
    /\ lo \in [1..(n + 1) -> Nat] /\ lo[1] = 0
    /\ \A k \in 1..n : lo[k + 1] = lo[k] + Len(sf[k])
    /\ lv \in Seq(FrameSet) /\ Len(lv) = lo[n + 1] + Len(wf)
    /\ \A k \in 1..n : \A j \in 1..Len(sf[k]) : lv[lo[k] + j] = sf[k][j]
    /\ \A j \in 1..Len(wf) : lv[lo[n + 1] + j] = wf[j]

\* Two sequences one after the other.
LEMMA Joined ==
  ASSUME NEW S, NEW s \in Seq(S), NEW t \in Seq(S)
  PROVE  /\ s \o t \in Seq(S) /\ Len(s \o t) = Len(s) + Len(t)
         /\ \A i \in 1..Len(s) : (s \o t)[i] = s[i]
         /\ \A i \in 1..Len(t) : (s \o t)[Len(s) + i] = t[i]
  OBVIOUS

\* The element at each place of them.
LEMMA JoinedAt ==
  ASSUME NEW S, NEW s \in Seq(S), NEW t \in Seq(S), NEW i \in 1..(Len(s) + Len(t))
  PROVE  (s \o t)[i] = IF i <= Len(s) THEN s[i] ELSE t[i - Len(s)]
  OBVIOUS

\* Later segments lie further on.
LEMMA FlatGrows ==
  ASSUME NEW n \in Nat, NEW sf, \A k \in 1..n : sf[k] \in Seq(FrameSet), NEW wf, Len(wf) \in Nat, NEW lo, NEW lv,
         Flat(n, sf, wf, lo, lv), NEW k \in 1..(n + 1)
  PROVE  /\ \A i \in 1..k : lo[i] <= lo[k]
         /\ lo[k] \in Nat /\ Len(lv) \in Nat /\ lo[k] <= Len(lv)
         /\ k <= n => \A j \in 1..Len(sf[k]) : lo[k] + j \in 1..Len(lv)
  <1>1. /\ lo \in [1..(n + 1) -> Nat]
        /\ \A i \in 1..n : lo[i + 1] = lo[i] + Len(sf[i])
        /\ Len(lv) = lo[n + 1] + Len(wf)
    BY DEF Flat
  <1>2. ASSUME NEW a \in 1..(n + 1), NEW b \in a..(n + 1) PROVE lo[a] <= lo[b]
    <2> DEFINE U == {u \in Nat : a + u <= n + 1 => lo[a] <= lo[a + u]}
    <2>1. 0 \in U
      <3>1. a + 0 = a /\ lo[a] \in Nat
        BY <1>1
      <3> QED
        BY <3>1
    <2>2. ASSUME NEW u \in 0..((b - a) - 1), u \in U PROVE u + 1 \in U
      <3>1. u \in Nat /\ a + u \in 1..n /\ a + u \in 1..(n + 1) /\ a + (u + 1) = (a + u) + 1 /\ a + (u + 1) \in 1..(n + 1)
        OBVIOUS
      <3>2. lo[(a + u) + 1] = lo[a + u] + Len(sf[a + u]) /\ lo[a + u] \in Nat /\ lo[a] \in Nat
        BY <1>1, <3>1
      <3>3. Len(sf[a + u]) \in Nat
        BY <3>1
      <3>4. lo[a] <= lo[a + u]
        BY <2>2, <3>1
      <3>5. lo[a] <= lo[a + (u + 1)]
        BY <3>1, <3>2, <3>3, <3>4
      <3> QED
        BY <3>1, <3>5
    <2>3. b - a \in Nat
      OBVIOUS
    <2>4. b - a \in U
      <3> HIDE DEF U
      <3>1. \A u \in 0..(b - a) : u \in U
        BY <2>1, <2>2, <2>3, UpTo
      <3> QED
        BY <2>3, <3>1
    <2>5. a + (b - a) = b
      OBVIOUS
    <2> QED
      BY <2>4, <2>5
  <1>3. lo[k] \in Nat /\ lo[n + 1] \in Nat /\ lo[k] <= lo[n + 1]
    <2>1. n + 1 \in k..(n + 1) /\ n + 1 \in 1..(n + 1)
      OBVIOUS
    <2> QED
      BY <1>1, <1>2, <2>1
  <1>4. ASSUME NEW i \in 1..k PROVE lo[i] <= lo[k]
    <2>1. i \in 1..(n + 1) /\ k \in i..(n + 1)
      OBVIOUS
    <2> QED
      BY <1>2, <2>1
  <1>5. ASSUME k <= n, NEW j \in 1..Len(sf[k]) PROVE lo[k] + j \in 1..Len(lv)
    <2>1. k \in 1..n /\ k + 1 \in 1..(n + 1) /\ n + 1 \in (k + 1)..(n + 1)
      BY <1>5
    <2>2. lo[k + 1] = lo[k] + Len(sf[k]) /\ lo[k + 1] <= lo[n + 1] /\ lo[k + 1] \in Nat
      BY <1>1, <1>2, <2>1
    <2>3. Len(sf[k]) \in Nat
      BY <2>1
    <2>4. j \in Nat /\ j >= 1 /\ j <= Len(sf[k])
      BY <1>5, <2>3
    <2>5. lo[k] + j \in Nat /\ lo[k] + j >= 1 /\ lo[k] + j <= lo[n + 1]
      <3> DEFINE x == lo[k]
                 y == lo[k + 1]
                 z == lo[n + 1]
                 l == Len(sf[k])
      <3>1. x \in Nat /\ y \in Nat /\ z \in Nat /\ l \in Nat /\ y = x + l /\ y <= z /\ j \in Nat /\ j >= 1 /\ j <= l
        BY <1>3, <2>2, <2>3, <2>4
      <3> HIDE DEF x, y, z, l
      <3>2. x + j \in Nat /\ x + j >= 1 /\ x + j <= z
        BY <3>1
      <3> QED
        BY <3>2 DEF x, z
    <2> QED
      BY <1>1, <1>3, <2>5
  <1> QED
    BY <1>1, <1>3, <1>4, <1>5

\* A batch of a segment has a place among all batches.
LEMMA FlatInside ==
  ASSUME NEW n \in Nat, NEW sf, \A x \in 1..n : sf[x] \in Seq(FrameSet), NEW wf, Len(wf) \in Nat, NEW lo, NEW lv,
         Flat(n, sf, wf, lo, lv), NEW k \in 1..n, NEW j \in 1..Len(sf[k])
  PROVE  lo[k] + j \in 1..Len(lv)
  <1>1. k \in 1..(n + 1) /\ k <= n
    OBVIOUS
  <1>2. k <= n => \A y \in 1..Len(sf[k]) : lo[k] + y \in 1..Len(lv)
    BY <1>1, FlatGrows
  <1> QED
    BY <1>1, <1>2

\* There is such a sequence.
LEMMA FlatExists ==
  ASSUME NEW n \in Nat, NEW sf, \A k \in 1..n : sf[k] \in Seq(FrameSet), NEW wf \in Seq(FrameSet)
  PROVE  \E lo, lv : Flat(n, sf, wf, lo, lv)
  <1> DEFINE T == {t \in Nat : \E lo, lv : Flat(t, sf, <<>>, lo, lv)}
  <1>1. 0 \in T
    <2>1. Flat(0, sf, <<>>, [k \in 1..1 |-> 0], <<>>)
      BY DEF Flat
    <2> QED
      BY <2>1
  <1>2. ASSUME NEW t \in 0..(n - 1), t \in T PROVE t + 1 \in T
    <2>1. PICK lo, lv : Flat(t, sf, <<>>, lo, lv)
      BY <1>2
    <2>2. t \in Nat /\ t + 1 \in Nat /\ t + 1 \in 1..n
      OBVIOUS
    <2>3. sf[t + 1] \in Seq(FrameSet) /\ Len(sf[t + 1]) \in Nat
      BY <2>2
    <2>4. /\ lo \in [1..(t + 1) -> Nat] /\ lo[1] = 0
          /\ \A k \in 1..t : lo[k + 1] = lo[k] + Len(sf[k])
          /\ lv \in Seq(FrameSet) /\ Len(lv) = lo[t + 1] + 0
          /\ \A k \in 1..t : \A j \in 1..Len(sf[k]) : lv[lo[k] + j] = sf[k][j]
      BY <2>1 DEF Flat
    <2> DEFINE l2 == Longer(lo, t + 1, lo[t + 1] + Len(sf[t + 1]))
               v2 == lv \o sf[t + 1]
    <2>5. lo[t + 1] \in Nat /\ Len(lv) = lo[t + 1]
      BY <2>2, <2>4
    <2>6. /\ l2 \in [1..((t + 1) + 1) -> Nat] /\ l2[1] = 0
          /\ \A k \in 1..(t + 1) : l2[k] = lo[k]
          /\ l2[t + 2] = lo[t + 1] + Len(sf[t + 1])
      BY <2>2, <2>3, <2>4, <2>5 DEF Longer
    <2>7. v2 \in Seq(FrameSet) /\ Len(v2) = lo[t + 1] + Len(sf[t + 1])
      <3>1. v2 \in Seq(FrameSet) /\ Len(v2) = Len(lv) + Len(sf[t + 1])
        BY <2>3, <2>4, Joined
      <3> QED
        BY <2>5, <3>1
    <2>8. ASSUME NEW i \in 1..Len(lv) PROVE v2[i] = lv[i]
      BY <2>3, <2>4, Joined
    <2>9. ASSUME NEW j \in 1..Len(sf[t + 1]) PROVE v2[lo[t + 1] + j] = sf[t + 1][j]
      BY <2>3, <2>4, <2>5, Joined
    <2> HIDE DEF l2, v2
    <2>10. \A k \in 1..(t + 1) : l2[k + 1] = l2[k] + Len(sf[k])
      <3>1. SUFFICES ASSUME NEW k \in 1..(t + 1) PROVE l2[k + 1] = l2[k] + Len(sf[k])
        OBVIOUS
      <3>2. CASE k = t + 1
        <4>1. k + 1 = t + 2
          BY <2>2, <3>2
        <4> QED
          BY <2>6, <3>2, <4>1
      <3>3. CASE k # t + 1
        <4>1. k \in 1..t /\ k + 1 \in 1..(t + 1)
          BY <2>2, <3>3
        <4> QED
          BY <2>4, <2>6, <4>1
      <3> QED
        BY <3>2, <3>3
    <2>11. ASSUME NEW k \in 1..(t + 1), NEW j \in 1..Len(sf[k]) PROVE v2[l2[k] + j] = sf[k][j]
      <3>1. CASE k = t + 1
        BY <2>6, <2>9, <3>1
      <3>2. CASE k # t + 1
        <4>1. k \in 1..t
          BY <2>2, <3>2
        <4>2. lv[lo[k] + j] = sf[k][j] /\ l2[k] = lo[k]
          BY <2>4, <2>6, <4>1
        <4>3. lo[k] + j \in 1..Len(lv)
          <5>1. \A x \in 1..t : sf[x] \in Seq(FrameSet)
            BY <2>2
          <5>2. Len(<<>>) \in Nat /\ k \in 1..(t + 1) /\ k <= t
            BY <2>2, <4>1
          <5> QED
            BY <2>1, <2>2, <5>1, <5>2, FlatGrows
        <4> QED
          BY <2>8, <4>2, <4>3
      <3> QED
        BY <3>1, <3>2
    <2>12. (t + 1) + 1 = t + 2 /\ Len(<<>>) = 0 /\ 1..0 = {}
      BY <2>2
    <2>13. Len(v2) = l2[(t + 1) + 1] + Len(<<>>)
      BY <2>3, <2>5, <2>6, <2>7, <2>12
    <2>14. Flat(t + 1, sf, <<>>, l2, v2)
      BY <2>6, <2>7, <2>10, <2>11, <2>12, <2>13 DEF Flat
    <2> QED
      BY <2>2, <2>14
  <1>3. n \in T
    <2> HIDE DEF T
    <2>1. \A t \in 0..n : t \in T
      BY <1>1, <1>2, UpTo
    <2> QED
      BY <2>1
  <1>4. PICK lo, lv : Flat(n, sf, <<>>, lo, lv)
    BY <1>3
  <1> DEFINE v3 == lv \o wf
  <1>5. /\ lo \in [1..(n + 1) -> Nat] /\ lo[1] = 0
        /\ \A k \in 1..n : lo[k + 1] = lo[k] + Len(sf[k])
        /\ lv \in Seq(FrameSet) /\ Len(lv) = lo[n + 1] + 0
        /\ \A k \in 1..n : \A j \in 1..Len(sf[k]) : lv[lo[k] + j] = sf[k][j]
    BY <1>4 DEF Flat
  <1>6. Len(lv) = lo[n + 1] /\ lo[n + 1] \in Nat /\ Len(wf) \in Nat
    BY <1>5
  <1>7. v3 \in Seq(FrameSet) /\ Len(v3) = lo[n + 1] + Len(wf)
    <2>1. v3 \in Seq(FrameSet) /\ Len(v3) = Len(lv) + Len(wf)
      BY <1>5, Joined
    <2> QED
      BY <1>6, <2>1
  <1>8. ASSUME NEW j \in 1..Len(wf) PROVE v3[lo[n + 1] + j] = wf[j]
    BY <1>5, <1>6, Joined
  <1>9. ASSUME NEW i \in 1..Len(lv) PROVE v3[i] = lv[i]
    BY <1>5, Joined
  <1>10. ASSUME NEW k \in 1..n, NEW j \in 1..Len(sf[k]) PROVE v3[lo[k] + j] = sf[k][j]
    <2>1. lo[k] + j \in 1..Len(lv)
      <3>1. Len(<<>>) \in Nat /\ k \in 1..(n + 1) /\ k <= n
        OBVIOUS
      <3> QED
        BY <1>4, <3>1, FlatGrows
    <2> QED
      BY <1>5, <1>9, <2>1
  <1> HIDE DEF v3
  <1>11. Flat(n, sf, wf, lo, v3)
    BY <1>5, <1>7, <1>8, <1>10 DEF Flat
  <1> QED
    BY <1>11

\* Place i of the sequence is place j of segment k or, past the segments, of the log.
PlaceOf(n, sf, wf, lo, i, k, j) ==
    /\ i = lo[k] + j
    /\ \/ k \in 1..n /\ j \in 1..Len(sf[k])
       \/ k = n + 1 /\ j \in 1..(Len(wf) + 1)

\* Every place in the sequence is one in a segment or in the log.
LEMMA FlatPlace ==
  ASSUME NEW n \in Nat, NEW sf, \A k \in 1..n : sf[k] \in Seq(FrameSet), NEW wf, Len(wf) \in Nat, NEW lo, NEW lv,
         Flat(n, sf, wf, lo, lv), NEW i \in 1..(Len(lv) + 1)
  PROVE  \E k \in 1..(n + 1), j \in Nat : PlaceOf(n, sf, wf, lo, i, k, j)
  <1>1. /\ lo \in [1..(n + 1) -> Nat] /\ lo[1] = 0
        /\ \A k \in 1..n : lo[k + 1] = lo[k] + Len(sf[k])
        /\ Len(lv) = lo[n + 1] + Len(wf)
    BY DEF Flat
  <1> DEFINE T == {k \in 1..(n + 1) : lo[k] < i}
  <1>2. lo[n + 1] \in Nat /\ Len(lv) \in Nat /\ i \in Nat /\ i >= 1 /\ i <= (lo[n + 1] + Len(wf)) + 1
    BY <1>1
  <1>3. 1 \in T
    BY <1>1, <1>2
  <1>4. T \subseteq 0..(n + 1) /\ T # {} /\ n + 1 \in Nat
    BY <1>3
  <1> DEFINE k == Max(T)
  <1>5. k \in T /\ \A y \in T : k >= y
    <2> HIDE DEF T
    <2> QED
      BY <1>4, MaxExists
  <1>6. k \in 1..(n + 1) /\ lo[k] < i /\ lo[k] \in Nat
    BY <1>1, <1>5
  <1> HIDE DEF k
  <1> DEFINE x == lo[k]
             j == i - x
  <1>7. j \in Nat /\ j >= 1 /\ i = x + j
    BY SMTT(30), <1>2, <1>6
  <1>8. CASE k = n + 1
    <2>1. j \in 1..(Len(wf) + 1)
      BY <1>2, <1>6, <1>7, <1>8
    <2> QED
      BY <1>6, <1>7, <1>8, <2>1 DEF PlaceOf
  <1>9. CASE k # n + 1
    <2>1. k \in 1..n /\ k + 1 \in 1..(n + 1) /\ ~(k >= k + 1)
      BY <1>6, <1>9
    <2>2. k + 1 \notin T
      BY <1>5, <2>1
    <2>3. lo[k + 1] >= i /\ lo[k + 1] = x + Len(sf[k])
      BY <1>1, <1>2, <2>1, <2>2
    <2>4. Len(sf[k]) \in Nat
      BY <2>1
    <2>5. j \in 1..Len(sf[k])
      <3>1. x \in Nat
        BY <1>6
      <3> HIDE DEF x
      <3> QED
        BY <1>2, <1>7, <2>3, <2>4, <3>1
    <2> QED
      BY <1>6, <1>7, <2>1, <2>5 DEF PlaceOf
  <1> QED
    BY <1>8, <1>9

\* Two sequences with the same length and the same elements are the same.
LEMMA SameSequence ==
  ASSUME NEW S, NEW s \in Seq(S), NEW t \in Seq(S), Len(s) = Len(t), \A i \in 1..Len(s) : s[i] = t[i]
  PROVE  s = t
  OBVIOUS

\* The segments of sound files hold batches.
LEMMA StoredSegments ==
  ASSUME NEW d, NEW w, NEW m, NEW hd, NEW st, NEW sf, NEW sa, NEW wf, NEW wa,
         Stored(d, w, m, hd, st, sf, sa, wf, wa)
  PROVE  /\ hd.generation \in Nat /\ \A k \in 1..hd.generation : sf[k] \in Seq(FrameSet)
         /\ wf \in Seq(FrameSet) /\ Len(wf) \in Nat
         /\ \A k \in 1..hd.generation : st[k] \in Nat /\ SegmentWhole(d, st[k], sf[k], sa[k])
  <1>1. Layout(d, DataStart, hd.dataEnd, hd.generation, st, sf, sa) /\ wf \in Seq(FrameSet) /\ Len(wf) \in Nat
    BY StoredFacts
  <1>2. /\ hd.generation \in Nat
        /\ \A k \in 1..(hd.generation + 1) : st[k] \in Nat
        /\ \A k \in 1..hd.generation : SegmentWhole(d, st[k], sf[k], sa[k])
    BY <1>1, LayoutFacts
  <1>3. \A k \in 1..hd.generation : k \in 1..(hd.generation + 1)
    BY <1>2
  <1>4. ASSUME NEW k \in 1..hd.generation PROVE sf[k] \in Seq(FrameSet)
    BY <1>2, <1>3, WholeFacts
  <1> QED
    BY <1>1, <1>2, <1>3, <1>4

\* Walking the files yields that sequence.
LEMMA FlatLive ==
  ASSUME NEW d, NEW w, NEW m, NEW hd, NEW st, NEW sf, NEW sa, NEW wf, NEW wa,
         Stored(d, w, m, hd, st, sf, sa, wf, wa), NEW lo, NEW lv, Flat(hd.generation, sf, wf, lo, lv)
  PROVE  LiveBatches(d, w, hd) = lv
  <1> DEFINE n == hd.generation
             G == Gathered(d, n)
  <1>1. /\ n \in Nat /\ \A k \in 1..n : sf[k] \in Seq(FrameSet)
        /\ wf \in Seq(FrameSet) /\ Len(wf) \in Nat
        /\ \A k \in 1..n : st[k] \in Nat /\ SegmentWhole(d, st[k], sf[k], sa[k])
    BY StoredSegments
  <1>2. Cells(d) /\ Layout(d, DataStart, hd.dataEnd, n, st, sf, sa)
    BY StoredFacts
  <1>3. SegmentStarts(d, DataStart, n) = st
    <2>1. 0 \in 0..n
      BY <1>1
    <2> QED
      BY <1>2, <2>1, StartsFound
  <1>4. G[0] = <<>> /\ \A k \in 0..(n - 1) : G[k + 1] = GatherStep(d, n, (k + 1), G[k])
    BY <1>1, GatherTurns
  <1> HIDE DEF G
  <1>5. /\ lo \in [1..(n + 1) -> Nat] /\ lo[1] = 0
        /\ \A k \in 1..n : lo[k + 1] = lo[k] + Len(sf[k])
        /\ lv \in Seq(FrameSet) /\ Len(lv) = lo[n + 1] + Len(wf)
        /\ \A k \in 1..n : \A j \in 1..Len(sf[k]) : lv[lo[k] + j] = sf[k][j]
        /\ \A j \in 1..Len(wf) : lv[lo[n + 1] + j] = wf[j]
    BY DEF Flat
  <1> DEFINE T == {k \in 0..n : /\ G[k] \in Seq(FrameSet) /\ Len(G[k]) = lo[k + 1]
                                /\ \A i \in 1..lo[k + 1] : G[k][i] = lv[i]}
  <1>6. 0 \in T
    <2>1. 0 + 1 = 1 /\ 1..0 = {} /\ Len(<<>>) = 0 /\ <<>> \in Seq(FrameSet)
      OBVIOUS
    <2>2. lo[0 + 1] = 0 /\ Len(G[0]) = 0 /\ G[0] \in Seq(FrameSet)
      BY <1>4, <1>5, <2>1
    <2> QED
      BY <1>1, <2>1, <2>2
  <1>7. ASSUME NEW k \in 0..(n - 1), k \in T PROVE k + 1 \in T
    <2>1. k + 1 \in 1..n /\ k + 1 \in 1..(n + 1) /\ (k + 1) + 1 \in 1..(n + 1) /\ k + 1 \in 0..n
      BY <1>1
    <2> DEFINE s == sf[k + 1]
               x == lo[k + 1]
               y == lo[(k + 1) + 1]
    <2>2. SegmentFrames(d, st[k + 1]) = s
      BY <1>1, <1>2, <2>1, SegmentFramesFound
    <2>3. G[k + 1] = G[k] \o s
      BY <1>3, <1>4, <2>2 DEF GatherStep
    <2>4. G[k] \in Seq(FrameSet) /\ Len(G[k]) = x /\ \A i \in 1..x : G[k][i] = lv[i]
      BY <1>7
    <2>5. s \in Seq(FrameSet) /\ Len(s) \in Nat /\ x \in Nat /\ y = x + Len(s) /\ \A j \in 1..Len(s) : lv[x + j] = s[j]
      <3>1. s \in Seq(FrameSet) /\ Len(s) \in Nat
        BY <1>1, <2>1
      <3>2. x \in Nat /\ y = x + Len(s)
        BY <1>5, <2>1
      <3>3. \A j \in 1..Len(s) : lv[x + j] = s[j]
        BY <1>5, <2>1
      <3> QED
        BY <3>1, <3>2, <3>3
    <2> HIDE DEF s, x, y
    <2>6. /\ G[k + 1] \in Seq(FrameSet) /\ Len(G[k + 1]) = x + Len(s)
          /\ \A i \in 1..(x + Len(s)) : G[k + 1][i] = IF i <= x THEN G[k][i] ELSE s[i - x]
      <3> DEFINE r == G[k]
      <3>1. r \in Seq(FrameSet) /\ Len(r) = x
        BY <2>4
      <3> HIDE DEF r
      <3>2. r \o s \in Seq(FrameSet) /\ Len(r \o s) = x + Len(s)
        BY <2>5, <3>1, Joined
      <3>3. ASSUME NEW i \in 1..(x + Len(s)) PROVE (r \o s)[i] = IF i <= x THEN r[i] ELSE s[i - x]
        BY <2>5, <3>1, JoinedAt
      <3> QED
        BY <2>3, <3>2, <3>3 DEF r
    <2>7. ASSUME NEW i \in 1..y PROVE G[k + 1][i] = lv[i]
      <3>0. i \in 1..(x + Len(s))
        BY <2>5
      <3>1. CASE i <= x
        <4>1. i \in 1..x
          BY <2>5, <3>1
        <4> QED
          BY <2>4, <2>6, <3>0, <3>1, <4>1
      <3>2. CASE ~(i <= x)
        <4>1. i - x \in 1..Len(s) /\ x + (i - x) = i
          BY <2>5, <3>2
        <4>2. lv[x + (i - x)] = s[i - x]
          BY <2>5, <4>1
        <4> QED
          BY <2>6, <3>0, <3>2, <4>1, <4>2
      <3> QED
        BY <3>1, <3>2
    <2>8. Len(G[k + 1]) = y
      BY <2>4, <2>5, <2>6
    <2> QED
      BY <2>1, <2>6, <2>7, <2>8 DEF y
  <1>8. n \in T
    <2> HIDE DEF T
    <2>1. \A k \in 0..n : k \in T
      BY <1>1, <1>6, <1>7, UpTo
    <2> QED
      BY <1>1, <2>1
  <1> DEFINE z == lo[n + 1]
  <1>9. G[n] \in Seq(FrameSet) /\ Len(G[n]) = z /\ \A i \in 1..z : G[n][i] = lv[i]
    BY <1>8
  <1>10. z \in Nat /\ Len(lv) = z + Len(wf) /\ \A j \in 1..Len(wf) : lv[z + j] = wf[j]
    BY <1>1, <1>5
  <1>11. FramesFrom(w, WalStart, hd.end, hd.installed + 1) = wf
    <2>1. Cells(w) /\ IsFrames(w, WalStart, hd.end, hd.installed + 1, wf, wa) /\ hd.installed \in 0..SeqMax
      BY StoredFacts
    <2>2. hd.installed + 1 \in Int
      BY <2>1
    <2> QED
      BY <2>1, <2>2, FramesFound
  <1> HIDE DEF z
  <1> DEFINE v == G[n] \o wf
  <1>12. /\ v \in Seq(FrameSet) /\ Len(v) = z + Len(wf)
         /\ \A i \in 1..(z + Len(wf)) : v[i] = IF i <= z THEN G[n][i] ELSE wf[i - z]
    <2> DEFINE r == G[n]
    <2>1. r \in Seq(FrameSet) /\ Len(r) = z
      BY <1>9
    <2> HIDE DEF r
    <2>2. r \o wf \in Seq(FrameSet) /\ Len(r \o wf) = z + Len(wf)
      BY <1>1, <2>1, Joined
    <2>3. ASSUME NEW i \in 1..(z + Len(wf)) PROVE (r \o wf)[i] = IF i <= z THEN r[i] ELSE wf[i - z]
      BY <1>1, <2>1, JoinedAt
    <2> QED
      BY <2>2, <2>3 DEF r
  <1>13. LiveBatches(d, w, hd) = v
    <2>1. hd.failed = FALSE
      BY DEF Stored, HandleSays
    <2> QED
      BY <1>11, <2>1 DEF LiveBatches, G
  <1> HIDE DEF v
  <1>14. ASSUME NEW i \in 1..Len(v) PROVE v[i] = lv[i]
    <2>0. i \in 1..(z + Len(wf))
      BY <1>12
    <2>1. CASE i <= z
      <3>1. i \in 1..z
        BY <1>1, <1>10, <2>0, <2>1
      <3> QED
        BY <1>9, <1>12, <2>0, <2>1, <3>1
    <2>2. CASE ~(i <= z)
      <3>1. i - z \in 1..Len(wf) /\ z + (i - z) = i
        BY <1>1, <1>10, <2>0, <2>2
      <3>2. lv[z + (i - z)] = wf[i - z]
        BY <1>10, <3>1
      <3> QED
        BY <1>12, <2>0, <2>2, <3>1, <3>2
    <2> QED
      BY <2>1, <2>2
  <1>15. v = lv
    <2>1. Len(v) = Len(lv)
      BY <1>9, <1>10, <1>12
    <2> QED
      BY <1>5, <1>12, <1>14, <2>1, SameSequence
  <1> QED
    BY <1>13, <1>15

\* The sequences of the batches of a segment count up from the first.
SegmentNumbers(s, fr) ==
    /\ Len(fr) \in Nat /\ Len(fr) >= 1
    /\ s.first \in 1..SeqMax /\ s.last \in 1..SeqMax
    /\ s.last - s.first = Len(fr) - 1
    /\ \A j \in 1..Len(fr) : fr[j].seq = s.first + (j - 1)

\* The sequences of the batches of each segment.
LEMMA StoredNumbers ==
  ASSUME NEW d, NEW w, NEW m, NEW hd, NEW st, NEW sf, NEW sa, NEW wf, NEW wa,
         Stored(d, w, m, hd, st, sf, sa, wf, wa), NEW k \in 1..hd.generation
  PROVE  SegmentNumbers(d[st[k]], sf[k])
  <1>1. st[k] \in Nat /\ SegmentWhole(d, st[k], sf[k], sa[k])
    BY StoredSegments
  <1>2. Len(sf[k]) \in Nat /\ Len(sf[k]) >= 1
    BY <1>1, WholeFacts
  <1>3. d[st[k]].first \in 1..SeqMax /\ d[st[k]].last \in 1..SeqMax
    BY <1>1, WholeFacts
  <1>4. d[st[k]].last - d[st[k]].first = Len(sf[k]) - 1
    BY <1>1, WholeFacts
  <1>5. IsFrames(d, st[k] + d[st[k]].size, After(st[k], d[st[k]]), d[st[k]].first, sf[k], sa[k])
    BY <1>1 DEF SegmentWhole
  <1>6. \A j \in 1..Len(sf[k]) : sf[k][j].seq = d[st[k]].first + (j - 1)
    BY <1>5 DEF IsFrames
  <1> QED
    BY <1>2, <1>3, <1>4, <1>6 DEF SegmentNumbers

\* The sequences of the batches of the log.
LEMMA LogNumbers ==
  ASSUME NEW d, NEW w, NEW m, NEW hd, NEW st, NEW sf, NEW sa, NEW wf, NEW wa,
         Stored(d, w, m, hd, st, sf, sa, wf, wa), NEW j \in 1..Len(wf)
  PROVE  wf[j].seq = hd.installed + j
  <1>1. IsFrames(w, WalStart, hd.end, hd.installed + 1, wf, wa)
    BY StoredFacts
  <1>2. hd.installed \in 0..SeqMax /\ Len(wf) \in Nat
    BY StoredFacts
  <1>3. wf[j].seq = (hd.installed + 1) + (j - 1)
    BY <1>1 DEF IsFrames
  <1> QED
    BY <1>2, <1>3

\* There are no more batches than sequences.
LEMMA FlatLength ==
  ASSUME NEW d, NEW w, NEW m, NEW hd, NEW st, NEW sf, NEW sa, NEW wf, NEW wa,
         Stored(d, w, m, hd, st, sf, sa, wf, wa), NEW lo, NEW lv, Flat(hd.generation, sf, wf, lo, lv)
  PROVE  Len(lv) \in Nat /\ Len(lv) <= hd.sequence
  <1> DEFINE n == hd.generation
             T == {k \in 0..n : lo[k + 1] <= LastOf(d, st, k)}
  <1>1. /\ Layout(d, DataStart, hd.dataEnd, n, st, sf, sa) /\ n \in Nat /\ Len(wf) \in Nat
        /\ hd.installed \in 0..SeqMax /\ LastOf(d, st, n) <= hd.installed
    BY StoredFacts
  <1>2. /\ lo \in [1..(n + 1) -> Nat] /\ lo[1] = 0
        /\ \A k \in 1..n : lo[k + 1] = lo[k] + Len(sf[k])
        /\ Len(lv) = lo[n + 1] + Len(wf)
    BY DEF Flat
  <1>3. 0 \in T
    BY <1>1, <1>2 DEF LastOf
  <1>4. ASSUME NEW k \in 0..(n - 1), k \in T PROVE k + 1 \in T
    <2>1. k + 1 \in 1..n /\ k + 1 \in 1..(n + 1) /\ k \in 0..n /\ k < n /\ k + 1 \in 0..n /\ k + 1 # 0
      BY <1>1
    <2> DEFINE a == lo[k + 1]
               b == lo[(k + 1) + 1]
               l == Len(sf[k + 1])
               f == d[st[k + 1]].first
               z == d[st[k + 1]].last
               y == LastOf(d, st, k)
    <2>2. b = a + l /\ a \in Nat
      BY <1>2, <2>1
    <2>3. l \in Nat /\ f \in 1..SeqMax /\ z \in 1..SeqMax /\ z - f = l - 1
      <3>1. SegmentNumbers(d[st[k + 1]], sf[k + 1])
        BY <2>1, StoredNumbers
      <3> QED
        BY <3>1 DEF SegmentNumbers
    <2>4. y \in 0..SeqMax /\ y < f
      BY <1>1, <2>1, SequencesGrow
    <2>5. a <= y
      BY <1>4
    <2>6. LastOf(d, st, k + 1) = z
      BY <2>1 DEF LastOf
    <2> HIDE DEF a, b, l, f, z, y
    <2>7. b <= z
      BY <2>2, <2>3, <2>4, <2>5, LimitAssumption
    <2> QED
      BY <2>1, <2>6, <2>7 DEF b
  <1>5. n \in T
    <2> HIDE DEF T
    <2>1. \A k \in 0..n : k \in T
      BY <1>1, <1>3, <1>4, UpTo
    <2> QED
      BY <1>1, <2>1
  <1>6. lo[n + 1] <= LastOf(d, st, n) /\ LastOf(d, st, n) \in 0..SeqMax /\ lo[n + 1] \in Nat
    <2>1. n \in 0..n /\ n + 1 \in 1..(n + 1)
      BY <1>1
    <2> QED
      BY <1>1, <1>2, <1>5, <2>1, SequencesGrow
  <1>7. hd.sequence = hd.installed + Len(wf)
    BY DEF Stored, HandleSays
  <1> QED
    BY <1>1, <1>2, <1>6, <1>7, LimitAssumption

\* The sequences of the batches grow.
LEMMA FlatNumbers ==
  ASSUME NEW d, NEW w, NEW m, NEW hd, NEW st, NEW sf, NEW sa, NEW wf, NEW wa,
         Stored(d, w, m, hd, st, sf, sa, wf, wa), NEW lo, NEW lv, Flat(hd.generation, sf, wf, lo, lv),
         NEW x \in 1..Len(lv), NEW y \in 1..Len(lv), x < y
  PROVE  lv[x].seq < lv[y].seq
  <1> DEFINE n == hd.generation
  <1>1. /\ n \in Nat /\ \A k \in 1..n : sf[k] \in Seq(FrameSet)
        /\ wf \in Seq(FrameSet) /\ Len(wf) \in Nat
    BY StoredSegments
  <1>2. /\ lo \in [1..(n + 1) -> Nat] /\ lo[1] = 0
        /\ \A k \in 1..n : lo[k + 1] = lo[k] + Len(sf[k])
        /\ lv \in Seq(FrameSet) /\ Len(lv) = lo[n + 1] + Len(wf)
        /\ \A k \in 1..n : \A j \in 1..Len(sf[k]) : lv[lo[k] + j] = sf[k][j]
        /\ \A j \in 1..Len(wf) : lv[lo[n + 1] + j] = wf[j]
    BY DEF Flat
  <1>3. /\ Layout(d, DataStart, hd.dataEnd, n, st, sf, sa)
        /\ hd.installed \in 0..SeqMax /\ LastOf(d, st, n) <= hd.installed
    BY StoredFacts
  <1>4. ASSUME NEW k \in 1..n PROVE SegmentNumbers(d[st[k]], sf[k])
    BY StoredNumbers
  <1>5. Len(lv) \in Nat
    BY <1>2
  <1>6. ASSUME NEW i \in 1..(Len(lv) - 1) PROVE lv[i].seq < lv[i + 1].seq
    <2>1. i \in 1..(Len(lv) + 1)
      BY <1>5
    <2>2. PICK k \in 1..(n + 1), j \in Nat : PlaceOf(n, sf, wf, lo, i, k, j)
      <3>1. \E k \in 1..(n + 1), j \in Nat : PlaceOf(n, sf, wf, lo, i, k, j)
        BY <1>1, <2>1, FlatPlace
      <3> QED
        BY <3>1
    <2>3. lo[k] \in Nat /\ i = lo[k] + j
      BY <1>2, <2>2 DEF PlaceOf
    <2> DEFINE a == lo[k]
               f == d[st[k]].first
               z == d[st[k]].last
               l == Len(sf[k])
    <2>4. CASE k \in 1..n /\ j \in 1..l
      <3>1. l \in Nat /\ f \in 1..SeqMax /\ z \in 1..SeqMax /\ z - f = l - 1
        BY <1>4, <2>4 DEF SegmentNumbers
      <3>2. \A y1 \in 1..l : lv[a + y1].seq = f + (y1 - 1)
        BY <1>2, <1>4, <2>4 DEF SegmentNumbers
      <3>3. lv[i].seq = f + (j - 1)
        BY <2>3, <2>4, <3>2
      <3>4. CASE j < l
        <4>0. a \in Nat /\ i = a + j
          BY <2>3
        <4> HIDE DEF a, f, z, l
        <4>1. j + 1 \in 1..l /\ i + 1 = a + (j + 1)
          BY <2>4, <3>1, <3>4, <4>0
        <4>2. lv[i + 1].seq = f + ((j + 1) - 1)
          BY <3>2, <4>1
        <4> QED
          BY <2>4, <3>1, <3>3, <4>2
      <3>5. CASE ~(j < l)
        <4>1. lo[k + 1] = a + l
          BY <1>2, <2>4
        <4>2. LastOf(d, st, k) = z
          BY <2>4 DEF LastOf
        <4> HIDE DEF a, f, z, l
        <4>3. j = l
          BY <2>4, <3>1, <3>5
        <4>4. lv[i].seq = z
          BY <3>1, <3>3, <4>3
        <4>5. i = lo[k + 1] /\ lo[k + 1] \in Nat
          BY <2>3, <3>1, <4>1, <4>3 DEF a
        <4>6. CASE k = n
          <5>1. Len(wf) >= 1
            BY <1>1, <1>2, <1>5, <4>5, <4>6
          <5>2. 1 \in 1..Len(wf)
            BY <1>1, <5>1
          <5>3. lv[i + 1] = wf[1]
            BY <1>2, <4>5, <4>6, <5>2
          <5>4. wf[1].seq = hd.installed + 1
            BY <5>2, LogNumbers
          <5>5. z <= hd.installed
            BY <1>3, <4>2, <4>6
          <5> QED
            BY <1>3, <3>1, <4>4, <5>3, <5>4, <5>5
        <4>7. CASE k # n
          <5>1. k + 1 \in 1..n /\ k \in 0..n /\ k < n
            BY <1>1, <2>4, <4>7
          <5>2. SegmentNumbers(d[st[k + 1]], sf[k + 1])
            BY <1>4, <5>1
          <5>3. 1 \in 1..Len(sf[k + 1])
            BY <5>2 DEF SegmentNumbers
          <5>4. lv[i + 1] = sf[k + 1][1]
            BY <1>2, <4>5, <5>1, <5>3
          <5>5. sf[k + 1][1].seq = d[st[k + 1]].first + (1 - 1) /\ d[st[k + 1]].first \in 1..SeqMax
            BY <5>2, <5>3 DEF SegmentNumbers
          <5>6. z < d[st[k + 1]].first
            BY <1>3, <4>2, <5>1, SequencesGrow
          <5> QED
            BY <3>1, <4>4, <5>4, <5>5, <5>6
        <4> QED
          BY <4>6, <4>7
      <3> QED
        BY <3>4, <3>5
    <2>5. CASE k = n + 1 /\ j \in 1..(Len(wf) + 1)
      <3> DEFINE e == lo[n + 1]
                 q == Len(wf)
                 r == Len(lv)
      <3>0. e \in Nat /\ q \in Nat /\ r = e + q /\ i = e + j /\ i \in 1..(r - 1) /\ j \in 1..(q + 1)
        BY <1>1, <1>2, <2>3, <2>5
      <3> HIDE DEF e, q, r
      <3>1. j \in 1..q /\ j + 1 \in 1..q /\ i + 1 = e + (j + 1)
        BY <3>0
      <3> USE DEF e, q, r
      <3>2. lv[i] = wf[j] /\ lv[i + 1] = wf[j + 1]
        BY <1>2, <2>3, <2>5, <3>1
      <3>3. wf[j].seq = hd.installed + j /\ wf[j + 1].seq = hd.installed + (j + 1)
        BY <3>1, LogNumbers
      <3> QED
        BY <1>3, <3>1, <3>2, <3>3
    <2> QED
      BY <2>2, <2>4, <2>5 DEF PlaceOf
  <1> DEFINE U == {u \in Nat : (x + 1) + u <= Len(lv) => lv[x].seq < lv[(x + 1) + u].seq}
  <1>7. 0 \in U
    <2>1. SUFFICES ASSUME (x + 1) + 0 <= Len(lv) PROVE lv[x].seq < lv[(x + 1) + 0].seq
      OBVIOUS
    <2>2. x \in 1..(Len(lv) - 1) /\ (x + 1) + 0 = x + 1
      BY <1>5, <2>1
    <2> QED
      BY <1>6, <2>2
  <1>8. ASSUME NEW u \in 0..((y - (x + 1)) - 1), u \in U PROVE u + 1 \in U
    <2>1. u \in Nat /\ u + 1 \in Nat
      OBVIOUS
    <2>2. SUFFICES ASSUME (x + 1) + (u + 1) <= Len(lv) PROVE lv[x].seq < lv[(x + 1) + (u + 1)].seq
      BY <2>1
    <2> DEFINE i == (x + 1) + u
    <2>3. i \in 1..(Len(lv) - 1) /\ i + 1 = (x + 1) + (u + 1) /\ (x + 1) + u <= Len(lv) /\ i \in 1..Len(lv) /\ i + 1 \in 1..Len(lv)
      BY <1>5, <2>1, <2>2
    <2>4. lv[x].seq < lv[i].seq
      BY <1>8, <2>3
    <2> HIDE DEF i
    <2>5. lv[i].seq < lv[i + 1].seq
      BY <1>6, <2>3
    <2>6. lv[x] \in FrameSet /\ lv[i] \in FrameSet /\ lv[i + 1] \in FrameSet
      <3>1. lv \in Seq(FrameSet) /\ x \in 1..Len(lv) /\ i \in 1..Len(lv) /\ i + 1 \in 1..Len(lv)
        BY <1>2, <2>3
      <3>2. \A z \in 1..Len(lv) : lv[z] \in FrameSet
        BY <3>1
      <3> QED
        BY <3>1, <3>2
    <2>7. lv[x].seq \in 1..SeqMax /\ lv[i].seq \in 1..SeqMax /\ lv[i + 1].seq \in 1..SeqMax
      BY <2>6, FrameFacts
    <2>8. lv[x].seq < lv[i + 1].seq
      BY <2>4, <2>5, <2>7
    <2> QED
      BY <2>3, <2>8
  <1>9. y - (x + 1) \in Nat /\ (x + 1) + (y - (x + 1)) = y
    BY <1>5
  <1>10. y - (x + 1) \in U
    <2> HIDE DEF U
    <2>1. \A u \in 0..(y - (x + 1)) : u \in U
      BY <1>7, <1>8, <1>9, UpTo
    <2> QED
      BY <1>9, <2>1
  <1> QED
    BY <1>5, <1>9, <1>10

------------------------------------------------------------------------------
(* Reading from a cursor to the end. *)

\* A cursor in front of batch i of all batches.
Ahead(d, hd, st, sf, sa, wf, wa, lo, cur, i) ==
    \E k \in 1..(hd.generation + 1), j \in Nat :
        i = lo[k] + j /\ At(d, hd, st, sf, sa, wf, wa, cur, k, j)
Places(d, hd, st, sf, sa, wf, wa, lo) ==
    {p \in CursorType \X Nat : Ahead(d, hd, st, sf, sa, wf, wa, lo, p[1], p[2])}

\* A read at a cursor in front of batch i delivers that batch, and leaves the
\* cursor in front of the next one.
Follow(d, w, hd, lv, P, cur, i) ==
    IF i = Len(lv) + 1 THEN ReadCursor(d, w, hd, cur) = Done
    ELSE \E nx \in CursorType :
            /\ ReadCursor(d, w, hd, cur) = [kind |-> "read", frame |-> lv[i], cur |-> nx]
            /\ nx.readSequence = Wrap(lv[i].seq + 1)
            /\ <<nx, i + 1>> \in P
Follows(d, w, hd, lv, P) ==
    /\ lv \in Seq(FrameSet) /\ hd.sequence \in 0..SeqMax /\ Len(lv) <= hd.sequence
    /\ P \subseteq CursorType \X (1..(Len(lv) + 1))
    /\ \A p \in P : Follow(d, w, hd, lv, P, p[1], p[2])

\* A cursor has one place among the batches of the files.
LEMMA AtPlace ==
  ASSUME NEW d, NEW w, NEW m, NEW hd, NEW st, NEW sf, NEW sa, NEW wf, NEW wa,
         Stored(d, w, m, hd, st, sf, sa, wf, wa), NEW lo, NEW lv, Flat(hd.generation, sf, wf, lo, lv),
         NEW cur, NEW k, NEW j, At(d, hd, st, sf, sa, wf, wa, cur, k, j)
  PROVE  /\ k \in 1..(hd.generation + 1) /\ j \in Nat /\ j >= 1
         /\ <<cur, lo[k] + j>> \in Places(d, hd, st, sf, sa, wf, wa, lo)
         /\ lo[k] \in Nat /\ lo[k] + j \in 1..(Len(lv) + 1)
  <1> DEFINE n == hd.generation
  <1>1. /\ n \in Nat /\ \A x \in 1..n : sf[x] \in Seq(FrameSet)
        /\ wf \in Seq(FrameSet) /\ Len(wf) \in Nat
    BY StoredSegments
  <1>2. cur \in CursorType
    BY DEF At
  <1>3. \/ k \in 1..n /\ j \in 1..Len(sf[k])
        \/ k = n + 1 /\ j \in 1..(Len(wf) + 1)
    <2>1. \/ FromSegment(d, w, hd, st, sf, sa, wf, wa, cur, k, j)
          \/ FromLog(d, w, hd, st, sf, sa, wf, wa, cur, k, j)
          \/ AtEnd(d, w, hd, wf, cur, k, j)
      BY ReadAt
    <2> QED
      BY <1>1, <2>1 DEF FromSegment, FromLog, AtEnd
  <1>4. k \in 1..(n + 1) /\ j \in Nat /\ j >= 1
    BY <1>1, <1>3
  <1>5. lo \in [1..(n + 1) -> Nat] /\ Len(lv) = lo[n + 1] + Len(wf)
    BY DEF Flat
  <1>6. lo[k] \in Nat /\ lo[k] + j \in Nat /\ Len(lv) \in Nat
    <2>1. n + 1 \in 1..(n + 1)
      BY <1>1
    <2>2. lo[k] \in Nat /\ lo[n + 1] \in Nat
      BY <1>4, <1>5, <2>1
    <2> QED
      BY <1>1, <1>4, <1>5, <2>2
  <1>7. Ahead(d, hd, st, sf, sa, wf, wa, lo, cur, lo[k] + j)
    BY <1>4 DEF Ahead
  <1>8. <<cur, lo[k] + j>> \in Places(d, hd, st, sf, sa, wf, wa, lo)
    BY <1>2, <1>6, <1>7 DEF Places
  <1>9. lo[k] + j \in 1..(Len(lv) + 1)
    <2>1. CASE k \in 1..n /\ j \in 1..Len(sf[k])
      <3>1. lo[k] + j \in 1..Len(lv)
        BY <1>1, <2>1, FlatInside
      <3> QED
        BY <1>6, <3>1
    <2>2. CASE k = n + 1 /\ j \in 1..(Len(wf) + 1)
      BY <1>1, <1>5, <1>6, <2>2
    <2> QED
      BY <1>3, <2>1, <2>2
  <1> QED
    BY <1>4, <1>6, <1>8, <1>9

\* Reading moves from batch to batch in the order of the files.
LEMMA PlacesFollow ==
  ASSUME NEW d, NEW w, NEW m, NEW hd, NEW st, NEW sf, NEW sa, NEW wf, NEW wa,
         Stored(d, w, m, hd, st, sf, sa, wf, wa), NEW lo, NEW lv, Flat(hd.generation, sf, wf, lo, lv)
  PROVE  Follows(d, w, hd, lv, Places(d, hd, st, sf, sa, wf, wa, lo))
  <1> DEFINE n == hd.generation
             P == Places(d, hd, st, sf, sa, wf, wa, lo)
  <1>1. /\ n \in Nat /\ \A x \in 1..n : sf[x] \in Seq(FrameSet)
        /\ wf \in Seq(FrameSet) /\ Len(wf) \in Nat
    BY StoredSegments
  <1>2. /\ lo \in [1..(n + 1) -> Nat]
        /\ \A k \in 1..n : lo[k + 1] = lo[k] + Len(sf[k])
        /\ lv \in Seq(FrameSet) /\ Len(lv) = lo[n + 1] + Len(wf)
        /\ \A k \in 1..n : \A j \in 1..Len(sf[k]) : lv[lo[k] + j] = sf[k][j]
        /\ \A j \in 1..Len(wf) : lv[lo[n + 1] + j] = wf[j]
    BY DEF Flat
  <1>3. hd.sequence \in 0..SeqMax /\ Len(lv) <= hd.sequence /\ Len(lv) \in Nat
    BY StoredFacts, FlatLength
  <1>4. ASSUME NEW p \in P PROVE p[2] \in 1..(Len(lv) + 1) /\ Follow(d, w, hd, lv, P, p[1], p[2])
    <2> DEFINE cur == p[1]
               i == p[2]
    <2>1. PICK k \in 1..(n + 1), j \in Nat : i = lo[k] + j /\ At(d, hd, st, sf, sa, wf, wa, cur, k, j)
      BY <1>4 DEF Places, Ahead
    <2>2. lo[k] \in Nat /\ i \in 1..(Len(lv) + 1)
      BY <2>1, AtPlace
    <2> HIDE DEF cur, i
    <2>3. \/ FromSegment(d, w, hd, st, sf, sa, wf, wa, cur, k, j)
          \/ FromLog(d, w, hd, st, sf, sa, wf, wa, cur, k, j)
          \/ AtEnd(d, w, hd, wf, cur, k, j)
      BY <2>1, ReadAt
    <2>4. CASE FromSegment(d, w, hd, st, sf, sa, wf, wa, cur, k, j)
      <3>0. k \in 1..n /\ j \in 1..Len(sf[k])
        BY <2>4 DEF FromSegment
      <3>1. PICK nx : /\ ReadCursor(d, w, hd, cur) = [kind |-> "read", frame |-> sf[k][j], cur |-> nx]
                      /\ nx.readSequence = Wrap(sf[k][j].seq + 1)
                      /\ IF j < Len(sf[k]) THEN At(d, hd, st, sf, sa, wf, wa, nx, k, j + 1)
                                           ELSE At(d, hd, st, sf, sa, wf, wa, nx, k + 1, 1)
        BY <2>4 DEF FromSegment
      <3>2. lv[i] = sf[k][j]
        BY <1>2, <2>1, <3>0
      <3>3. <<nx, i + 1>> \in P /\ nx \in CursorType
        <4>1. CASE j < Len(sf[k])
          <5>1. At(d, hd, st, sf, sa, wf, wa, nx, k, j + 1)
            BY <3>1, <4>1
          <5>2. <<nx, lo[k] + (j + 1)>> \in P
            BY <5>1, AtPlace
          <5>3. lo[k] + (j + 1) = i + 1
            BY <2>1, <2>2
          <5> QED
            BY <5>1, <5>2, <5>3 DEF At
        <4>2. CASE ~(j < Len(sf[k]))
          <5>1. At(d, hd, st, sf, sa, wf, wa, nx, k + 1, 1)
            BY <3>1, <4>2
          <5>2. <<nx, lo[k + 1] + 1>> \in P
            BY <5>1, AtPlace
          <5>3. Len(sf[k]) \in Nat /\ j = Len(sf[k]) /\ lo[k + 1] = lo[k] + Len(sf[k])
            <6>1. lo[k + 1] = lo[k] + Len(sf[k])
              BY <1>2, <3>0
            <6>2. sf[k] \in Seq(FrameSet)
              BY <1>1, <3>0
            <6>3. Len(sf[k]) \in Nat
              BY <6>2
            <6>4. j = Len(sf[k])
              BY <3>0, <4>2, <6>3
            <6> QED
              BY <6>1, <6>3, <6>4
          <5>4. lo[k + 1] + 1 = i + 1
            BY <2>1, <2>2, <5>3
          <5> QED
            BY <5>1, <5>2, <5>4 DEF At
        <4> QED
          BY <4>1, <4>2
      <3>4. i # Len(lv) + 1
        <4>1. lo[k] + j \in 1..Len(lv)
          BY <1>1, <3>0, FlatInside
        <4>2. i \in 1..Len(lv)
          BY <2>1, <4>1
        <4> QED
          BY <1>3, <4>2
      <3> QED
        BY <2>2, <3>1, <3>2, <3>3, <3>4 DEF Follow, cur, i
    <2>5. CASE FromLog(d, w, hd, st, sf, sa, wf, wa, cur, k, j)
      <3>0. k = n + 1 /\ j \in 1..Len(wf)
        BY <2>5 DEF FromLog
      <3>1. PICK nx : /\ ReadCursor(d, w, hd, cur) = [kind |-> "read", frame |-> wf[j], cur |-> nx]
                      /\ nx.readSequence = Wrap(wf[j].seq + 1)
                      /\ At(d, hd, st, sf, sa, wf, wa, nx, k, j + 1)
        BY <2>5 DEF FromLog
      <3>2. lv[i] = wf[j]
        BY <1>2, <2>1, <3>0
      <3>3. <<nx, i + 1>> \in P /\ nx \in CursorType
        <4>1. <<nx, lo[k] + (j + 1)>> \in P
          BY <3>1, AtPlace
        <4>2. lo[k] + (j + 1) = i + 1
          BY <2>1, <2>2
        <4> QED
          BY <3>1, <4>1, <4>2 DEF At
      <3>4. i # Len(lv) + 1
        <4> DEFINE x == lo[n + 1]
                   l == Len(wf)
        <4>1. i = x + j /\ Len(lv) = x + l /\ x \in Nat /\ l \in Nat /\ j \in 1..l
          BY <1>1, <1>2, <2>1, <2>2, <3>0
        <4> HIDE DEF x, l
        <4> QED
          BY <4>1
      <3> QED
        BY <2>2, <3>1, <3>2, <3>3, <3>4 DEF Follow, cur, i
    <2>6. CASE AtEnd(d, w, hd, wf, cur, k, j)
      <3>0. k = n + 1 /\ j = Len(wf) + 1 /\ ReadCursor(d, w, hd, cur) = Done
        BY <2>6 DEF AtEnd
      <3> DEFINE x == lo[n + 1]
                 l == Len(wf)
      <3>1. i = x + j /\ Len(lv) = x + l /\ x \in Nat /\ l \in Nat /\ j = l + 1
        BY <1>1, <1>2, <2>1, <2>2, <3>0
      <3> HIDE DEF x, l
      <3>2. i = Len(lv) + 1
        BY <3>1
      <3> QED
        BY <2>2, <3>0, <3>2 DEF Follow, cur, i
    <2> QED
      BY <2>3, <2>4, <2>5, <2>6
  <1>5. P \subseteq CursorType \X (1..(Len(lv) + 1))
    <2>1. P \subseteq CursorType \X Nat
      BY DEF Places
    <2>2. \A p \in P : p = <<p[1], p[2]>> /\ p[1] \in CursorType
      BY <2>1
    <2> HIDE DEF P
    <2> QED
      BY <1>4, <2>2
  <1> QED
    BY <1>2, <1>3, <1>4, <1>5 DEF Follows

\* What a call of read_cursor returns.
ReadSet == [kind : {"read"}, frame : FrameSet \cup {Bad}, cur : CursorType] \cup {Done}

\* The first k batches read from a cursor in front of batch i.
ReadSoFar(s, k, lv, P, cur, i) ==
    /\ s \in Seq(ReadSet) /\ Len(s) = k + 1
    /\ s[1] = [kind |-> "read", frame |-> Bad, cur |-> cur]
    /\ \A m \in 1..(k + 1) : s[m].kind = "read" /\ <<s[m].cur, (i + m) - 1>> \in P
    /\ \A m \in 2..(k + 1) : /\ s[m].frame = lv[(i + m) - 2]
                             /\ s[m].cur.readSequence = Wrap(lv[(i + m) - 2].seq + 1)

\* All of them, and the call that finds the end.
ReadToEnd(s, lv, P, cur, i) ==
    LET k == (Len(lv) - i) + 1
    IN  /\ s \in Seq(ReadSet) /\ Len(s) = k + 2
        /\ s[1] = [kind |-> "read", frame |-> Bad, cur |-> cur]
        /\ s[k + 2] = Done
        /\ \A m \in 1..(k + 1) : s[m].kind = "read" /\ <<s[m].cur, (i + m) - 1>> \in P
        /\ \A m \in 2..(k + 1) : /\ s[m].frame = lv[(i + m) - 2]
                                 /\ s[m].cur.readSequence = Wrap(lv[(i + m) - 2].seq + 1)

\* An end is not a batch.
LEMMA DoneFacts ==
  /\ Done.kind # "read" /\ Done.kind # "found" /\ Done # Bad /\ Bad.kind # "read" /\ Bad.kind # "found"
  /\ \A f, cur : [kind |-> "read", frame |-> f, cur |-> cur] # Done
  /\ \A f, cur : [kind |-> "read", frame |-> f, cur |-> cur] # Bad
  /\ \A cur : [kind |-> "found", cur |-> cur] # Done
  /\ \A cur : [kind |-> "found", cur |-> cur] # Bad
  BY DEF Done, Bad

\* One more call of read_cursor.
LEMMA ReadOneMore ==
  ASSUME NEW d, NEW w, NEW hd, NEW lv, NEW P, Follows(d, w, hd, lv, P), NEW cur, NEW i, <<cur, i>> \in P,
         NEW k \in Nat, k < (Len(lv) - i) + 1, NEW s, ReadSoFar(s, k, lv, P, cur, i)
  PROVE  ReadSoFar(ReadStep(d, w, hd, s), k + 1, lv, P, cur, i)
  <1> DEFINE e == s[Len(s)]
             x == i + k
             t == ReadStep(d, w, hd, s)
  <1>1. /\ lv \in Seq(FrameSet) /\ Len(lv) \in Nat /\ P \subseteq CursorType \X (1..(Len(lv) + 1))
        /\ \A p \in P : Follow(d, w, hd, lv, P, p[1], p[2])
    BY DEF Follows
  <1>2. i \in 1..(Len(lv) + 1)
    BY <1>1
  <1>3. Len(s) = k + 1 /\ k + 1 \in 1..(k + 1) /\ (i + (k + 1)) - 1 = x /\ x \in 1..Len(lv)
    BY <1>1, <1>2 DEF ReadSoFar
  <1>4. e.kind = "read" /\ <<e.cur, x>> \in P
    BY <1>3 DEF ReadSoFar
  <1>5. Follow(d, w, hd, lv, P, e.cur, x)
    BY <1>1, <1>4
  <1>6. x # Len(lv) + 1
    BY <1>1, <1>3
  <1>7. PICK nx \in CursorType : /\ ReadCursor(d, w, hd, e.cur) = [kind |-> "read", frame |-> lv[x], cur |-> nx]
                                 /\ nx.readSequence = Wrap(lv[x].seq + 1)
                                 /\ <<nx, x + 1>> \in P
    BY <1>5, <1>6 DEF Follow
  <1> DEFINE r == [kind |-> "read", frame |-> lv[x], cur |-> nx]
  <1>8. r \in ReadSet /\ lv[x] \in FrameSet
    BY <1>1, <1>3 DEF ReadSet
  <1>9. t = Append(s, r)
    BY <1>4, <1>7 DEF ReadStep
  <1>10. r.kind = "read" /\ r.frame = lv[x] /\ r.cur = nx
    OBVIOUS
  <1> HIDE DEF e, r, t
  <1>11. /\ t \in Seq(ReadSet) /\ Len(t) = (k + 1) + 1
         /\ \A m \in 1..(k + 1) : t[m] = s[m]
         /\ t[(k + 1) + 1] = r
    BY <1>3, <1>8, <1>9 DEF ReadSoFar
  <1>12. t[1] = [kind |-> "read", frame |-> Bad, cur |-> cur]
    BY <1>11 DEF ReadSoFar
  <1>13. ASSUME NEW m \in 1..((k + 1) + 1)
         PROVE  /\ t[m].kind = "read" /\ <<t[m].cur, (i + m) - 1>> \in P
                /\ m >= 2 => /\ t[m].frame = lv[(i + m) - 2]
                             /\ t[m].cur.readSequence = Wrap(lv[(i + m) - 2].seq + 1)
    <2>1. CASE m \in 1..(k + 1)
      <3>1. t[m] = s[m]
        BY <1>11, <2>1
      <3>2. m >= 2 => m \in 2..(k + 1)
        BY <2>1
      <3> QED
        BY <2>1, <3>1, <3>2 DEF ReadSoFar
    <2>2. CASE m = (k + 1) + 1
      <3>1. (i + m) - 1 = x + 1 /\ (i + m) - 2 = x
        BY <1>2, <2>2
      <3> QED
        BY <1>7, <1>10, <1>11, <2>2, <3>1
    <2> QED
      BY <2>1, <2>2
  <1>14. \A m \in 2..((k + 1) + 1) : m \in 1..((k + 1) + 1) /\ m >= 2
    OBVIOUS
  <1> QED
    BY <1>11, <1>12, <1>13, <1>14 DEF ReadSoFar, t

\* Reading over and over from a cursor delivers every batch from the one in
\* front of it on, each once, and then the end.
LEMMA ReadsFound ==
  ASSUME NEW d, NEW w, NEW hd, NEW lv, NEW P, Follows(d, w, hd, lv, P), NEW cur, NEW i, <<cur, i>> \in P
  PROVE  ReadToEnd(Reads(d, w, hd, cur), lv, P, cur, i)
  <1> DEFINE f == ReadLoop(d, w, hd, cur)
             z == (Len(lv) - i) + 1
             q == hd.sequence + 1
             T == {k \in Nat : k <= z => ReadSoFar(f[k], k, lv, P, cur, i)}
  <1>1. /\ lv \in Seq(FrameSet) /\ Len(lv) \in Nat /\ P \subseteq CursorType \X (1..(Len(lv) + 1))
        /\ \A p \in P : Follow(d, w, hd, lv, P, p[1], p[2])
        /\ hd.sequence \in Nat /\ Len(lv) <= hd.sequence
    BY LimitAssumption DEF Follows
  <1>2. i \in 1..(Len(lv) + 1) /\ cur \in CursorType
    BY <1>1
  <1>3. z \in Nat /\ z + 1 <= q /\ q \in Nat
    BY <1>1, <1>2
  <1>4. f[0] = ReadStart(cur) /\ \A k \in 0..((hd.sequence + 1) - 1) : f[k + 1] = ReadStep(d, w, hd, f[k])
    BY <1>1, ReadingTurns
  <1>5. 0 \in T
    <2> DEFINE r == [kind |-> "read", frame |-> Bad, cur |-> cur]
    <2>1. r \in ReadSet /\ r.kind = "read" /\ r.cur = cur
      BY <1>2 DEF ReadSet
    <2> HIDE DEF r
    <2>2. f[0] = <<r>>
      BY <1>4 DEF ReadStart, r
    <2>3. <<r>> \in Seq(ReadSet) /\ Len(<<r>>) = 0 + 1 /\ <<r>>[1] = r
      BY <2>1
    <2>4. (i + 1) - 1 = i
      BY <1>2
    <2>5. \A m \in 1..(0 + 1) : m = 1
      OBVIOUS
    <2>6. \A m \in 2..(0 + 1) : FALSE
      OBVIOUS
    <2>7. ReadSoFar(f[0], 0, lv, P, cur, i)
      BY <2>1, <2>2, <2>3, <2>4, <2>5, <2>6 DEF ReadSoFar, r
    <2> QED
      BY <2>7
  <1>6. ASSUME NEW k \in 0..(z - 1), k \in T PROVE k + 1 \in T
    <2>1. k \in Nat /\ k < z /\ k <= z /\ k \in 0..((hd.sequence + 1) - 1)
      BY SMTT(30), <1>1, <1>3
    <2>2. ReadSoFar(f[k], k, lv, P, cur, i)
      BY <1>6, <2>1
    <2>3. ReadSoFar(ReadStep(d, w, hd, f[k]), k + 1, lv, P, cur, i)
      BY <2>1, <2>2, ReadOneMore
    <2> QED
      BY <1>4, <2>1, <2>3
  <1>7. ReadSoFar(f[z], z, lv, P, cur, i)
    <2>1. z \in T
      <3> HIDE DEF T, z, f
      <3>1. \A k \in 0..z : k \in T
        BY <1>3, <1>5, <1>6, UpTo
      <3> QED
        BY <1>3, <3>1
    <2> QED
      BY <1>3, <2>1
  <1> DEFINE s == f[z]
             e == s[Len(s)]
             t == Append(s, Done)
  <1>8. s \in Seq(ReadSet) /\ Len(s) = z + 1 /\ e.kind = "read" /\ <<e.cur, Len(lv) + 1>> \in P
    <2>1. s \in Seq(ReadSet) /\ Len(s) = z + 1
      BY <1>7 DEF ReadSoFar
    <2>2. z + 1 \in 1..(z + 1) /\ (i + (z + 1)) - 1 = Len(lv) + 1
      BY <1>1, <1>2, <1>3
    <2> QED
      BY <1>7, <2>1, <2>2 DEF ReadSoFar
  <1>9. f[z + 1] = t
    <2>1. Follow(d, w, hd, lv, P, e.cur, Len(lv) + 1)
      BY <1>1, <1>8
    <2>2. ReadCursor(d, w, hd, e.cur) = Done
      BY <2>1 DEF Follow
    <2>3. z \in 0..((hd.sequence + 1) - 1)
      BY <1>1, <1>3
    <2> QED
      BY <1>4, <1>8, <2>2, <2>3 DEF ReadStep
  <1>10. Done \in ReadSet
    BY DEF ReadSet
  <1> HIDE DEF s, e
  <1>11. /\ t \in Seq(ReadSet) /\ Len(t) = z + 2 /\ t[z + 2] = Done
         /\ \A m \in 1..(z + 1) : t[m] = s[m]
    <2>1. t \in Seq(ReadSet) /\ Len(t) = (z + 1) + 1 /\ t[(z + 1) + 1] = Done
      BY <1>3, <1>8, <1>10
    <2>2. (z + 1) + 1 = z + 2
      BY <1>3
    <2>3. \A m \in 1..(z + 1) : t[m] = s[m]
      BY <1>3, <1>8, <1>10
    <2> QED
      BY <2>1, <2>2, <2>3
  <1>12. ReadToEnd(t, lv, P, cur, i)
    <2>0. ReadSoFar(s, z, lv, P, cur, i)
      BY <1>7 DEF s
    <2>1. t[1] = [kind |-> "read", frame |-> Bad, cur |-> cur]
      BY <1>3, <1>11, <2>0 DEF ReadSoFar
    <2>2. \A m \in 1..(z + 1) : t[m].kind = "read" /\ <<t[m].cur, (i + m) - 1>> \in P
      BY <1>11, <2>0 DEF ReadSoFar
    <2>3. \A m \in 2..(z + 1) : m \in 1..(z + 1)
      BY <1>3
    <2>4. \A m \in 2..(z + 1) : /\ t[m].frame = lv[(i + m) - 2]
                                /\ t[m].cur.readSequence = Wrap(lv[(i + m) - 2].seq + 1)
      BY <1>11, <2>0, <2>3 DEF ReadSoFar
    <2> HIDE DEF t
    <2> QED
      BY <1>11, <2>1, <2>2, <2>4 DEF ReadToEnd
  <1> DEFINE U == {u \in Nat : (z + 1) + u <= q => f[(z + 1) + u] = t}
  <1>13. 0 \in U
    <2>1. (z + 1) + 0 = z + 1
      BY <1>3
    <2> QED
      BY <1>9, <2>1
  <1>14. t[Len(t)].kind # "read"
    BY <1>11, DoneFacts
  <1>15. ASSUME NEW u \in 0..((q - (z + 1)) - 1), u \in U PROVE u + 1 \in U
    <2> HIDE DEF t, z
    <2> DEFINE v == (z + 1) + u
    <2>1. u \in Nat /\ v <= q /\ (z + 1) + (u + 1) = v + 1 /\ v \in 0..((hd.sequence + 1) - 1)
      BY SMTT(30), <1>1, <1>3
    <2>2. f[v] = t
      BY <1>15, <2>1
    <2>3. f[v + 1] = ReadStep(d, w, hd, t)
      BY <1>4, <2>1, <2>2
    <2>4. ReadStep(d, w, hd, t) = t
      BY <1>14 DEF ReadStep
    <2> QED
      BY <2>1, <2>3, <2>4
  <1>16. f[q] = t
    <2>1. q - (z + 1) \in Nat /\ (z + 1) + (q - (z + 1)) = q
      <3> HIDE DEF z, q
      <3> QED
        BY <1>3
    <2>2. q - (z + 1) \in U
      <3> HIDE DEF U, z, q, f, t
      <3>1. \A u \in 0..(q - (z + 1)) : u \in U
        BY <1>13, <1>15, <2>1, UpTo
      <3> QED
        BY <2>1, <3>1
    <2> HIDE DEF z, q, f, t
    <2>3. (z + 1) + (q - (z + 1)) <= q
      BY <1>3, <2>1
    <2>4. f[(z + 1) + (q - (z + 1))] = t
      BY <2>2, <2>3
    <2> QED
      BY <2>1, <2>4
  <1> QED
    BY <1>12, <1>16 DEF Reads

\* The batches from place i on.
Rest(lv, i) == SubSeq(lv, i, Len(lv))

\* What a cursor has yet to deliver are the batches from its place on.
LEMMA DrainFound ==
  ASSUME NEW d, NEW w, NEW hd, NEW lv, NEW P, Follows(d, w, hd, lv, P), ~hd.failed,
         NEW cur, NEW i, <<cur, i>> \in P
  PROVE  Drain(d, w, hd, cur) = Rest(lv, i)
  <1> DEFINE s == Reads(d, w, hd, cur)
             z == (Len(lv) - i) + 1
             n == Len(s)
             a == [k \in 1..(n - 2) |-> s[k + 1].frame]
             b == SubSeq(lv, i, Len(lv))
  <1>1. ReadToEnd(s, lv, P, cur, i)
    BY ReadsFound
  <1>2. lv \in Seq(FrameSet) /\ Len(lv) \in Nat /\ i \in 1..(Len(lv) + 1)
    BY DEF Follows
  <1>3. z \in Nat
    BY <1>2
  <1> HIDE DEF s
  <1>4. n = z + 2 /\ s[n] = Done
    BY <1>1 DEF ReadToEnd
  <1>5. ASSUME NEW k \in 1..z PROVE s[k + 1].frame = lv[(i + k) - 1] /\ (i + k) - 1 \in 1..Len(lv)
    <2>1. k + 1 \in 2..(z + 1) /\ (i + (k + 1)) - 2 = (i + k) - 1 /\ (i + k) - 1 \in 1..Len(lv)
      BY <1>2, <1>3
    <2>2. s[k + 1].frame = lv[(i + (k + 1)) - 2]
      BY <1>1, <2>1 DEF ReadToEnd
    <2> QED
      BY <2>1, <2>2
  <1>6. n - 2 = z
    BY <1>3, <1>4
  <1>7. a = [k \in 1..z |-> s[k + 1].frame]
    BY <1>6
  <1>8. a \in Seq(FrameSet) /\ Len(a) = z /\ \A k \in 1..z : a[k] = lv[(i + k) - 1]
    <2>1. ASSUME NEW k \in 1..z PROVE s[k + 1].frame \in FrameSet
      <3> HIDE DEF z
      <3>1. s[k + 1].frame = lv[(i + k) - 1] /\ (i + k) - 1 \in 1..Len(lv)
        BY <1>5
      <3> QED
        BY <1>2, <3>1
    <2> HIDE DEF z
    <2>2. a \in [1..z -> FrameSet]
      BY <1>7, <2>1
    <2>3. \A k \in 1..z : a[k] = lv[(i + k) - 1]
      BY <1>5, <1>7
    <2>4. a \in Seq(FrameSet) /\ Len(a) = z
      <3> HIDE DEF a
      <3> QED
        BY <1>3, <2>2
    <2> QED
      BY <2>3, <2>4
  <1>9. b \in Seq(FrameSet) /\ Len(b) = z /\ \A k \in 1..z : b[k] = lv[(i + k) - 1]
    <2>1. b = [k \in 1..((Len(lv) - i) + 1) |-> lv[(i + k) - 1]]
      BY <1>2
    <2>2. \A k \in 1..z : lv[(i + k) - 1] \in FrameSet
      BY <1>2, <1>5
    <2>3. b = [k \in 1..z |-> lv[(i + k) - 1]]
      BY <2>1
    <2> HIDE DEF b, z
    <2>4. b \in [1..z -> FrameSet]
      BY <2>2, <2>3
    <2> QED
      BY <1>3, <2>3, <2>4
  <1> HIDE DEF a, b, z
  <1>10. a = b
    BY <1>8, <1>9, SameSequence
  <1>11. a \o <<>> = a
    BY <1>8
  <1>12. Drain(d, w, hd, cur) = a \o <<>>
    BY <1>4 DEF Drain, a, s
  <1> QED
    BY <1>10, <1>11, <1>12 DEF b, Rest

\* The batches of the segments before the k-th have sequences up to the last of those.
LEMMA FlatBelow ==
  ASSUME NEW d, NEW w, NEW m, NEW hd, NEW st, NEW sf, NEW sa, NEW wf, NEW wa,
         Stored(d, w, m, hd, st, sf, sa, wf, wa), NEW lo, NEW lv, Flat(hd.generation, sf, wf, lo, lv),
         NEW k \in 1..(hd.generation + 1), NEW x \in 1..lo[k]
  PROVE  lv[x].seq <= LastOf(d, st, k - 1)
  <1> DEFINE n == hd.generation
             y == lo[k]
  <1>1. /\ n \in Nat /\ \A q \in 1..n : sf[q] \in Seq(FrameSet)
        /\ wf \in Seq(FrameSet) /\ Len(wf) \in Nat
    BY StoredSegments
  <1>2. /\ lo \in [1..(n + 1) -> Nat] /\ lo[1] = 0
        /\ \A q \in 1..n : lo[q + 1] = lo[q] + Len(sf[q])
        /\ \A q \in 1..n : \A j \in 1..Len(sf[q]) : lv[lo[q] + j] = sf[q][j]
        /\ lv \in Seq(FrameSet) /\ Len(lv) \in Nat
    BY DEF Flat
  <1>3. y \in Nat /\ y <= Len(lv)
    BY <1>1, FlatGrows
  <1>4. x \in 1..Len(lv) /\ y \in 1..Len(lv) /\ x <= y
    BY <1>2, <1>3
  <1>5. k # 1
    BY <1>2
  <1>6. k - 1 \in 1..n /\ (k - 1) + 1 = k /\ k - 1 # 0
    BY <1>1, <1>5
  <1> DEFINE p == k - 1
             l == Len(sf[p])
             f == d[st[p]].first
             z == d[st[p]].last
             b == lo[p]
  <1>7. SegmentNumbers(d[st[p]], sf[p])
    BY <1>6, StoredNumbers
  <1>8. l \in Nat /\ l >= 1 /\ f \in Nat /\ z \in Nat /\ z - f = l - 1 /\ sf[p][l].seq = f + (l - 1) /\ l \in 1..l
    <2>1. /\ l \in Nat /\ l >= 1 /\ f \in 1..SeqMax /\ z \in 1..SeqMax /\ z - f = l - 1
          /\ \A j \in 1..l : sf[p][j].seq = f + (j - 1)
      BY <1>7 DEF SegmentNumbers
    <2> HIDE DEF p, f, l, z
    <2>2. l \in 1..l
      BY <2>1
    <2> QED
      BY <2>1, <2>2
  <1>9. y = b + l /\ lv[b + l] = sf[p][l]
    BY <1>2, <1>6, <1>8
  <1>10. LastOf(d, st, p) = z
    BY <1>6 DEF LastOf
  <1> HIDE DEF l, f, z, b, p
  <1>11. lv[y].seq = z
    <2> HIDE DEF y
    <2> QED
      BY <1>8, <1>9
  <1>12. x < y => lv[x].seq < lv[y].seq
    BY <1>4, FlatNumbers
  <1>13. lv[x] \in FrameSet /\ lv[y] \in FrameSet
    BY <1>2, <1>4
  <1>14. lv[x].seq \in Nat
    BY <1>13, FrameFacts
  <1>15. lv[x].seq <= z
    <2>1. CASE x = y
      BY <1>8, <1>11, <2>1
    <2>2. CASE x # y
      <3>1. x < y
        BY <1>3, <1>4, <2>2
      <3> QED
        BY <1>8, <1>11, <1>12, <1>14, <3>1
    <2> QED
      BY <2>1, <2>2
  <1> QED
    BY <1>10, <1>15 DEF p

\* No batch has a sequence past the last one.
LEMMA FlatTop ==
  ASSUME NEW d, NEW w, NEW m, NEW hd, NEW st, NEW sf, NEW sa, NEW wf, NEW wa,
         Stored(d, w, m, hd, st, sf, sa, wf, wa), NEW lo, NEW lv, Flat(hd.generation, sf, wf, lo, lv),
         NEW x \in 1..Len(lv)
  PROVE  lv[x].seq <= hd.sequence
  <1> DEFINE n == hd.generation
             y == lo[n + 1]
             l == Len(wf)
  <1>1. /\ n \in Nat /\ \A q \in 1..n : sf[q] \in Seq(FrameSet)
        /\ wf \in Seq(FrameSet) /\ l \in Nat
    BY StoredSegments
  <1>2. n + 1 \in 1..(n + 1)
    BY <1>1
  <1>3. /\ y \in Nat /\ Len(lv) = y + l /\ lv \in Seq(FrameSet)
        /\ \A j \in 1..l : lv[y + j] = wf[j]
    BY <1>2 DEF Flat
  <1>4. hd.installed \in Nat /\ LastOf(d, st, n) <= hd.installed
    <2>1. hd.installed \in 0..SeqMax
      BY StoredFacts
    <2>2. LastOf(d, st, n) <= hd.installed
      BY StoredFacts
    <2> QED
      BY <2>1, <2>2
  <1>5. hd.sequence = hd.installed + l
    BY DEF Stored, HandleSays
  <1>6. LastOf(d, st, n) \in Nat
    <2>1. n \in 0..n
      BY <1>1
    <2>2. Layout(d, DataStart, hd.dataEnd, n, st, sf, sa)
      BY StoredFacts
    <2>3. LastOf(d, st, n) \in 0..SeqMax
      BY <2>1, <2>2, SequencesGrow
    <2> QED
      BY <2>3
  <1>7. lv[x].seq \in Nat
    <2>1. lv[x] \in FrameSet
      BY <1>3
    <2> QED
      BY <2>1, FrameFacts
  <1>8. CASE x <= y
    <2>1. x \in 1..lo[n + 1]
      BY <1>1, <1>3, <1>8
    <2>2. lv[x].seq <= LastOf(d, st, (n + 1) - 1)
      BY <1>2, <2>1, FlatBelow
    <2>3. (n + 1) - 1 = n
      BY <1>1
    <2> HIDE DEF l
    <2> QED
      BY <1>1, <1>4, <1>5, <1>6, <1>7, <2>2, <2>3
  <1>9. CASE ~(x <= y)
    <2> HIDE DEF y, l
    <2> DEFINE j == x - y
    <2>1. j \in 1..l /\ x = y + j
      BY <1>1, <1>3, <1>9
    <2>2. lv[x] = wf[j]
      BY <1>3, <2>1
    <2>3. wf[j].seq = hd.installed + j
      BY <2>1, LogNumbers DEF l
    <2> HIDE DEF j
    <2> QED
      BY <1>1, <1>4, <1>5, <2>1, <2>2, <2>3
  <1> QED
    BY <1>8, <1>9

\* The read sequence of a cursor in front of batch i tells the batches before it
\* from the others; it is 0, having wrapped around, only after all of them.
Expects(lv, cur, i) ==
    /\ cur.readSequence = 0 => i = Len(lv) + 1
    /\ cur.readSequence # 0 => \A x \in 1..(i - 1) : lv[x].seq < cur.readSequence
    /\ \A x \in i..Len(lv) : lv[x].seq >= cur.readSequence

\* It is enough to look at the batch in front of the cursor and the one before.
LEMMA ExpectsFrom ==
  ASSUME NEW d, NEW w, NEW m, NEW hd, NEW st, NEW sf, NEW sa, NEW wf, NEW wa,
         Stored(d, w, m, hd, st, sf, sa, wf, wa), NEW lo, NEW lv, Flat(hd.generation, sf, wf, lo, lv),
         NEW cur \in CursorType, NEW i \in 1..(Len(lv) + 1),
         cur.readSequence = 0 => i = Len(lv) + 1,
         cur.readSequence # 0 /\ i # 1 => lv[i - 1].seq < cur.readSequence,
         i <= Len(lv) => lv[i].seq >= cur.readSequence
  PROVE  Expects(lv, cur, i)
  <1> DEFINE r == cur.readSequence
  <1>1. lv \in Seq(FrameSet) /\ Len(lv) \in Nat
    BY DEF Flat
  <1>2. \A x \in 1..Len(lv) : lv[x].seq \in Nat
    <2>1. \A x \in 1..Len(lv) : lv[x] \in FrameSet
      BY <1>1
    <2> QED
      BY <2>1, FrameFacts
  <1>3. r \in Nat
    BY DEF CursorType
  <1>4. ASSUME r # 0, NEW x \in 1..(i - 1) PROVE lv[x].seq < r
    <2>1. i - 1 \in 1..Len(lv) /\ x \in 1..Len(lv) /\ i # 1
      BY <1>1
    <2>2. lv[i - 1].seq < r
      BY <1>4, <2>1
    <2>3. x < i - 1 => lv[x].seq < lv[i - 1].seq
      BY <2>1, FlatNumbers
    <2>4. lv[x].seq \in Nat /\ lv[i - 1].seq \in Nat
      BY <1>2, <2>1
    <2>5. CASE x = i - 1
      BY <2>2, <2>5
    <2>6. CASE x # i - 1
      <3>1. x < i - 1
        BY <1>1, <2>6
      <3> QED
        BY <1>3, <2>2, <2>3, <2>4, <3>1
    <2> QED
      BY <2>5, <2>6
  <1>5. ASSUME NEW x \in i..Len(lv) PROVE lv[x].seq >= r
    <2>1. i \in 1..Len(lv) /\ x \in 1..Len(lv) /\ i <= Len(lv)
      BY <1>1
    <2>2. lv[i].seq >= r
      BY <2>1
    <2>3. i < x => lv[i].seq < lv[x].seq
      BY <2>1, FlatNumbers
    <2>4. lv[x].seq \in Nat /\ lv[i].seq \in Nat
      BY <1>2, <2>1
    <2>5. CASE x = i
      BY <2>2, <2>5
    <2>6. CASE x # i
      <3>1. i < x
        BY <1>1, <2>6
      <3> QED
        BY <1>3, <2>2, <2>3, <2>4, <3>1
    <2> QED
      BY <2>5, <2>6
  <1> QED
    BY <1>4, <1>5 DEF Expects

\* Every cursor expects the sequence of its place.
LEMMA AtExpects ==
  ASSUME NEW d, NEW w, NEW m, NEW hd, NEW st, NEW sf, NEW sa, NEW wf, NEW wa,
         Stored(d, w, m, hd, st, sf, sa, wf, wa), NEW lo, NEW lv, Flat(hd.generation, sf, wf, lo, lv),
         NEW cur, NEW k, NEW j, At(d, hd, st, sf, sa, wf, wa, cur, k, j)
  PROVE  Expects(lv, cur, lo[k] + j)
  <1> DEFINE n == hd.generation
             i == lo[k] + j
             r == cur.readSequence
             b == lo[n + 1]
             l == Len(wf)
  <1>1. /\ n \in Nat /\ \A q \in 1..n : sf[q] \in Seq(FrameSet)
        /\ wf \in Seq(FrameSet) /\ l \in Nat
    BY StoredSegments
  <1>2. /\ lo \in [1..(n + 1) -> Nat] /\ lo[1] = 0
        /\ \A q \in 1..n : lo[q + 1] = lo[q] + Len(sf[q])
        /\ \A q \in 1..n : \A y \in 1..Len(sf[q]) : lv[lo[q] + y] = sf[q][y]
        /\ lv \in Seq(FrameSet) /\ Len(lv) = b + l /\ Len(lv) \in Nat
        /\ \A y \in 1..l : lv[b + y] = wf[y]
    BY DEF Flat
  <1>3. k \in 1..(n + 1) /\ j \in Nat /\ j >= 1 /\ lo[k] \in Nat
    BY AtPlace
  <1>4. i \in 1..(Len(lv) + 1)
    BY AtPlace
  <1>5. cur \in CursorType /\ r \in 0..SeqMax
    BY DEF At, CursorType
  <1>6. hd.installed \in Nat
    <2>1. hd.installed \in 0..SeqMax
      BY StoredFacts
    <2> QED
      BY <2>1
  <1>7. hd.sequence = hd.installed + l
    BY DEF Stored, HandleSays
  <1>8. hd.sequence \in 0..SeqMax
    BY StoredFacts
  <1>9. \A x \in 1..Len(lv) : lv[x].seq \in 1..SeqMax
    <2>1. \A x \in 1..Len(lv) : lv[x] \in FrameSet
      BY <1>2
    <2> QED
      BY <2>1, FrameFacts
  <1>10. \A x \in 1..Len(lv) : lv[x].seq <= hd.sequence
    BY FlatTop
  <1>11. ASSUME i \in 1..Len(lv), lv[i].seq = r PROVE Expects(lv, cur, i)
    <2>1. r # 0 /\ r \in Nat
      BY <1>9, <1>11
    <2>2. i # 1 => lv[i - 1].seq < r
      <3>1. SUFFICES ASSUME i # 1 PROVE lv[i - 1].seq < r
        OBVIOUS
      <3>2. i - 1 \in 1..Len(lv) /\ i - 1 < i
        BY <1>2, <1>11, <3>1
      <3>3. lv[i - 1].seq < lv[i].seq
        BY <1>11, <3>2, FlatNumbers
      <3> QED
        BY <1>11, <3>3
    <2>3. lv[i].seq >= r
      BY <1>11, <2>1
    <2> HIDE DEF i
    <2> QED
      BY <1>4, <1>5, <2>1, <2>2, <2>3, ExpectsFrom
  <1>12. CASE InSegment(hd, st, sf, sa, cur, k, j)
    <2>1. k \in 1..n /\ j \in 1..Len(sf[k]) /\ r = sf[k][j].seq
      BY <1>12 DEF InSegment
    <2>2. lv[i] = sf[k][j]
      BY <1>2, <2>1
    <2>3. i \in 1..Len(lv)
      BY <1>1, <2>1, FlatInside
    <2> QED
      BY <1>11, <2>1, <2>2, <2>3
  <1>13. CASE InLog(hd, wf, wa, cur, k, j)
    <2>1. k = n + 1 /\ j \in 1..(l + 1) /\ r = Wrap(hd.installed + j) /\ i = b + j
      BY <1>13 DEF InLog
    <2>2. b \in Nat
      BY <1>3, <2>1
    <2>3. CASE j <= l
      <3>1. j \in 1..l
        BY <1>1, <2>1, <2>3
      <3>2. lv[i] = wf[j]
        BY <1>2, <2>1, <3>1
      <3>3. wf[j].seq = hd.installed + j
        BY <3>1, LogNumbers
      <3> HIDE DEF l, b, i
      <3>4. i \in 1..Len(lv)
        BY <1>1, <1>2, <2>1, <2>2, <3>1
      <3>5. hd.installed + j <= SeqMax /\ hd.installed + j \in Nat
        <4> DEFINE v == hd.installed
                   u == hd.sequence
        <4>1. v \in Nat /\ u = v + l /\ u \in 0..SeqMax /\ j \in 1..l /\ l \in Nat
          BY <1>1, <1>6, <1>7, <1>8, <3>1
        <4> HIDE DEF v, u
        <4>2. v + j <= SeqMax /\ v + j \in Nat
          BY <4>1, LimitAssumption
        <4> QED
          BY <4>2 DEF v
      <3>6. r = hd.installed + j
        BY <2>1, <3>5, WrapFacts
      <3> QED
        BY <1>11, <3>2, <3>3, <3>4, <3>6 DEF i
    <2>4. CASE ~(j <= l)
      <3> HIDE DEF l, b, i, r
      <3>1. j = l + 1 /\ i = Len(lv) + 1 /\ hd.installed + j = hd.sequence + 1 /\ hd.sequence + 1 \in Nat
        <4>1. j = l + 1
          BY <1>1, <2>1, <2>4
        <4>2. i = Len(lv) + 1
          BY <1>1, <1>2, <2>1, <2>2, <4>1
        <4>3. hd.installed + j = hd.sequence + 1
          <5> DEFINE v == hd.installed
                     u == hd.sequence
          <5>1. v \in Nat /\ u = v + l /\ j = l + 1 /\ l \in Nat
            BY <1>1, <1>6, <1>7, <4>1
          <5> HIDE DEF v, u
          <5>2. v + j = u + 1
            BY <5>1
          <5> QED
            BY <5>2 DEF v, u
        <4> QED
          BY <1>1, <1>6, <1>7, <4>1, <4>2, <4>3
      <3>2. r = 0 \/ r = hd.sequence + 1
        <4>1. CASE hd.sequence + 1 <= SeqMax
          BY <2>1, <3>1, <4>1, WrapFacts
        <4>2. CASE hd.sequence = SeqMax
          BY <2>1, <3>1, <4>2, WrapFacts
        <4> QED
          BY <1>8, <4>1, <4>2, LimitAssumption
      <3>3. r # 0 /\ i # 1 => lv[i - 1].seq < r
        <4>1. SUFFICES ASSUME r # 0, i # 1 PROVE lv[i - 1].seq < r
          OBVIOUS
        <4>2. i - 1 \in 1..Len(lv)
          BY <1>2, <1>4, <3>1, <4>1 DEF i
        <4>3. lv[i - 1].seq <= hd.sequence /\ lv[i - 1].seq \in 1..SeqMax
          BY <1>9, <1>10, <4>2
        <4> QED
          BY <1>8, <3>2, <4>1, <4>3
      <3>4. ~(i <= Len(lv))
        BY <1>2, <3>1
      <3>5. i \in 1..(Len(lv) + 1)
        BY <1>4 DEF i
      <3> QED
        BY <1>5, <3>1, <3>3, <3>4, <3>5, ExpectsFrom DEF r, i
    <2> QED
      BY <2>3, <2>4
  <1>14. CASE Between(d, hd, st, cur, k, j)
    <2> DEFINE L == LastOf(d, st, k - 1)
    <2>1. j = 1 /\ r = Wrap(L + 1)
      BY <1>14 DEF Between
    <2>2. Layout(d, DataStart, hd.dataEnd, n, st, sf, sa)
      BY StoredFacts
    <2>3. k - 1 \in 0..n /\ (k - 1) + 1 = k
      BY <1>1, <1>3
    <2>4. L \in 0..SeqMax
      BY <2>2, <2>3, SequencesGrow
    <2>5. L + 1 \in Nat /\ (L + 1 <= SeqMax => r = L + 1) /\ (L = SeqMax => r = 0)
      <3> HIDE DEF L
      <3>1. L + 1 \in Nat
        BY <2>4
      <3>2. L + 1 <= SeqMax => r = L + 1
        BY <2>1, <3>1, WrapFacts
      <3>3. L = SeqMax => r = 0
        BY <2>1, <3>1, WrapFacts
      <3> QED
        BY <3>1, <3>2, <3>3
    <2>6. r # 0 /\ i # 1 => lv[i - 1].seq < r
      <3>1. SUFFICES ASSUME r # 0, i # 1 PROVE lv[i - 1].seq < r
        OBVIOUS
      <3>2. i - 1 = lo[k] /\ i - 1 \in 1..lo[k] /\ i - 1 \in 1..Len(lv)
        BY SMTT(30), <1>2, <1>3, <1>4, <2>1, <3>1
      <3>3. lv[i - 1].seq <= L
        BY <1>3, <3>2, FlatBelow
      <3>4. lv[i - 1].seq \in 1..SeqMax
        BY <1>9, <3>2
      <3> HIDE DEF L, i, r
      <3>5. r = L + 1
        <4>1. L # SeqMax
          BY <2>5, <3>1
        <4>2. L + 1 <= SeqMax
          BY <2>4, <4>1, LimitAssumption
        <4> QED
          BY <2>5, <4>2
      <3> QED
        BY <2>4, <3>3, <3>4, <3>5
    <2>7. CASE k \in 1..n
      <3>1. k - 1 < n
        BY <1>1, <2>7
      <3>2. L < d[st[k]].first
        BY <2>2, <2>3, <3>1, SequencesGrow
      <3>3. SegmentNumbers(d[st[k]], sf[k])
        BY <2>7, StoredNumbers
      <3>4. d[st[k]].first \in 1..SeqMax /\ 1 \in 1..Len(sf[k]) /\ sf[k][1].seq = d[st[k]].first + (1 - 1)
        BY <3>3 DEF SegmentNumbers
      <3>5. lv[i] = sf[k][1]
        BY <1>2, <2>1, <2>7, <3>4
      <3>6. i \in 1..Len(lv)
        BY <1>1, <2>1, <2>7, <3>4, FlatInside
      <3> DEFINE f == d[st[k]].first
      <3>7. lv[i].seq = f
        BY <3>4, <3>5
      <3> HIDE DEF L, i, f, r
      <3>8. r = L + 1 /\ r # 0 /\ lv[i].seq >= r
        <4>1. f \in 1..SeqMax /\ L < f
          BY <3>2, <3>4 DEF f
        <4>2. L + 1 <= SeqMax
          BY <2>4, <4>1, LimitAssumption
        <4>3. r = L + 1
          BY <2>5, <4>2
        <4> QED
          BY <2>4, <3>7, <4>1, <4>3, LimitAssumption
      <3> QED
        BY <1>4, <1>5, <2>6, <3>8, ExpectsFrom DEF i, r
    <2>8. CASE k = n + 1
      <3>1. L <= hd.installed
        <4>1. LastOf(d, st, n) <= hd.installed
          BY StoredFacts
        <4>2. k - 1 = n
          BY <1>1, <2>8
        <4> QED
          BY <4>1, <4>2
      <3>2. i = b + 1 /\ b \in Nat
        BY <1>3, <2>1, <2>8
      <3>3. r = 0 => i = Len(lv) + 1
        <4> HIDE DEF L, i, r, b, l
        <4>1. SUFFICES ASSUME r = 0 PROVE i = Len(lv) + 1
          OBVIOUS
        <4>2. L = SeqMax
          BY <2>4, <2>5, <4>1, LimitAssumption
        <4>3. l = 0
          BY <1>1, <1>6, <1>7, <1>8, <3>1, <4>2, LimitAssumption
        <4> QED
          BY <1>2, <3>2, <4>3
      <3>4. i <= Len(lv) => lv[i].seq >= r
        <4>1. SUFFICES ASSUME i <= Len(lv) PROVE lv[i].seq >= r
          OBVIOUS
        <4> HIDE DEF L, i, r, b, l
        <4>2. 1 \in 1..l
          BY <1>1, <1>2, <3>2, <4>1
        <4>3. lv[i] = wf[1]
          BY <1>2, <3>2, <4>2
        <4>4. wf[1].seq = hd.installed + 1
          BY <4>2, LogNumbers DEF l
        <4>5. hd.installed + 1 <= SeqMax
          BY <1>1, <1>6, <1>7, <1>8, <4>2, LimitAssumption
        <4>6. r = L + 1
          BY <1>6, <2>4, <2>5, <3>1, <4>5, LimitAssumption
        <4> QED
          BY <1>6, <2>4, <3>1, <4>3, <4>4, <4>6
      <3>5. i \in 1..(Len(lv) + 1) /\ cur \in CursorType
        BY <1>4, <1>5
      <3> HIDE DEF L, i, r, l, b
      <3> QED
        BY <2>6, <3>3, <3>4, <3>5, ExpectsFrom DEF i, r
    <2>9. k \in 1..n \/ k = n + 1
      BY <1>1, <1>3
    <2> QED
      BY <2>7, <2>8, <2>9
  <1> QED
    BY <1>12, <1>13, <1>14 DEF At

------------------------------------------------------------------------------
(* Cursors at the start and at the end, and appending. *)

\* A reset cursor stands in front of the first batch.
LEMMA ResetAt ==
  ASSUME NEW d, NEW w, NEW m, NEW hd, NEW st, NEW sf, NEW sa, NEW wf, NEW wa,
         Stored(d, w, m, hd, st, sf, sa, wf, wa)
  PROVE  At(d, hd, st, sf, sa, wf, wa, ResetCursor, 1, 1)
  <1>1. Layout(d, DataStart, hd.dataEnd, hd.generation, st, sf, sa)
    BY StoredFacts
  <1>2. hd.generation \in Nat /\ st[1] = DataStart
    BY <1>1 DEF Layout
  <1>3. ResetCursor \in CursorType
    BY LimitAssumption DEF ResetCursor, CursorType, DataStart
  <1>4. LastOf(d, st, 1 - 1) = 0
    BY DEF LastOf
  <1>5. Wrap(0 + 1) = 1
    BY LimitAssumption, WrapFacts
  <1>6. 1 \in 1..(hd.generation + 1)
    BY <1>2
  <1>7. Between(d, hd, st, ResetCursor, 1, 1)
    BY <1>2, <1>4, <1>5, <1>6 DEF Between, ResetCursor
  <1> QED
    BY <1>3, <1>7 DEF At

\* The cursor that seek and expiry leave on END stands after the last batch.
LEMMA EndAt ==
  ASSUME NEW d, NEW w, NEW m, NEW hd, NEW st, NEW sf, NEW sa, NEW wf, NEW wa,
         Stored(d, w, m, hd, st, sf, sa, wf, wa), NEW cur \in CursorType
  PROVE  At(d, hd, st, sf, sa, wf, wa, EndCursor(hd, cur), hd.generation + 1, Len(wf) + 1)
  <1> DEFINE e == EndCursor(hd, cur)
  <1>1. IsFrames(w, WalStart, hd.end, hd.installed + 1, wf, wa)
    BY StoredFacts
  <1>2. hd.end = wa[Len(wf) + 1]
    BY <1>1 DEF IsFrames
  <1>3. Len(wf) \in Nat /\ hd.end \in Nat /\ hd.installed \in 0..SeqMax
    BY StoredFacts
  <1>4. hd.sequence = hd.installed + Len(wf)
    BY DEF Stored, HandleSays
  <1>5. e.cursor = hd.end /\ e.inWal = TRUE /\ e.readSequence = Wrap(hd.sequence + 1)
    BY DEF EndCursor, CursorType
  <1>6. hd.sequence + 1 \in Nat /\ hd.sequence + 1 = hd.installed + (Len(wf) + 1)
    BY <1>3, <1>4
  <1>7. Wrap(hd.sequence + 1) \in 0..SeqMax
    BY <1>6, WrapFacts
  <1>9. e \in CursorType
    <2> DEFINE q == Wrap(hd.sequence + 1)
               x == hd.end
    <2>1. q \in 0..SeqMax /\ x \in Nat
      BY <1>3, <1>7
    <2>2. e = [cur EXCEPT !.inWal = TRUE, !.cursor = x, !.readSequence = q]
      BY DEF EndCursor
    <2> HIDE DEF q, x, e
    <2> QED
      BY <2>1, <2>2 DEF CursorType
  <1> HIDE DEF e
  <1>10. Len(wf) + 1 \in 1..(Len(wf) + 1)
    BY <1>3
  <1>11. InLog(hd, wf, wa, e, hd.generation + 1, Len(wf) + 1)
    BY <1>2, <1>5, <1>6, <1>10 DEF InLog
  <1> QED
    BY <1>9, <1>11 DEF At, e

\* The first and the last time of an ordered batch bound its times.
LEMMA OrderedBounds ==
  ASSUME NEW f \in FrameSet, FrameOrdered(f), NEW t \in TimesOf(f)
  PROVE  FirstTimeOf(f) <= t /\ t <= LastTimeOf(f)
  <1> DEFINE r == f.records
             l == Len(r)
             T(i) == r[i].time
  <1>1. r \in Seq(Records) /\ r # <<>> /\ \A i \in DOMAIN r : r[i].time \in Times
    BY FrameFacts
  <1>2. l \in Nat /\ l >= 1 /\ DOMAIN r = 1..l
    BY <1>1
  <1>3. \A i \in 1..l : T(i) \in Nat
    BY <1>1, <1>2 DEF Times
  <1>4. PICK x \in 1..l : t = T(x)
    BY <1>2 DEF TimesOf
  <1>5. \A i \in 2..l : T(i) >= T(i - 1)
    BY DEF FrameOrdered
  <1> DEFINE U(a) == {u \in Nat : a + u <= l => T(a) <= T(a + u)}
  <1>6. ASSUME NEW a \in 1..l, NEW u \in Nat, a + u <= l PROVE T(a) <= T(a + u)
    <2>1. 0 \in U(a)
      <3>1. a + 0 = a /\ T(a) \in Nat
        BY <1>3
      <3> QED
        BY <3>1
    <2>2. ASSUME NEW v \in 0..(u - 1), v \in U(a) PROVE v + 1 \in U(a)
      <3>1. v \in Nat /\ a + v \in 1..l /\ a + (v + 1) \in 2..l /\ (a + (v + 1)) - 1 = a + v /\ a + (v + 1) \in 1..l
        BY <1>2, <1>6
      <3>2. T(a) <= T(a + v)
        BY <2>2, <3>1
      <3>3. T(a + (v + 1)) >= T(a + v)
        BY <1>5, <3>1
      <3>4. T(a) \in Nat /\ T(a + v) \in Nat /\ T(a + (v + 1)) \in Nat
        BY <1>3, <3>1
      <3> HIDE DEF T
      <3>5. T(a) <= T(a + (v + 1))
        BY <3>2, <3>3, <3>4
      <3> QED
        BY <3>1, <3>5
    <2>3. u \in U(a)
      <3> HIDE DEF U
      <3>1. \A v \in 0..u : v \in U(a)
        BY <2>1, <2>2, UpTo
      <3> QED
        BY <3>1
    <2> QED
      BY <1>6, <2>3
  <1>7. 1 \in 1..l /\ x - 1 \in Nat /\ 1 + (x - 1) = x /\ l - x \in Nat /\ x + (l - x) = l /\ l <= l /\ x <= l
    BY <1>2
  <1>8. T(1) <= T(x)
    <2>1. T(1) <= T(1 + (x - 1))
      BY <1>6, <1>7
    <2> QED
      BY <1>7, <2>1
  <1>9. T(x) <= T(l)
    <2>1. T(x) <= T(x + (l - x))
      BY <1>6, <1>7
    <2> QED
      BY <1>7, <2>1
  <1> QED
    BY <1>4, <1>8, <1>9 DEF FirstTimeOf, LastTimeOf

\* The first and the last time of a batch are times of it.
LEMMA EndTimes ==
  ASSUME NEW f \in FrameSet
  PROVE  FirstTimeOf(f) \in TimesOf(f) /\ LastTimeOf(f) \in TimesOf(f) /\ TimesOf(f) \subseteq Times
  <1>1. f.records \in Seq(Records) /\ f.records # <<>> /\ \A i \in DOMAIN f.records : f.records[i].time \in Times
    BY FrameFacts
  <1>2. 1 \in DOMAIN f.records /\ Len(f.records) \in DOMAIN f.records
    BY <1>1
  <1> QED
    BY <1>1, <1>2 DEF FirstTimeOf, LastTimeOf, TimesOf

\* One more batch at the end of a sequence.
LEMMA AppendFacts ==
  ASSUME NEW S, NEW s \in Seq(S), NEW x \in S
  PROVE  /\ Append(s, x) \in Seq(S) /\ Len(Append(s, x)) = Len(s) + 1 /\ Len(s) \in Nat
         /\ Append(s, x)[Len(s) + 1] = x
         /\ \A i \in 1..Len(s) : Append(s, x)[i] = s[i]
         /\ Append(s, x) # <<>>
  OBVIOUS

\* A batch in order after an ordered log keeps it ordered.
LEMMA OrderedAppend ==
  ASSUME NEW s \in Seq(FrameSet), NEW f \in FrameSet, FrameOrdered(f),
         s # <<>> => FirstTimeOf(f) >= LastTimeOf(s[Len(s)])
  PROVE  Ordered(Append(s, f)) = Ordered(s)
  <1> DEFINE t == Append(s, f)
             n == Len(s)
  <1>1. t \in Seq(FrameSet) /\ Len(t) = n + 1 /\ n \in Nat /\ t[n + 1] = f /\ \A i \in 1..n : t[i] = s[i]
    BY AppendFacts
  <1>2. DOMAIN t = 1..(n + 1) /\ DOMAIN s = 1..n
    BY <1>1
  <1> HIDE DEF t, n
  <1>3. ASSUME Ordered(s) PROVE Ordered(t)
    <2>1. ASSUME NEW i \in 1..(n + 1) PROVE FrameOrdered(t[i])
      <3>1. CASE i = n + 1
        BY <1>1, <3>1
      <3>2. CASE i # n + 1
        <4>1. i \in 1..n
          BY <1>1, <3>2
        <4> QED
          BY <1>1, <1>2, <1>3, <4>1 DEF Ordered
      <3> QED
        BY <3>1, <3>2
    <2>2. ASSUME NEW i \in 2..(n + 1) PROVE FirstTimeOf(t[i]) >= LastTimeOf(t[i - 1])
      <3>1. CASE i = n + 1
        <4>1. i - 1 = n /\ n \in 1..n /\ s # <<>>
          BY <1>1, <1>2, <3>1
        <4>2. t[i] = f /\ t[i - 1] = s[n]
          BY <1>1, <3>1, <4>1
        <4> QED
          BY <4>1, <4>2 DEF n
      <3>2. CASE i # n + 1
        <4>1. i \in 2..n /\ i \in 1..n /\ i - 1 \in 1..n
          BY <1>1, <3>2
        <4>2. t[i] = s[i] /\ t[i - 1] = s[i - 1]
          BY <1>1, <4>1
        <4> QED
          BY <1>1, <1>2, <1>3, <4>1, <4>2 DEF Ordered, n
      <3> QED
        BY <3>1, <3>2
    <2> QED
      BY <1>1, <1>2, <2>1, <2>2 DEF Ordered
  <1>4. ASSUME Ordered(t) PROVE Ordered(s)
    <2>1. ASSUME NEW i \in 1..n PROVE FrameOrdered(s[i])
      <3>1. i \in 1..(n + 1) /\ t[i] = s[i]
        BY <1>1
      <3> QED
        BY <1>2, <1>4, <3>1 DEF Ordered
    <2>2. ASSUME NEW i \in 2..n PROVE FirstTimeOf(s[i]) >= LastTimeOf(s[i - 1])
      <3>1. i \in 2..(n + 1) /\ i \in 1..n /\ i - 1 \in 1..n
        BY <1>1
      <3>2. t[i] = s[i] /\ t[i - 1] = s[i - 1]
        BY <1>1, <3>1
      <3> QED
        BY <1>1, <1>4, <3>1, <3>2 DEF Ordered
    <2> QED
      BY <1>2, <2>1, <2>2 DEF Ordered, n
  <1>5. Ordered(s) \in BOOLEAN /\ Ordered(t) \in BOOLEAN
    BY DEF Ordered
  <1> QED
    BY <1>3, <1>4, <1>5 DEF t

\* A frame written at the end of the log.
LEMMA AppendLog ==
  ASSUME NEW w, NEW end, NEW last, NEW wf, NEW wa, Log(w, end, last, wf, wa), NEW f \in FrameSet,
         f.seq = (last + Len(wf)) + 1, end + FrameSize(f) <= WalCapacity,
         NEW wx, wx = [o \in DOMAIN w \cup {end} |-> IF o = end THEN f ELSE w[o]]
  PROVE  /\ Log(wx, end + FrameSize(f), last, Append(wf, f), Longer(wa, Len(wf) + 1, end + FrameSize(f)))
         /\ \A i \in 1..(Len(wf) + 1) : Longer(wa, Len(wf) + 1, end + FrameSize(f))[i] = wa[i]
  <1> DEFINE n == Len(wf)
             t == Append(wf, f)
             z == end + FrameSize(f)
             a == Longer(wa, n + 1, z)
  <1>1. /\ Cells(w) /\ DOMAIN w = {wa[i] : i \in 1..n} /\ IsFrames(w, WalStart, end, last + 1, wf, wa)
        /\ last \in Nat /\ last + n <= SeqMax
    BY DEF Log
  <1>2. /\ wf \in Seq(FrameSet) /\ n \in Nat /\ wa \in [1..(n + 1) -> Nat] /\ wa[1] = WalStart /\ wa[n + 1] = end
        /\ \A i \in 1..n : /\ wa[i] \in DOMAIN w /\ w[wa[i]] = wf[i]
                           /\ wf[i].seq = (last + 1) + (i - 1)
                           /\ wa[i + 1] = wa[i] + FrameSize(wf[i])
    <2>1. wf \in Seq(FrameSet)
      BY <1>1 DEF IsFrames
    <2>2. n \in Nat
      BY <2>1
    <2> QED
      BY <1>1, <2>1, <2>2 DEF IsFrames
  <1>3. t \in Seq(FrameSet) /\ Len(t) = n + 1 /\ t[n + 1] = f /\ \A i \in 1..n : t[i] = wf[i]
    BY <1>2, AppendFacts
  <1>4. FrameSize(f) \in Nat /\ FrameSize(f) >= 1 /\ f.seq \in 1..SeqMax
    BY FrameFacts
  <1>5. end \in Nat /\ z \in Nat
    BY <1>2, <1>4
  <1> HIDE DEF z, t
  <1>6. a \in [1..((n + 1) + 1) -> Nat] /\ a[(n + 1) + 1] = z /\ \A i \in 1..(n + 1) : a[i] = wa[i]
    BY <1>2, <1>5 DEF Longer
  <1> HIDE DEF a
  <1>7. \A i \in 1..n : wa[i] # end
    <2>1. SUFFICES ASSUME NEW i \in 1..n PROVE wa[i] # end
      OBVIOUS
    <2>2. i \in 1..(n + 1) /\ n + 1 \in i..(n + 1)
      BY <1>2
    <2>3. wa[i] + ((n + 1) - i) <= wa[n + 1] /\ wa[i] \in Nat
      BY <1>1, <2>2, FramesGrow
    <2>4. (n + 1) - i >= 1 /\ (n + 1) - i \in Nat
      BY <1>2
    <2> QED
      BY <1>2, <1>5, <2>3, <2>4
  <1>8. end \in DOMAIN wx /\ wx[end] = f /\ \A i \in 1..n : wa[i] \in DOMAIN wx /\ wx[wa[i]] = wf[i]
    BY <1>2, <1>7
  <1>9. ASSUME NEW i \in 1..(n + 1)
        PROVE  /\ a[i] \in DOMAIN wx /\ wx[a[i]] = t[i]
               /\ t[i].seq = (last + 1) + (i - 1)
               /\ a[i + 1] = a[i] + FrameSize(t[i])
    <2>1. CASE i = n + 1
      <3>1. a[i] = end /\ t[i] = f /\ a[i + 1] = z
        BY <1>2, <1>3, <1>6, <2>1
      <3>2. f.seq = (last + 1) + (i - 1)
        BY <1>1, <1>2, <2>1
      <3> QED
        BY <1>8, <3>1, <3>2 DEF z
    <2>2. CASE i # n + 1
      <3>1. i \in 1..n /\ i + 1 \in 1..(n + 1)
        BY <1>2, <2>2
      <3>2. a[i] = wa[i] /\ a[i + 1] = wa[i + 1] /\ t[i] = wf[i]
        BY <1>3, <1>6, <3>1
      <3> QED
        BY <1>2, <1>8, <3>1, <3>2
    <2> QED
      BY <2>1, <2>2
  <1>10. IsFrames(wx, WalStart, z, last + 1, t, a)
    <2>1. a[1] = WalStart
      BY <1>2, <1>6
    <2> QED
      BY <1>3, <1>6, <1>9, <2>1 DEF IsFrames
  <1>11. Cells(wx)
    <2>1. \A o \in DOMAIN wx : o \in Nat /\ wx[o] \in FrameSet \cup SegmentSet
      BY <1>1, <1>5 DEF Cells
    <2> QED
      BY <2>1 DEF Cells
  <1>12. DOMAIN wx = {a[i] : i \in 1..Len(t)}
    <2>1. DOMAIN wx = DOMAIN w \cup {end}
      OBVIOUS
    <2>2. {a[i] : i \in 1..(n + 1)} = {wa[i] : i \in 1..n} \cup {end}
      <3>1. n + 1 \in 1..(n + 1) /\ a[n + 1] = end /\ 1..n \subseteq 1..(n + 1)
        BY <1>2, <1>6
      <3>2. \A i \in 1..n : a[i] = wa[i]
        BY <1>6, <3>1
      <3>3. \A i \in 1..(n + 1) : i \in 1..n \/ i = n + 1
        BY <1>2
      <3> QED
        BY <3>1, <3>2, <3>3
    <2> QED
      BY <1>1, <1>3, <2>1, <2>2
  <1>13. last + Len(t) <= SeqMax
    BY <1>1, <1>2, <1>3, <1>4, LimitAssumption
  <1>14. z <= WalCapacity
    BY DEF z
  <1> QED
    BY <1>1, <1>6, <1>10, <1>11, <1>12, <1>13, <1>14 DEF Log, z, t, a

\* The handle after an append.
AppendedHandle(hd, f) ==
    LET empty == hd.end = WalStart
    IN  [hd EXCEPT !.walFirst = IF empty THEN FirstTimeOf(f) ELSE @,
                   !.walMin = IF empty \/ FirstTimeOf(f) < @ THEN FirstTimeOf(f) ELSE @,
                   !.walMax = IF empty \/ LastTimeOf(f) > @ THEN LastTimeOf(f) ELSE @,
                   !.lastTime = LastTimeOf(f), !.end = @ + FrameSize(f),
                   !.sequence = @ + 1]

\* The fields an append changes, and the ones it leaves.
LEMMA AppendedFields ==
  ASSUME NEW hd \in HandleSet, NEW f \in FrameSet
  PROVE  LET x == AppendedHandle(hd, f)
             empty == hd.end = WalStart
         IN  /\ x \in HandleSet
             /\ x.dataEnd = hd.dataEnd /\ x.generation = hd.generation /\ x.installed = hd.installed
             /\ x.retention = hd.retention /\ x.installedTime = hd.installedTime
             /\ x.lastSegment = hd.lastSegment /\ x.spanStart = hd.spanStart
             /\ x.walOrdered = hd.walOrdered /\ x.failed = hd.failed
             /\ x.end = hd.end + FrameSize(f) /\ x.sequence = hd.sequence + 1
             /\ x.lastTime = LastTimeOf(f)
             /\ x.walFirst = (IF empty THEN FirstTimeOf(f) ELSE hd.walFirst)
             /\ x.walMin = (IF empty \/ FirstTimeOf(f) < hd.walMin THEN FirstTimeOf(f) ELSE hd.walMin)
             /\ x.walMax = (IF empty \/ LastTimeOf(f) > hd.walMax THEN LastTimeOf(f) ELSE hd.walMax)
  <1> DEFINE a == FirstTimeOf(f)
             b == LastTimeOf(f)
             s == FrameSize(f)
             empty == hd.end = WalStart
  <1>1. a \in Times /\ b \in Times /\ s \in Nat
    BY FrameFacts
  <1>2. AppendedHandle(hd, f) =
          [hd EXCEPT !.walFirst = IF empty THEN a ELSE @,
                     !.walMin = IF empty \/ a < @ THEN a ELSE @,
                     !.walMax = IF empty \/ b > @ THEN b ELSE @,
                     !.lastTime = b, !.end = @ + s, !.sequence = @ + 1]
    BY DEF AppendedHandle
  <1> HIDE DEF a, b, s
  <1> DEFINE x == AppendedHandle(hd, f)
  <1> HIDE DEF x
  <1>3. x \in HandleSet
    <2> DEFINE p == IF empty THEN a ELSE hd.walFirst
               q == IF empty \/ a < hd.walMin THEN a ELSE hd.walMin
               r == IF empty \/ b > hd.walMax THEN b ELSE hd.walMax
               u == hd.end + s
               v == hd.sequence + 1
    <2>1. p \in Times /\ q \in Times /\ r \in Times /\ u \in Nat /\ v \in Nat
      BY <1>1 DEF HandleSet
    <2>2. x = [hd EXCEPT !.walFirst = p, !.walMin = q, !.walMax = r, !.lastTime = b, !.end = u, !.sequence = v]
      BY <1>2 DEF HandleSet, x
    <2> HIDE DEF p, q, r, u, v
    <2> QED
      BY <1>1, <2>1, <2>2 DEF HandleSet
  <1>4. /\ x.dataEnd = hd.dataEnd /\ x.generation = hd.generation /\ x.installed = hd.installed
        /\ x.retention = hd.retention /\ x.installedTime = hd.installedTime
        /\ x.lastSegment = hd.lastSegment /\ x.spanStart = hd.spanStart
        /\ x.walOrdered = hd.walOrdered /\ x.failed = hd.failed
    BY <1>2 DEF HandleSet, x
  <1>5. /\ x.end = hd.end + s /\ x.sequence = hd.sequence + 1 /\ x.lastTime = b
        /\ x.walFirst = (IF empty THEN a ELSE hd.walFirst)
    BY <1>2 DEF HandleSet, x
  <1>6. x.walMin = (IF empty \/ a < hd.walMin THEN a ELSE hd.walMin)
    BY <1>2 DEF HandleSet, x
  <1>7. x.walMax = (IF empty \/ b > hd.walMax THEN b ELSE hd.walMax)
    BY <1>2 DEF HandleSet, x
  <1> QED
    BY <1>3, <1>4, <1>5, <1>6, <1>7 DEF x, a, b, s

\* The times of a log with one more batch.
LEMMA AllTimesAppend ==
  ASSUME NEW s \in Seq(FrameSet), NEW f \in FrameSet, FrameOrdered(f)
  PROVE  /\ Min(AllTimes(Append(s, f))) =
               (IF s = <<>> \/ FirstTimeOf(f) < Min(AllTimes(s)) THEN FirstTimeOf(f) ELSE Min(AllTimes(s)))
         /\ Max(AllTimes(Append(s, f))) =
               (IF s = <<>> \/ LastTimeOf(f) > Max(AllTimes(s)) THEN LastTimeOf(f) ELSE Max(AllTimes(s)))
  <1> DEFINE t == Append(s, f)
             n == Len(s)
             A == AllTimes(s)
             B == AllTimes(t)
             a == FirstTimeOf(f)
             b == LastTimeOf(f)
  <1>1. t \in Seq(FrameSet) /\ Len(t) = n + 1 /\ n \in Nat /\ t[n + 1] = f /\ \A i \in 1..n : t[i] = s[i]
    BY AppendFacts
  <1>2. DOMAIN t = 1..(n + 1) /\ DOMAIN s = 1..n
    BY <1>1
  <1> HIDE DEF t
  <1>3. B = A \cup TimesOf(f)
    <2>1. \A i \in 1..(n + 1) : i \in 1..n \/ i = n + 1
      BY <1>1
    <2>2. n + 1 \in 1..(n + 1) /\ \A i \in 1..n : i \in 1..(n + 1)
      BY <1>1
    <2> HIDE DEF n
    <2> QED
      BY <1>1, <1>2, <2>1, <2>2 DEF AllTimes
  <1>4. a \in TimesOf(f) /\ b \in TimesOf(f) /\ TimesOf(f) \subseteq Times
    BY EndTimes
  <1>5. \A x \in TimesOf(f) : a <= x /\ x <= b
    BY OrderedBounds
  <1>6. Times \subseteq Int
    BY DEF Times
  <1> HIDE DEF a, b, A, B
  <1>7. CASE s = <<>>
    <2>1. A = {}
      BY <1>7 DEF A, AllTimes
    <2>2. B = TimesOf(f) /\ B \subseteq Int /\ a \in B /\ b \in B
      BY <1>3, <1>4, <1>6, <2>1
    <2>3. \A y \in B : a <= y
      BY <1>5, <2>2
    <2>4. \A y \in B : b >= y
      BY <1>4, <1>5, <1>6, <2>2
    <2>5. Min(B) = a
      BY <2>2, <2>3, MinIs
    <2>6. Max(B) = b
      BY <2>2, <2>4, MaxIs
    <2> QED
      BY <1>7, <2>5, <2>6 DEF a, b, A, B, t
  <1>8. CASE s # <<>>
    <2> DEFINE p == Min(A)
               q == Max(A)
    <2>1. A \subseteq Times /\ p \in A /\ q \in A
      BY <1>8, AllTimesFacts DEF A
    <2>2. \A y \in A : p <= y /\ q >= y
      BY <1>8, AllTimesFacts DEF A
    <2>3. B \subseteq Int /\ p \in B /\ q \in B /\ a \in B /\ b \in B
      BY <1>3, <1>4, <1>6, <2>1
    <2> HIDE DEF p, q
    <2>4. Min(B) = IF a < p THEN a ELSE p
      <3> DEFINE v == IF a < p THEN a ELSE p
      <3>1. v \in B
        BY <2>3
      <3>2. \A y \in B : v <= y
        <4>1. SUFFICES ASSUME NEW y \in B PROVE v <= y
          OBVIOUS
        <4>2. y \in Int /\ a \in Int /\ p \in Int
          BY <2>3
        <4>3. p <= y \/ a <= y
          BY <1>3, <1>5, <2>2
        <4> QED
          BY <4>2, <4>3
      <3> HIDE DEF v
      <3>3. Min(B) = v
        BY <2>3, <3>1, <3>2, MinIs
      <3> QED
        BY <3>3 DEF v
    <2>5. Max(B) = IF b > q THEN b ELSE q
      <3> DEFINE v == IF b > q THEN b ELSE q
      <3>1. v \in B
        BY <2>3
      <3>2. \A y \in B : v >= y
        <4>1. SUFFICES ASSUME NEW y \in B PROVE v >= y
          OBVIOUS
        <4>2. y \in Int /\ b \in Int /\ q \in Int
          BY <2>3
        <4>3. q >= y \/ y <= b
          BY <1>3, <1>5, <2>2
        <4> QED
          BY <4>2, <4>3
      <3> HIDE DEF v
      <3>3. Max(B) = v
        BY <2>3, <3>1, <3>2, MaxIs
      <3> QED
        BY <3>3 DEF v
    <2> QED
      BY <1>8, <2>4, <2>5 DEF a, b, A, B, t, p, q
  <1> QED
    BY <1>7, <1>8

\* The log is empty where it ends at its start.
LEMMA EmptyLog ==
  ASSUME NEW d, NEW w, NEW m, NEW hd, NEW st, NEW sf, NEW sa, NEW wf, NEW wa,
         Stored(d, w, m, hd, st, sf, sa, wf, wa)
  PROVE  hd.end = WalStart <=> wf = <<>>
  <1>1. IsFrames(w, WalStart, hd.end, hd.installed + 1, wf, wa)
    BY StoredFacts
  <1>2. wf \in Seq(FrameSet) /\ wa[1] = WalStart /\ wa[Len(wf) + 1] = hd.end
    BY <1>1 DEF IsFrames
  <1>3. Len(wf) \in Nat
    BY <1>2
  <1>4. CASE wf = <<>>
    <2>1. Len(wf) = 0 /\ 0 + 1 = 1
      BY <1>4
    <2> QED
      BY <1>2, <1>4, <2>1
  <1>5. CASE wf # <<>>
    <2>1. Len(wf) >= 1
      BY <1>2, <1>5
    <2>2. 1 \in 1..(Len(wf) + 1) /\ Len(wf) + 1 \in 1..(Len(wf) + 1)
      BY <1>3
    <2>3. WalStart + Len(wf) <= hd.end /\ hd.end \in Nat
      BY <1>1, <2>2, FramesGrow
    <2> QED
      BY <1>3, <1>5, <2>1, <2>3 DEF WalStart
  <1> QED
    BY <1>4, <1>5

\* An append leaves files and a handle that fit.
LEMMA AppendStored ==
  ASSUME NEW d, NEW w, NEW m, NEW hd, NEW st, NEW sf, NEW sa, NEW wf, NEW wa,
         Stored(d, w, m, hd, st, sf, sa, wf, wa), NEW f \in FrameSet, f.seq = hd.sequence + 1,
         FrameOrdered(f), hd.sequence # 0 => FirstTimeOf(f) >= hd.lastTime,
         FrameSize(f) <= WalCapacity - hd.end,
         NEW wx, wx = [o \in DOMAIN w \cup {hd.end} |-> IF o = hd.end THEN f ELSE w[o]]
  PROVE  Stored(d, wx, m, AppendedHandle(hd, f), st, sf, sa, Append(wf, f),
                Longer(wa, Len(wf) + 1, hd.end + FrameSize(f)))
  <1> DEFINE x == AppendedHandle(hd, f)
             t == Append(wf, f)
             a == Longer(wa, Len(wf) + 1, hd.end + FrameSize(f))
  <1>1. hd \in HandleSet /\ wf \in Seq(FrameSet)
    BY StoredFacts
  <1>2. Len(wf) \in Nat /\ hd.end \in Nat
    BY StoredFacts
  <1>3. hd.sequence = hd.installed + Len(wf) /\ hd.installed \in Nat
    <2>1. hd.installed \in 0..SeqMax
      BY StoredFacts
    <2> QED
      BY <2>1 DEF Stored, HandleSays
  <1>4. FrameSize(f) \in Nat
    BY FrameFacts
  <1>5. Log(w, hd.end, hd.installed, wf, wa)
    BY DEF Stored
  <1>6. hd.end + FrameSize(f) <= WalCapacity
    BY <1>2, <1>4, ReaderAssumption
  <1>7. f.seq = (hd.installed + Len(wf)) + 1
    BY <1>3
  <1>8. Log(wx, hd.end + FrameSize(f), hd.installed, t, a)
    BY <1>5, <1>6, <1>7, AppendLog
  <1>9. /\ x \in HandleSet
        /\ x.dataEnd = hd.dataEnd /\ x.generation = hd.generation /\ x.installed = hd.installed
        /\ x.retention = hd.retention /\ x.installedTime = hd.installedTime
        /\ x.lastSegment = hd.lastSegment /\ x.spanStart = hd.spanStart
        /\ x.walOrdered = hd.walOrdered /\ x.failed = hd.failed
        /\ x.end = hd.end + FrameSize(f) /\ x.sequence = hd.sequence + 1
        /\ x.lastTime = LastTimeOf(f)
    BY <1>1, AppendedFields
  <1>10. /\ x.walFirst = (IF hd.end = WalStart THEN FirstTimeOf(f) ELSE hd.walFirst)
         /\ x.walMin = (IF hd.end = WalStart \/ FirstTimeOf(f) < hd.walMin THEN FirstTimeOf(f) ELSE hd.walMin)
         /\ x.walMax = (IF hd.end = WalStart \/ LastTimeOf(f) > hd.walMax THEN LastTimeOf(f) ELSE hd.walMax)
    BY <1>1, AppendedFields
  <1>11. t \in Seq(FrameSet) /\ Len(t) = Len(wf) + 1 /\ t[Len(wf) + 1] = f /\ t # <<>> /\ \A i \in 1..Len(wf) : t[i] = wf[i]
    BY <1>1, AppendFacts
  <1> HIDE DEF x, a
  <1>12. Segments(d, x.dataEnd, x.generation, x.installed, x.retention, x.installedTime, st, sf, sa)
    BY <1>9 DEF Stored
  <1>13. Log(wx, x.end, x.installed, t, a)
    BY <1>8, <1>9
  <1>14. ManifestOf(m, x)
    BY <1>9 DEF Stored, ManifestOf
  <1>15. hd.end = WalStart <=> wf = <<>>
    BY EmptyLog
  <1>16. wf # <<>> => FirstTimeOf(f) >= LastTimeOf(wf[Len(wf)])
    <2>1. SUFFICES ASSUME wf # <<>> PROVE FirstTimeOf(f) >= LastTimeOf(wf[Len(wf)])
      OBVIOUS
    <2>2. Len(wf) >= 1
      BY <1>1, <2>1
    <2>3. hd.sequence # 0
      BY <1>2, <1>3, <2>2
    <2>4. hd.lastTime = LastTimeOf(wf[Len(wf)])
      BY <2>1 DEF Stored, HandleSays
    <2> QED
      BY <2>3, <2>4
  <1>17. x.walOrdered = Ordered(t)
    <2>1. Ordered(t) = Ordered(wf)
      BY <1>1, <1>16, OrderedAppend
    <2> QED
      BY <1>9, <2>1 DEF Stored, HandleSays
  <1>18. x.walFirst = FirstTimeOf(t[1])
    <2>1. CASE wf = <<>>
      <3>1. Len(wf) + 1 = 1
        BY <2>1
      <3> QED
        BY <1>10, <1>11, <1>15, <2>1, <3>1
    <2>2. CASE wf # <<>>
      <3>1. 1 \in 1..Len(wf)
        BY <1>1, <2>2
      <3>2. t[1] = wf[1]
        BY <1>11, <3>1
      <3>3. hd.walFirst = FirstTimeOf(wf[1])
        BY <2>2 DEF Stored, HandleSays
      <3> QED
        BY <1>10, <1>15, <2>2, <3>2, <3>3
    <2> QED
      BY <2>1, <2>2
  <1>19. /\ Min(AllTimes(t)) =
               (IF wf = <<>> \/ FirstTimeOf(f) < Min(AllTimes(wf)) THEN FirstTimeOf(f) ELSE Min(AllTimes(wf)))
         /\ Max(AllTimes(t)) =
               (IF wf = <<>> \/ LastTimeOf(f) > Max(AllTimes(wf)) THEN LastTimeOf(f) ELSE Max(AllTimes(wf)))
    BY <1>1, AllTimesAppend
  <1>20. wf # <<>> => hd.walMin = Min(AllTimes(wf)) /\ hd.walMax = Max(AllTimes(wf))
    BY DEF Stored, HandleSays
  <1>21. x.walMin = Min(AllTimes(t))
    BY <1>10, <1>15, <1>19, <1>20
  <1>22. x.walMax = Max(AllTimes(t))
    BY <1>10, <1>15, <1>19, <1>20
  <1>23. x.sequence = x.installed + Len(t)
    <2> DEFINE l == Len(wf)
               u == hd.installed
               v == hd.sequence
               y == Len(t)
    <2>1. l \in Nat /\ u \in Nat /\ v = u + l /\ y = l + 1 /\ x.sequence = v + 1 /\ x.installed = u
      BY <1>2, <1>3, <1>9, <1>11
    <2> HIDE DEF l, u, v, y
    <2>2. x.sequence = x.installed + y
      BY <2>1
    <2> QED
      BY <2>2 DEF y
  <1>24. SpanIs(d, st, x.generation, x.spanStart) /\ x.failed = FALSE /\ x.lastSegment = StartOf(st, x.generation)
    BY <1>9 DEF Stored, HandleSays
  <1>25. x.lastTime = LastTimeOf(t[Len(t)])
    BY <1>9, <1>11
  <1> HIDE DEF t
  <1>26. HandleSays(d, x, st, t)
    BY <1>9, <1>11, <1>17, <1>18, <1>21, <1>22, <1>23, <1>24, <1>25 DEF HandleSays
  <1> QED
    BY <1>12, <1>13, <1>14, <1>26 DEF Stored, x, t, a

\* The cursor stays where it is.
LEMMA AppendAt ==
  ASSUME NEW d, NEW w, NEW m, NEW hd, NEW st, NEW sf, NEW sa, NEW wf, NEW wa,
         Stored(d, w, m, hd, st, sf, sa, wf, wa), NEW f \in FrameSet, NEW e,
         NEW cur, NEW k, NEW j, At(d, hd, st, sf, sa, wf, wa, cur, k, j)
  PROVE  At(d, AppendedHandle(hd, f), st, sf, sa, Append(wf, f), Longer(wa, Len(wf) + 1, e), cur, k, j)
  <1> DEFINE x == AppendedHandle(hd, f)
             t == Append(wf, f)
             a == Longer(wa, Len(wf) + 1, e)
  <1>1. hd \in HandleSet /\ wf \in Seq(FrameSet)
    BY StoredFacts
  <1>2. Len(wf) \in Nat
    BY <1>1
  <1>3. x.generation = hd.generation /\ x.installed = hd.installed
    BY <1>1, AppendedFields
  <1>4. Len(t) = Len(wf) + 1
    BY <1>1, AppendFacts
  <1>5. \A i \in 1..(Len(wf) + 1) : a[i] = wa[i]
    BY <1>2 DEF Longer
  <1> HIDE DEF x, t, a
  <1>6. CASE InLog(hd, wf, wa, cur, k, j)
    <2>1. j \in 1..(Len(wf) + 1) /\ j \in 1..(Len(t) + 1)
      BY <1>2, <1>4, <1>6 DEF InLog
    <2>2. InLog(x, t, a, cur, k, j)
      BY <1>3, <1>5, <1>6, <2>1 DEF InLog
    <2> QED
      BY <2>2 DEF At, x, t, a
  <1>7. CASE InSegment(hd, st, sf, sa, cur, k, j)
    <2>1. InSegment(x, st, sf, sa, cur, k, j)
      BY <1>3, <1>7 DEF InSegment
    <2> QED
      BY <2>1 DEF At, x, t, a
  <1>8. CASE Between(d, hd, st, cur, k, j)
    <2>1. Between(d, x, st, cur, k, j)
      BY <1>3, <1>8 DEF Between
    <2> QED
      BY <2>1 DEF At, x, t, a
  <1> QED
    BY <1>6, <1>7, <1>8 DEF At

------------------------------------------------------------------------------
(* The invariant of the specification. *)

\* The files and the handle fit, and the cursor stands in front of a batch or
\* after the last one.
Whole(d, w, m, hd, cur) ==
    \E st, sf, sa, wf, wa : /\ Stored(d, w, m, hd, st, sf, sa, wf, wa)
                            /\ \E k, j : At(d, hd, st, sf, sa, wf, wa, cur, k, j)

Inv == /\ Whole(db, wal, manifest, h, c)
       /\ live = LiveBatches(db, wal, h) /\ unread = Drain(db, wal, h, c)

\* An append preserves it.
LEMMA AppendWhole ==
  ASSUME Whole(db, wal, manifest, h, c), NEW records \in Inputs, AppendBatch(records)
  PROVE  Whole(db, wal, manifest, h, c)'
  <1>1. PICK st, sf, sa, wf, wa : /\ Stored(db, wal, manifest, h, st, sf, sa, wf, wa)
                                  /\ \E k, j : At(db, h, st, sf, sa, wf, wa, c, k, j)
    BY DEF Whole
  <1>2. PICK k, j : At(db, h, st, sf, sa, wf, wa, c, k, j)
    BY <1>1
  <1> DEFINE f == Frame(h.sequence + 1, records)
             wb == Append(wf, f)
             a == Longer(wa, Len(wf) + 1, h.end + FrameSize(f))
  <1>3. h.sequence \in 0..SeqMax /\ h.sequence # SeqMax
    BY <1>1, StoredFacts DEF AppendBatch
  <1>4. f \in FrameSet /\ f.seq = h.sequence + 1 /\ f.records = records
    BY <1>3, LimitAssumption DEF FrameSet, Frame
  <1>5. FrameOrdered(f) /\ (h.sequence # 0 => FirstTimeOf(f) >= h.lastTime)
    BY <1>4 DEF AppendBatch, InOrder, FrameOrdered, FirstTimeOf
  <1>6. FrameSize(f) <= WalCapacity - h.end
    BY DEF AppendBatch, Fits
  <1>7. /\ wal' = [o \in DOMAIN wal \cup {h.end} |-> IF o = h.end THEN f ELSE wal[o]]
        /\ h' = AppendedHandle(h, f) /\ db' = db /\ manifest' = manifest /\ c' = c
    BY DEF AppendBatch, AppendedHandle
  <1> HIDE DEF f
  <1>8. Stored(db, wal', manifest, AppendedHandle(h, f), st, sf, sa, wb, a)
    BY <1>1, <1>4, <1>5, <1>6, <1>7, AppendStored
  <1>9. At(db, AppendedHandle(h, f), st, sf, sa, wb, a, c, k, j)
    BY <1>1, <1>2, <1>4, AppendAt
  <1> HIDE DEF a, wb
  <1>10. Whole(db, wal', manifest, AppendedHandle(h, f), c)
    BY <1>8, <1>9 DEF Whole
  <1> QED
    BY <1>7, <1>10

\* An open finds the files as they are.
LEMMA ReopenWhole ==
  ASSUME Whole(db, wal, manifest, h, c), Reopen
  PROVE  Whole(db, wal, manifest, h, c)'
  <1>1. PICK st, sf, sa, wf, wa : Stored(db, wal, manifest, h, st, sf, sa, wf, wa)
    BY DEF Whole
  <1>2. /\ Segments(db, h.dataEnd, h.generation, h.installed, h.retention, h.installedTime, st, sf, sa)
        /\ Log(wal, h.end, h.installed, wf, wa) /\ ManifestOf(manifest, h)
        /\ h.lastSegment = StartOf(st, h.generation)
    BY <1>1 DEF Stored, HandleSays
  <1>3. /\ Segments(db, manifest.end, manifest.count, manifest.last, manifest.retain, h.installedTime, st, sf, sa)
        /\ Log(wal, h.end, manifest.last, wf, wa)
        /\ ManifestTimes(manifest, h.installedTime, StartOf(st, manifest.count))
    BY <1>2 DEF ManifestOf
  <1>4. Stored(db, wal, manifest, Opened(db, wal, manifest), st, sf, sa, wf, wa)
    BY <1>3, OpenedStored
  <1>5. At(db, Opened(db, wal, manifest), st, sf, sa, wf, wa, ResetCursor, 1, 1)
    BY <1>4, ResetAt
  <1>6. Whole(db, wal, manifest, Opened(db, wal, manifest), ResetCursor)
    BY <1>4, <1>5 DEF Whole
  <1>7. db' = db /\ wal' = wal /\ manifest' = manifest /\ h' = Opened(db, wal, manifest) /\ c' = ResetCursor
    BY DEF Reopen
  <1> QED
    BY <1>6, <1>7

\* A rewind moves the cursor to the first batch.
LEMMA RewindWhole ==
  ASSUME Whole(db, wal, manifest, h, c), Rewind
  PROVE  Whole(db, wal, manifest, h, c)'
  <1>1. PICK st, sf, sa, wf, wa : Stored(db, wal, manifest, h, st, sf, sa, wf, wa)
    BY DEF Whole
  <1>2. At(db, h, st, sf, sa, wf, wa, ResetCursor, 1, 1)
    BY <1>1, ResetAt
  <1>3. Whole(db, wal, manifest, h, ResetCursor)
    BY <1>1, <1>2 DEF Whole
  <1>4. db' = db /\ wal' = wal /\ manifest' = manifest /\ h' = h /\ c' = ResetCursor
    BY DEF Rewind
  <1> QED
    BY <1>3, <1>4

\* The batches of the files and the places of cursors among them.
Viewed(d, w, m, hd, lv, P) ==
    \E st, sf, sa, wf, wa, lo : /\ Stored(d, w, m, hd, st, sf, sa, wf, wa)
                                /\ Flat(hd.generation, sf, wf, lo, lv)
                                /\ P = Places(d, hd, st, sf, sa, wf, wa, lo)

\* There are such batches and places, and the cursor is at one of them.
LEMMA WholeViewed ==
  ASSUME NEW d, NEW w, NEW m, NEW hd, NEW cur, Whole(d, w, m, hd, cur)
  PROVE  \E lv, P, i : Viewed(d, w, m, hd, lv, P) /\ <<cur, i>> \in P
  <1>1. PICK st, sf, sa, wf, wa : /\ Stored(d, w, m, hd, st, sf, sa, wf, wa)
                                  /\ \E k, j : At(d, hd, st, sf, sa, wf, wa, cur, k, j)
    BY DEF Whole
  <1>2. PICK k, j : At(d, hd, st, sf, sa, wf, wa, cur, k, j)
    BY <1>1
  <1>3. hd.generation \in Nat /\ (\A x \in 1..hd.generation : sf[x] \in Seq(FrameSet)) /\ wf \in Seq(FrameSet)
    BY <1>1, StoredSegments
  <1>4. PICK lo, lv : Flat(hd.generation, sf, wf, lo, lv)
    BY <1>3, FlatExists
  <1>5. <<cur, lo[k] + j>> \in Places(d, hd, st, sf, sa, wf, wa, lo)
    BY <1>1, <1>2, <1>4, AtPlace
  <1>6. Viewed(d, w, m, hd, lv, Places(d, hd, st, sf, sa, wf, wa, lo))
    BY <1>1, <1>4 DEF Viewed
  <1> QED
    BY <1>5, <1>6

\* A cursor at one of the places is whole.
LEMMA ViewedWhole ==
  ASSUME NEW d, NEW w, NEW m, NEW hd, NEW lv, NEW P, Viewed(d, w, m, hd, lv, P), NEW cur, NEW i, <<cur, i>> \in P
  PROVE  Whole(d, w, m, hd, cur)
  <1>1. PICK st, sf, sa, wf, wa, lo : /\ Stored(d, w, m, hd, st, sf, sa, wf, wa)
                                      /\ Flat(hd.generation, sf, wf, lo, lv)
                                      /\ P = Places(d, hd, st, sf, sa, wf, wa, lo)
    BY DEF Viewed
  <1>2. \E k \in 1..(hd.generation + 1), j \in Nat : At(d, hd, st, sf, sa, wf, wa, cur, k, j)
    BY <1>1 DEF Places, Ahead
  <1> QED
    BY <1>1, <1>2 DEF Whole

\* What the places of a view are for.
LEMMA ViewedFacts ==
  ASSUME NEW d, NEW w, NEW m, NEW hd, NEW lv, NEW P, Viewed(d, w, m, hd, lv, P)
  PROVE  /\ Follows(d, w, hd, lv, P) /\ lv = LiveBatches(d, w, hd)
         /\ hd.failed = FALSE /\ hd.sequence \in 0..SeqMax /\ hd \in HandleSet
         /\ <<ResetCursor, 1>> \in P
         /\ lv \in Seq(FrameSet) /\ Len(lv) \in Nat /\ Len(lv) <= hd.sequence
  <1>1. PICK st, sf, sa, wf, wa, lo : /\ Stored(d, w, m, hd, st, sf, sa, wf, wa)
                                      /\ Flat(hd.generation, sf, wf, lo, lv)
                                      /\ P = Places(d, hd, st, sf, sa, wf, wa, lo)
    BY DEF Viewed
  <1>2. Follows(d, w, hd, lv, P)
    BY <1>1, PlacesFollow
  <1>3. lv = LiveBatches(d, w, hd)
    BY <1>1, FlatLive
  <1>4. hd.failed = FALSE /\ hd.sequence \in 0..SeqMax /\ hd \in HandleSet
    BY <1>1, StoredFacts
  <1>5. At(d, hd, st, sf, sa, wf, wa, ResetCursor, 1, 1)
    BY <1>1, ResetAt
  <1>6. <<ResetCursor, lo[1] + 1>> \in P
    BY <1>1, <1>5, AtPlace
  <1>7. lo[1] = 0
    BY <1>1 DEF Flat
  <1>8. <<ResetCursor, 1>> \in P
    BY <1>6, <1>7
  <1>9. lv \in Seq(FrameSet) /\ Len(lv) \in Nat /\ Len(lv) <= hd.sequence
    BY <1>2 DEF Follows
  <1> QED
    BY <1>2, <1>3, <1>4, <1>8, <1>9

\* The sequences of the batches of a view, and what its cursors expect.
LEMMA ViewedNumbers ==
  ASSUME NEW d, NEW w, NEW m, NEW hd, NEW lv, NEW P, Viewed(d, w, m, hd, lv, P)
  PROVE  /\ \A x, y \in 1..Len(lv) : x < y => lv[x].seq < lv[y].seq
         /\ \A x \in 1..Len(lv) : lv[x].seq <= hd.sequence
         /\ \A p \in P : Expects(lv, p[1], p[2])
  <1>1. PICK st, sf, sa, wf, wa, lo : /\ Stored(d, w, m, hd, st, sf, sa, wf, wa)
                                      /\ Flat(hd.generation, sf, wf, lo, lv)
                                      /\ P = Places(d, hd, st, sf, sa, wf, wa, lo)
    BY DEF Viewed
  <1>2. ASSUME NEW x \in 1..Len(lv), NEW y \in 1..Len(lv), x < y PROVE lv[x].seq < lv[y].seq
    BY <1>1, <1>2, FlatNumbers
  <1>3. ASSUME NEW x \in 1..Len(lv) PROVE lv[x].seq <= hd.sequence
    BY <1>1, FlatTop
  <1>4. ASSUME NEW p \in P PROVE Expects(lv, p[1], p[2])
    <2>1. PICK k \in 1..(hd.generation + 1), j \in Nat :
             p[2] = lo[k] + j /\ At(d, hd, st, sf, sa, wf, wa, p[1], k, j)
      BY <1>1 DEF Places, Ahead
    <2>2. Expects(lv, p[1], lo[k] + j)
      BY <1>1, <2>1, AtExpects
    <2> QED
      BY <2>1, <2>2
  <1> QED
    BY <1>2, <1>3, <1>4

\* A call of read_cursor that delivers a batch leaves the cursor whole.
LEMMA NextBatchWhole ==
  ASSUME Whole(db, wal, manifest, h, c), NextBatch
  PROVE  Whole(db, wal, manifest, h, c)'
  <1>1. PICK lv, P, i : Viewed(db, wal, manifest, h, lv, P) /\ <<c, i>> \in P
    BY WholeViewed
  <1>2. Follows(db, wal, h, lv, P)
    BY <1>1, ViewedFacts
  <1>3. Follow(db, wal, h, lv, P, c, i)
    BY <1>1, <1>2 DEF Follows
  <1>4. ReadCursor(db, wal, h, c).kind = "read" /\ c' = ReadCursor(db, wal, h, c).cur
        /\ db' = db /\ wal' = wal /\ manifest' = manifest /\ h' = h
    BY DEF NextBatch
  <1>5. i # Len(lv) + 1
    BY <1>3, <1>4, DoneFacts DEF Follow
  <1>6. <<c', i + 1>> \in P
    <2>1. PICK nx \in CursorType :
             /\ ReadCursor(db, wal, h, c) = [kind |-> "read", frame |-> lv[i], cur |-> nx]
             /\ <<nx, i + 1>> \in P
      BY <1>3, <1>5 DEF Follow
    <2>2. c' = nx
      BY <1>4, <2>1
    <2> QED
      BY <2>1, <2>2
  <1>7. Whole(db, wal, manifest, h, c')
    BY <1>1, <1>6, ViewedWhole
  <1> QED
    BY <1>4, <1>7

\* The answers at which next_range stops.
RangeStops(read, range) ==
    {j \in 2..Len(read) : \/ read[j].kind # "read"
                          \/ Matching(read[j].frame, range) # {}
                          \/ (read[j].frame.seq >= OrderedSequence /\ h.walOrdered
                              /\ FirstTimeOf(read[j].frame) >= range.until)}

\* A call of next_range that delivers a batch leaves the cursor whole.
LEMMA NextRangeWhole ==
  ASSUME Whole(db, wal, manifest, h, c), NEW range, NextRange(range)
  PROVE  Whole(db, wal, manifest, h, c)'
  <1>1. PICK lv, P, i : Viewed(db, wal, manifest, h, lv, P) /\ <<c, i>> \in P
    BY WholeViewed
  <1>2. Follows(db, wal, h, lv, P)
    BY <1>1, ViewedFacts
  <1> DEFINE s == Reads(db, wal, h, c)
             T == RangeStops(s, range)
             k == Min(T)
             z == (Len(lv) - i) + 1
  <1>3. ReadToEnd(s, lv, P, c, i)
    BY <1>1, <1>2, ReadsFound
  <1>4. lv \in Seq(FrameSet) /\ Len(lv) \in Nat /\ i \in 1..(Len(lv) + 1)
    BY <1>1, <1>2 DEF Follows
  <1>5. z \in Nat
    BY <1>4
  <1>6. NextRangeFrom(c, range) = IF range.from = range.until THEN Done
                                  ELSE IF s[k].kind = "read" /\ Matching(s[k].frame, range) = {} THEN Done
                                  ELSE s[k]
    BY DEF NextRangeFrom, RangeStops
  <1>7. NextRangeFrom(c, range).kind = "read" /\ c' = NextRangeFrom(c, range).cur
        /\ db' = db /\ wal' = wal /\ manifest' = manifest /\ h' = h
    BY DEF NextRange
  <1> HIDE DEF s, k
  <1>8. c' = s[k].cur /\ s[k].kind = "read"
    BY <1>6, <1>7, DoneFacts
  <1>9. Len(s) = z + 2 /\ s[z + 2] = Done
    BY <1>3 DEF ReadToEnd
  <1>10. k \in T
    <2>1. z + 2 \in T
      BY <1>5, <1>9, DoneFacts DEF RangeStops
    <2>2. T \subseteq Nat
      BY DEF RangeStops
    <2> HIDE DEF T
    <2> QED
      BY <2>1, <2>2, MinExists DEF k
  <1>11. k \in 1..(z + 1)
    <2>1. k \in 2..(z + 2)
      BY <1>9, <1>10 DEF RangeStops
    <2>2. k # z + 2
      BY <1>8, <1>9, DoneFacts
    <2> QED
      BY <1>5, <2>1, <2>2
  <1>12. <<s[k].cur, (i + k) - 1>> \in P
    BY <1>3, <1>11 DEF ReadToEnd
  <1>13. Whole(db, wal, manifest, h, c')
    BY <1>1, <1>8, <1>12, ViewedWhole
  <1> QED
    BY <1>7, <1>13

\* The batches from place a to place b whose last record is not older than from,
\* and a search that finds the first of them.
HitsIn(lv, a, b, from) == {x \in a..b : LastTimeOf(lv[x]) >= from}
Found(r, hits, P) ==
    IF hits = {} THEN r = Done
    ELSE \E nx : r = [kind |-> "found", cur |-> nx] /\ <<nx, Min(hits)>> \in P

\* seek_frames from the place of a cursor up to place e finds the first batch of
\* them whose last record is not older than from.
LEMMA SeekFramesFound ==
  ASSUME NEW lv, NEW P, Viewed(db, wal, manifest, h, lv, P), NEW cur, NEW i, <<cur, i>> \in P,
         NEW from, NEW limit \in Nat, NEW e \in (i - 1)..Len(lv),
         \A x \in i..e : lv[x].seq <= limit,
         e < Len(lv) => e >= i /\ lv[e].seq >= limit
  PROVE  Found(SeekFrames(cur, from, limit), HitsIn(lv, i, e, from), P)
  <1> DEFINE s == Reads(db, wal, h, cur)
             T == {j \in 2..Len(s) : \/ s[j].kind # "read"
                                     \/ s[j - 1].cur.readSequence > limit
                                     \/ LastTimeOf(s[j].frame) >= from}
             k == Min(T)
             z == (Len(lv) - i) + 1
             E == (e - i) + 3
             hits == HitsIn(lv, i, e, from)
  <1>0. hits = {x \in i..e : LastTimeOf(lv[x]) >= from}
    BY DEF HitsIn
  <1> HIDE DEF hits
  <1>1. Follows(db, wal, h, lv, P)
    BY ViewedFacts
  <1>2. lv \in Seq(FrameSet) /\ Len(lv) \in Nat /\ i \in 1..(Len(lv) + 1)
    BY <1>1 DEF Follows
  <1>3. ReadToEnd(s, lv, P, cur, i)
    BY <1>1, ReadsFound
  <1>4. z \in Nat /\ E \in 2..(z + 2) /\ e \in Int
    BY <1>2
  <1>5. SeekFrames(cur, from, limit) = IF s[k - 1].cur.readSequence > limit THEN Done
                                       ELSE IF s[k].kind # "read" THEN s[k]
                                       ELSE [kind |-> "found", cur |-> s[k - 1].cur]
    BY DEF SeekFrames
  <1> HIDE DEF s, k
  <1>6. Len(s) = z + 2 /\ s[z + 2] = Done
    BY <1>3 DEF ReadToEnd
  <1>7. ASSUME NEW x \in i..e
        PROVE  LET j == (x - i) + 2
               IN  /\ j \in 2..Len(s) /\ j < E /\ s[j].kind = "read" /\ s[j].frame = lv[x]
                   /\ <<s[j - 1].cur, x>> \in P
                   /\ s[j - 1].cur.readSequence <= limit
    <2> DEFINE j == (x - i) + 2
    <2>1. j \in 2..(z + 1) /\ j \in 1..(z + 1) /\ j - 1 \in 1..(z + 1) /\ (i + j) - 2 = x /\ (i + (j - 1)) - 1 = x /\ j < E
          /\ x \in 1..Len(lv) /\ x \in x..Len(lv) /\ j \in 2..(z + 2)
      <3> DEFINE N == Len(lv)
      <3>1. N \in Nat /\ i \in 1..(N + 1) /\ e \in (i - 1)..N /\ x \in i..e /\ z = (N - i) + 1
        BY <1>2
      <3> HIDE DEF N, z
      <3>2. i \in Int /\ e \in Int /\ x \in Int /\ i >= 1 /\ i <= N + 1 /\ e <= N /\ x >= i /\ x <= e /\ z \in Int
        BY <3>1
      <3>3. j \in 2..(z + 1) /\ j \in 1..(z + 1) /\ j - 1 \in 1..(z + 1) /\ j \in 2..(z + 2)
        BY <3>1, <3>2
      <3>4. (i + j) - 2 = x /\ (i + (j - 1)) - 1 = x /\ j < E /\ x \in 1..N /\ x \in x..N
        BY <3>1, <3>2
      <3> QED
        BY <3>3, <3>4 DEF N
    <2>2. s[j].kind = "read" /\ s[j].frame = lv[x] /\ <<s[j - 1].cur, x>> \in P
      BY <1>3, <2>1 DEF ReadToEnd
    <2>3. Expects(lv, s[j - 1].cur, x)
      BY <2>2, ViewedNumbers
    <2>4. lv[x].seq >= s[j - 1].cur.readSequence
      BY <2>1, <2>3 DEF Expects
    <2>5. lv[x].seq \in Nat
      <3>1. lv[x] \in FrameSet
        BY <1>2, <2>1
      <3> QED
        BY <3>1, FrameFacts
    <2>6. s[j - 1].cur \in CursorType
      BY <1>1, <2>2 DEF Follows
    <2>7. s[j - 1].cur.readSequence \in Nat
      BY <2>6 DEF CursorType
    <2>8. lv[x].seq <= limit
      OBVIOUS
    <2> HIDE DEF j
    <2>9. s[j - 1].cur.readSequence <= limit
      BY <2>4, <2>5, <2>7, <2>8
    <2> QED
      BY <1>6, <2>1, <2>2, <2>9 DEF j
  <1>8. E \in T /\ (s[E - 1].cur.readSequence > limit \/ s[E] = Done)
    <2>1. CASE e = Len(lv)
      <3>1. E = z + 2
        BY <1>2, <2>1
      <3>2. z + 2 \in 2..Len(s)
        BY <1>4, <1>6
      <3> QED
        BY <1>6, <3>1, <3>2, DoneFacts
    <2>2. CASE e # Len(lv)
      <3>1. e < Len(lv) /\ e >= i
        BY <1>2, <1>4, <2>2
      <3>2. E - 1 \in 2..(z + 1) /\ (i + (E - 1)) - 2 = e /\ e \in 1..Len(lv) /\ e + 1 \in 1..Len(lv) /\ e < e + 1
        BY <1>2, <1>4, <3>1
      <3>3. s[E - 1].cur.readSequence = Wrap(lv[e].seq + 1)
        BY <1>3, <3>2 DEF ReadToEnd
      <3>4. lv[e].seq < lv[e + 1].seq
        BY <3>2, ViewedNumbers
      <3>5. lv[e].seq \in 1..SeqMax /\ lv[e + 1].seq \in 1..SeqMax
        <4>1. lv[e] \in FrameSet /\ lv[e + 1] \in FrameSet
          BY <1>2, <3>2
        <4> QED
          BY <4>1, FrameFacts
      <3>6. lv[e].seq >= limit
        BY <3>1
      <3> DEFINE a == lv[e].seq
                 b == lv[e + 1].seq
      <3> HIDE DEF a, b, E
      <3>7. a \in 1..SeqMax /\ b \in 1..SeqMax /\ a < b /\ a >= limit /\ s[E - 1].cur.readSequence = Wrap(a + 1)
        BY <3>3, <3>4, <3>5, <3>6 DEF a, b
      <3>8. a + 1 <= SeqMax /\ a + 1 \in Nat
        BY <3>7, LimitAssumption
      <3>9. Wrap(a + 1) = a + 1
        BY <3>8, WrapFacts
      <3>10. s[E - 1].cur.readSequence > limit
        BY <3>7, <3>8, <3>9
      <3> QED
        BY <1>4, <1>6, <3>10
    <2> QED
      BY <2>1, <2>2
  <1>9. k \in T /\ \A y \in T : k <= y
    <2>1. T \subseteq Nat
      OBVIOUS
    <2> HIDE DEF T
    <2> QED
      BY <1>8, <2>1, MinExists DEF k
  <1>10. k \in 2..E
    <2>1. k \in 2..Len(s) /\ k <= E
      BY <1>8, <1>9
    <2> QED
      BY <1>4, <1>6, <2>1
  <1>11. ASSUME NEW x \in i..e PROVE LastTimeOf(lv[x]) >= from <=> (x - i) + 2 \in T
    <2> DEFINE j == (x - i) + 2
    <2>1. /\ j \in 2..Len(s) /\ s[j].kind = "read" /\ s[j].frame = lv[x]
          /\ s[j - 1].cur.readSequence <= limit
      BY <1>7
    <2>2. <<s[j - 1].cur, x>> \in P
      BY <1>7
    <2>3. s[j - 1].cur.readSequence \in Nat
      <3> HIDE DEF j
      <3>1. s[j - 1].cur \in CursorType
        BY <1>1, <2>2 DEF Follows
      <3> QED
        BY <3>1 DEF CursorType
    <2>4. ~(s[j - 1].cur.readSequence > limit)
      BY <2>1, <2>3
    <2> HIDE DEF j
    <2>5. LastTimeOf(lv[x]) >= from <=> j \in T
      BY <2>1, <2>4
    <2> QED
      BY <2>5 DEF j
  <1>12. CASE k = E
    <2>1. hits = {}
      <3>1. SUFFICES ASSUME NEW x \in i..e, LastTimeOf(lv[x]) >= from PROVE FALSE
        BY <1>0
      <3>2. (x - i) + 2 \in T /\ (x - i) + 2 < E
        BY <1>7, <1>11, <3>1
      <3>3. E <= (x - i) + 2
        BY <1>9, <1>12, <3>2
      <3> QED
        BY <1>2, <1>4, <3>2, <3>3
    <2>2. SeekFrames(cur, from, limit) = Done
      BY <1>5, <1>8, <1>12, DoneFacts
    <2> QED
      BY <2>1, <2>2 DEF Found, hits
  <1>13. CASE k # E
    <2> DEFINE x == (k + i) - 2
    <2>1. x \in i..e /\ (x - i) + 2 = k
      <3>1. i \in Int /\ e \in Int /\ k \in Int /\ k >= 2 /\ k < E
        BY <1>2, <1>4, <1>10, <1>13
      <3> QED
        BY <3>1
    <2>2. LastTimeOf(lv[x]) >= from
      BY <1>9, <1>11, <2>1
    <2>3. s[k].kind = "read" /\ <<s[k - 1].cur, x>> \in P /\ s[k - 1].cur.readSequence <= limit
      BY <1>7, <2>1
    <2>4. s[k - 1].cur.readSequence \in Nat
      BY <1>1, <2>3 DEF Follows, CursorType
    <2> HIDE DEF x
    <2>5. SeekFrames(cur, from, limit) = [kind |-> "found", cur |-> s[k - 1].cur]
      BY <1>5, <2>3, <2>4
    <2>6. \A y \in hits : x <= y
      <3>1. SUFFICES ASSUME NEW y \in i..e, LastTimeOf(lv[y]) >= from PROVE x <= y
        BY <1>0
      <3>2. (y - i) + 2 \in T
        BY <1>11, <3>1
      <3>3. k <= (y - i) + 2
        BY <1>9, <3>2
      <3> QED
        BY <1>2, <1>4, <2>1, <3>3
    <2>7. x \in hits /\ hits \subseteq Int
      BY <1>0, <2>1, <2>2
    <2>8. Min(hits) = x /\ hits # {}
      BY <2>6, <2>7, MinIs
    <2> QED
      BY <2>3, <2>5, <2>8 DEF Found, hits
  <1> QED
    BY <1>12, <1>13

\* The cursor at the start of a segment, and at the start of the log.
LEMMA PositionAt ==
  ASSUME NEW st, NEW sf, NEW sa, NEW wf, NEW wa, Stored(db, wal, manifest, h, st, sf, sa, wf, wa),
         NEW k \in 1..h.generation
  PROVE  At(db, h, st, sf, sa, wf, wa, PositionSegment(st[k]), k, 1)
  <1> DEFINE o == st[k]
             cur == PositionSegment(o)
  <1>1. o \in Nat /\ SegmentWhole(db, o, sf[k], sa[k])
    BY StoredSegments
  <1>2. db[o].first \in 1..SeqMax /\ db[o].size \in {1, 2} /\ After(o, db[o]) \in Nat /\ Len(sf[k]) \in Nat /\ Len(sf[k]) >= 1
    BY <1>1, WholeFacts
  <1>3. IsFrames(db, o + db[o].size, After(o, db[o]), db[o].first, sf[k], sa[k])
    BY <1>1 DEF SegmentWhole
  <1>4. sa[k][1] = o + db[o].size /\ 1 \in 1..Len(sf[k]) /\ sf[k][1].seq = db[o].first + (1 - 1)
    BY <1>2, <1>3 DEF IsFrames
  <1>5. st[k + 1] = After(o, db[o])
    <2>1. Layout(db, DataStart, h.dataEnd, h.generation, st, sf, sa)
      BY StoredFacts
    <2> QED
      BY <2>1 DEF Layout
  <1>6. cur \in CursorType
    BY <1>1, <1>2 DEF PositionSegment, CursorType
  <1>7. InSegment(h, st, sf, sa, cur, k, 1)
    <2>1. sf[k][1].seq = db[o].first
      BY <1>2, <1>4
    <2> QED
      BY <1>4, <1>5, <2>1 DEF InSegment, PositionSegment
  <1> QED
    BY <1>6, <1>7 DEF At

LogStart(hd) == [ResetCursor EXCEPT !.inWal = TRUE, !.cursor = WalStart, !.readSequence = Wrap(hd.installed + 1)]

\* The start of the log is a place of the cursor.
LEMMA LogStartAt ==
  ASSUME NEW d, NEW w, NEW m, NEW hd, NEW st, NEW sf, NEW sa, NEW wf, NEW wa,
         Stored(d, w, m, hd, st, sf, sa, wf, wa)
  PROVE  At(d, hd, st, sf, sa, wf, wa, LogStart(hd), hd.generation + 1, 1)
  <1> DEFINE cur == LogStart(hd)
  <1>1. IsFrames(w, WalStart, hd.end, hd.installed + 1, wf, wa)
    BY StoredFacts
  <1>2. hd.installed \in 0..SeqMax /\ Len(wf) \in Nat
    BY StoredFacts
  <1>3. wa[1] = WalStart
    BY <1>1 DEF IsFrames
  <1>4. Wrap(hd.installed + 1) \in 0..SeqMax
    <2>1. hd.installed + 1 \in Nat
      BY <1>2
    <2> QED
      BY <2>1, WrapFacts
  <1>5. cur.cursor = WalStart /\ cur.inWal = TRUE /\ cur.readSequence = Wrap(hd.installed + 1)
    BY DEF LogStart, ResetCursor
  <1>6. cur \in CursorType
    <2>1. ResetCursor \in CursorType
      BY LimitAssumption DEF ResetCursor, CursorType, DataStart
    <2> DEFINE q == Wrap(hd.installed + 1)
    <2>2. cur = [ResetCursor EXCEPT !.inWal = TRUE, !.cursor = WalStart, !.readSequence = q] /\ q \in 0..SeqMax
      BY <1>4 DEF LogStart
    <2> HIDE DEF cur, q
    <2> QED
      BY <2>1, <2>2 DEF CursorType, WalStart
  <1>7. 1 \in 1..(Len(wf) + 1)
    BY <1>2
  <1>8. InLog(hd, wf, wa, cur, hd.generation + 1, 1)
    BY <1>3, <1>5, <1>7 DEF InLog
  <1> QED
    BY <1>6, <1>8 DEF At

\* Batch x of all batches is one of segment k.
InFlat(sf, lo, lv, x, k) ==
    /\ x \in (lo[k] + 1)..lo[k + 1]
    /\ x - lo[k] \in 1..Len(sf[k]) /\ lv[x] = sf[k][x - lo[k]]

\* A batch among those of the first segments belongs to one of them.
LEMMA FlatSegment ==
  ASSUME NEW n \in Nat, NEW sf, \A k \in 1..n : sf[k] \in Seq(FrameSet), NEW wf, Len(wf) \in Nat, NEW lo, NEW lv,
         Flat(n, sf, wf, lo, lv), NEW X \in 1..(n + 1), NEW x \in 1..lo[X]
  PROVE  \E k \in 1..(X - 1) : InFlat(sf, lo, lv, x, k)
  <1>1. /\ lo \in [1..(n + 1) -> Nat]
        /\ \A k \in 1..n : lo[k + 1] = lo[k] + Len(sf[k])
        /\ \A k \in 1..n : \A j \in 1..Len(sf[k]) : lv[lo[k] + j] = sf[k][j]
    BY DEF Flat
  <1>2. lo[X] \in Nat /\ Len(lv) \in Nat /\ lo[X] <= Len(lv)
    BY FlatGrows
  <1>3. x \in 1..(Len(lv) + 1)
    BY <1>2
  <1>4. PICK k \in 1..(n + 1), j \in Nat : PlaceOf(n, sf, wf, lo, x, k, j)
    <2>1. \E k \in 1..(n + 1), j \in Nat : PlaceOf(n, sf, wf, lo, x, k, j)
      BY <1>3, FlatPlace
    <2> QED
      BY <2>1
  <1>5. x = lo[k] + j /\ j >= 1 /\ lo[k] \in Nat
    BY <1>1, <1>4 DEF PlaceOf
  <1>6. k < X
    <2>1. SUFFICES ASSUME ~(k < X) PROVE FALSE
      OBVIOUS
    <2>2. X \in 1..k
      BY <2>1
    <2>3. \A i \in 1..k : lo[i] <= lo[k]
      BY FlatGrows
    <2>4. lo[X] <= lo[k]
      BY <2>2, <2>3
    <2> QED
      BY <1>2, <1>5, <2>4
  <1>7. k \in 1..n /\ j \in 1..Len(sf[k]) /\ k \in 1..(X - 1)
    BY <1>4, <1>6 DEF PlaceOf
  <1>8. lo[k + 1] = lo[k] + Len(sf[k]) /\ lv[x] = sf[k][j] /\ Len(sf[k]) \in Nat
    <2>1. lo[k + 1] = lo[k] + Len(sf[k])
      BY <1>1, <1>7
    <2>2. lv[x] = sf[k][j]
      BY <1>1, <1>5, <1>7
    <2>3. sf[k] \in Seq(FrameSet)
      BY <1>7
    <2> QED
      BY <2>1, <2>2, <2>3
  <1> DEFINE a == lo[k]
             b == lo[k + 1]
             l == Len(sf[k])
  <1>9. a \in Nat /\ l \in Nat /\ b = a + l /\ x = a + j /\ j \in 1..l
    BY <1>5, <1>7, <1>8
  <1> HIDE DEF a, b, l
  <1>10. x \in (a + 1)..b /\ x - a = j
    BY <1>9
  <1> QED
    BY <1>7, <1>8, <1>10 DEF a, b, InFlat

\* The search of one segment.
LEMMA SeekSegment ==
  ASSUME NEW st, NEW sf, NEW sa, NEW wf, NEW wa, Stored(db, wal, manifest, h, st, sf, sa, wf, wa),
         NEW lo, NEW lv, Flat(h.generation, sf, wf, lo, lv), NEW k \in 1..h.generation, NEW from
  PROVE  Found(SeekFrames(PositionSegment(st[k]), from, db[st[k]].last),
               HitsIn(lv, lo[k] + 1, lo[k + 1], from), Places(db, h, st, sf, sa, wf, wa, lo))
  <1> DEFINE n == h.generation
             P == Places(db, h, st, sf, sa, wf, wa, lo)
             cur == PositionSegment(st[k])
             i == lo[k] + 1
             e == lo[k + 1]
             limit == db[st[k]].last
             l == Len(sf[k])
  <1>1. /\ n \in Nat /\ \A q \in 1..n : sf[q] \in Seq(FrameSet)
        /\ wf \in Seq(FrameSet) /\ Len(wf) \in Nat
    BY StoredSegments
  <1>2. k + 1 \in 1..(n + 1) /\ k \in 1..(n + 1) /\ (k + 1) - 1 = k /\ k # 0
    BY <1>1
  <1>3. /\ lo \in [1..(n + 1) -> Nat] /\ lo[k + 1] = lo[k] + l
        /\ \A j \in 1..l : lv[lo[k] + j] = sf[k][j]
    BY DEF Flat
  <1>4. e \in Nat /\ e <= Len(lv) /\ Len(lv) \in Nat
    BY <1>1, <1>2, FlatGrows
  <1>5. At(db, h, st, sf, sa, wf, wa, cur, k, 1)
    BY PositionAt
  <1>6. <<cur, i>> \in P
    BY <1>5, AtPlace
  <1>7. Viewed(db, wal, manifest, h, lv, P)
    BY DEF Viewed
  <1>8. SegmentNumbers(db[st[k]], sf[k])
    BY StoredNumbers
  <1>9. l \in Nat /\ l >= 1 /\ limit \in Nat
    BY <1>8 DEF SegmentNumbers
  <1>10. lo[k] \in Nat
    BY <1>2, <1>3
  <1>11. e \in (i - 1)..Len(lv) /\ e >= i
    <2> DEFINE a == lo[k]
    <2> HIDE DEF a, e, l
    <2>1. e = a + l /\ a \in Nat
      BY <1>3, <1>10 DEF a, e
    <2>2. e >= a + 1 /\ e \in ((a + 1) - 1)..Len(lv)
      BY <1>4, <1>9, <2>1
    <2> QED
      BY <2>2 DEF a
  <1>12. \A x \in i..e : lv[x].seq <= limit
    <2>1. SUFFICES ASSUME NEW x \in i..e PROVE lv[x].seq <= limit
      OBVIOUS
    <2>2. x \in 1..lo[k + 1]
      BY <1>4, <1>10
    <2>3. lv[x].seq <= LastOf(db, st, (k + 1) - 1)
      BY <1>2, <2>2, FlatBelow
    <2> QED
      BY <1>2, <2>3 DEF LastOf
  <1>13. lv[e].seq >= limit
    <2>1. l \in 1..l
      BY <1>9
    <2>2. lv[e] = sf[k][l]
      BY <1>3, <2>1
    <2>3. sf[k][l].seq = db[st[k]].first + (l - 1) /\ limit - db[st[k]].first = l - 1 /\ db[st[k]].first \in 1..SeqMax
      BY <1>8, <2>1 DEF SegmentNumbers
    <2> DEFINE f == db[st[k]].first
    <2>4. lv[e].seq = f + (l - 1) /\ limit - f = l - 1 /\ f \in 1..SeqMax
      BY <2>2, <2>3
    <2> HIDE DEF f, limit, l, e
    <2> QED
      BY <1>9, <2>4
  <1> HIDE DEF cur, i, e, limit, P
  <1> QED
    BY <1>6, <1>7, <1>9, <1>11, <1>12, <1>13, SeekFramesFound DEF cur, i, e, limit, P

\* The linear part of a seek finds the first batch of the prefix that is not too old.
LEMMA SeekPrefixFound ==
  ASSUME NEW st, NEW sf, NEW sa, NEW wf, NEW wa, Stored(db, wal, manifest, h, st, sf, sa, wf, wa),
         NEW lo, NEW lv, Flat(h.generation, sf, wf, lo, lv), NEW from
  PROVE  Found(SeekPrefix(from), HitsIn(lv, 1, lo[h.spanStart], from), Places(db, h, st, sf, sa, wf, wa, lo))
  <1> DEFINE n == h.generation
             X == h.spanStart
             P == Places(db, h, st, sf, sa, wf, wa, lo)
             Hit(k) == HitsIn(lv, lo[k] + 1, lo[k + 1], from)
             All == HitsIn(lv, 1, lo[X], from)
             S(k) == SeekFrames(PositionSegment(st[k]), from, db[st[k]].last)
             inside == [k \in 1..(X - 1) |-> S(k)]
             stops == {k \in 1..(X - 1) : S(k) # Done}
  <1>1. /\ n \in Nat /\ \A q \in 1..n : sf[q] \in Seq(FrameSet)
        /\ wf \in Seq(FrameSet) /\ Len(wf) \in Nat
    BY StoredSegments
  <1>2. /\ Layout(db, DataStart, h.dataEnd, n, st, sf, sa) /\ Linked(db, n, st) /\ n < Power[24]
        /\ SpanIs(db, st, n, X) /\ h.dataEnd \in Nat
    BY StoredFacts
  <1>3. X \in 1..(n + 1)
    BY <1>2 DEF SpanIs
  <1>4. ASSUME NEW k \in 1..(X - 1) PROVE k \in 1..n /\ k \in 1..(n + 1) /\ k + 1 \in 1..(n + 1) /\ k + 1 \in 1..X
    BY <1>1, <1>3
  <1>5. SegmentStarts(db, DataStart, n) = st
    <2>1. n \in 0..n
      BY <1>1
    <2> QED
      BY <1>2, <2>1, StartsFound
  <1>6. \A k \in 1..(X - 1) : ReadSegment(db, st[k], h.dataEnd) # Bad
    <2>1. SUFFICES ASSUME NEW k \in 1..(X - 1) PROVE ReadSegment(db, st[k], h.dataEnd) # Bad
      OBVIOUS
    <2>2. k \in 1..n /\ DataStart <= DataStart /\ h.dataEnd <= h.dataEnd /\ h.dataEnd \in Int
      BY <1>2, <1>4 DEF DataStart
    <2>3. ReadSegment(db, st[k], h.dataEnd) = db[st[k]] /\ db[st[k]] # Bad
      BY <1>2, <2>2, SegmentRead
    <2> QED
      BY <2>3
  <1>7. SeekPrefix(from) = IF stops = {} THEN Done ELSE S(Min(stops))
    <2> DEFINE in == [k \in 1..(X - 1) |-> IF ReadSegment(db, st[k], h.dataEnd) = Bad THEN Bad ELSE S(k)]
               sp == {k \in DOMAIN in : in[k] # Done}
    <2>1. SeekPrefix(from) = IF sp = {} THEN Done ELSE in[Min(sp)]
      BY <1>5 DEF SeekPrefix, FirstAnswer
    <2>2. \A k \in 1..(X - 1) : in[k] = S(k)
      BY <1>6
    <2> HIDE DEF S
    <2>3. sp = stops
      BY <2>2
    <2>4. stops # {} => Min(stops) \in 1..(X - 1)
      <3>1. SUFFICES ASSUME stops # {} PROVE Min(stops) \in 1..(X - 1)
        OBVIOUS
      <3>2. stops \subseteq Nat
        BY <1>3
      <3>3. Min(stops) \in stops
        <4> HIDE DEF stops
        <4> QED
          BY <3>1, <3>2, MinExists
      <3> QED
        BY <3>3
    <2> HIDE DEF in, stops
    <2> QED
      BY <2>1, <2>2, <2>3, <2>4
  <1>8. ASSUME NEW k \in 1..(X - 1) PROVE Found(S(k), Hit(k), P)
    BY <1>4, SeekSegment
  <1>9. ASSUME NEW k \in 1..(X - 1) PROVE S(k) = Done <=> Hit(k) = {}
    <2> HIDE DEF S, Hit
    <2> QED
      BY <1>8, DoneFacts DEF Found
  <1>10. ASSUME NEW k \in 1..(n + 1) PROVE lo[k] \in Nat
    BY DEF Flat
  <1>11. ASSUME NEW x \in All PROVE \E k \in 1..(X - 1) : x \in Hit(k)
    <2>1. x \in 1..lo[X] /\ LastTimeOf(lv[x]) >= from
      BY DEF HitsIn
    <2>2. \E k \in 1..(X - 1) : InFlat(sf, lo, lv, x, k)
      BY <1>1, <1>3, <2>1, FlatSegment
    <2>3. PICK k \in 1..(X - 1) : x \in (lo[k] + 1)..lo[k + 1]
      BY <2>2 DEF InFlat
    <2> QED
      BY <2>1, <2>3 DEF HitsIn
  <1>12. ASSUME NEW k \in 1..(X - 1), NEW x \in Hit(k) PROVE x \in All /\ x \in Nat /\ x > lo[k] /\ x <= lo[k + 1]
    <2>1. x \in (lo[k] + 1)..lo[k + 1] /\ LastTimeOf(lv[x]) >= from
      BY <1>12 DEF HitsIn
    <2>2. lo[k] \in Nat /\ lo[k + 1] \in Nat /\ lo[X] \in Nat
      BY <1>3, <1>4, <1>10
    <2>3. \A i \in 1..X : lo[i] <= lo[X]
      BY <1>1, <1>3, FlatGrows
    <2>4. lo[k + 1] <= lo[X]
      BY <1>4, <2>3
    <2>5. x \in 1..lo[X]
      BY <2>1, <2>2, <2>4
    <2> QED
      BY <2>1, <2>2, <2>5 DEF HitsIn
  <1>13. CASE stops = {}
    <2>1. All = {}
      BY <1>9, <1>11, <1>13
    <2>2. SeekPrefix(from) = Done
      BY <1>7, <1>13
    <2> QED
      BY <2>1, <2>2 DEF Found
  <1>14. CASE stops # {}
    <2> DEFINE q == Min(stops)
    <2>1. q \in stops /\ \A y \in stops : q <= y
      <3>1. stops \subseteq Nat
        BY <1>3
      <3> HIDE DEF stops
      <3> QED
        BY <1>14, <3>1, MinExists
    <2> HIDE DEF q, S, Hit, All, P
    <2>2. q \in 1..(X - 1) /\ S(q) # Done
      BY <2>1
    <2>3. Hit(q) # {}
      BY <1>9, <2>2
    <2>4. PICK nx : S(q) = [kind |-> "found", cur |-> nx] /\ <<nx, Min(Hit(q))>> \in P
      BY <1>8, <2>2, <2>3 DEF Found
    <2> DEFINE v == Min(Hit(q))
    <2>5. v \in Hit(q) /\ \A y \in Hit(q) : v <= y
      <3>1. Hit(q) \subseteq Nat
        BY <1>12, <2>2
      <3> QED
        BY <2>3, <3>1, MinExists
    <2> HIDE DEF v
    <2>6. v \in All /\ v \in Nat /\ v <= lo[q + 1]
      BY <1>12, <2>2, <2>5
    <2>7. ASSUME NEW y \in All PROVE v <= y
      <3>1. PICK k \in 1..(X - 1) : y \in Hit(k)
        BY <1>11
      <3>2. y \in Nat /\ y > lo[k]
        BY <1>12, <3>1
      <3>3. k \in stops
        BY <1>9, <3>1
      <3>4. q <= k
        BY <2>1, <3>3
      <3>5. CASE q = k
        BY <2>5, <3>1, <3>5
      <3>6. CASE q # k
        <4>1. q + 1 \in 1..k /\ k \in 1..(n + 1)
          BY <1>4, <2>2, <3>4, <3>6
        <4>2. \A i \in 1..k : lo[i] <= lo[k]
          BY <1>1, <4>1, FlatGrows
        <4>3. lo[q + 1] <= lo[k]
          BY <4>1, <4>2
        <4>4. lo[q + 1] \in Nat /\ lo[k] \in Nat
          BY <1>4, <1>10, <2>2
        <4> QED
          BY <2>6, <3>2, <4>3, <4>4
      <3> QED
        BY <3>5, <3>6
    <2>8. All \subseteq Int
      BY DEF All, HitsIn
    <2>9. Min(All) = v /\ All # {}
      BY <2>6, <2>7, <2>8, MinIs
    <2>10. SeekPrefix(from) = S(q)
      BY <1>7, <1>14 DEF q
    <2> QED
      BY <2>4, <2>9, <2>10 DEF Found, v, All, P
  <1> QED
    BY <1>13, <1>14

\* The greatest times of the segments of the ordered suffix grow.
LEMMA SpanGrows ==
  ASSUME NEW d, NEW root, NEW end, NEW n, NEW st, NEW sf, NEW sa, Layout(d, root, end, n, st, sf, sa),
         NEW x, SpanIs(d, st, n, x), NEW a \in x..n, NEW b \in a..n
  PROVE  d[st[a]].maximum <= d[st[b]].maximum
  <1> DEFINE M(k) == d[st[k]].maximum
             m(k) == d[st[k]].minimum
             U == {u \in Nat : a + u <= n => M(a) <= M(a + u)}
  <1>1. n \in Nat /\ x \in 1..(n + 1)
    BY DEF Layout, SpanIs
  <1>2. ASSUME NEW k \in 1..n PROVE m(k) \in Nat /\ M(k) \in Nat /\ m(k) <= M(k)
    <2>1. SegmentWhole(d, st[k], sf[k], sa[k]) /\ st[k] \in Nat
      BY DEF Layout
    <2>2. m(k) \in Times /\ M(k) \in Times /\ m(k) <= M(k)
      BY <2>1, WholeFacts
    <2> QED
      BY <2>2 DEF Times
  <1>3. \A k \in (x + 1)..n : m(k) >= M(k - 1)
    BY DEF SpanIs
  <1>4. a \in 1..n /\ b - a \in Nat /\ a + (b - a) = b /\ b <= n /\ b \in Int
    BY <1>1
  <1>5. 0 \in U
    <2>1. a + 0 = a /\ M(a) \in Nat
      BY <1>2, <1>4
    <2> QED
      BY <2>1
  <1>6. ASSUME NEW u \in 0..((b - a) - 1), u \in U PROVE u + 1 \in U
    <2>1. u \in Nat /\ a + u \in 1..n /\ a + u <= n /\ a + (u + 1) \in (x + 1)..n /\ a + (u + 1) \in 1..n /\ (a + (u + 1)) - 1 = a + u
      BY <1>1, <1>4
    <2>2. M(a) <= M(a + u)
      BY <1>6, <2>1
    <2>3. m(a + (u + 1)) >= M(a + u)
      BY <1>3, <2>1
    <2>4. /\ M(a) \in Nat /\ M(a + u) \in Nat /\ M(a + (u + 1)) \in Nat /\ m(a + (u + 1)) \in Nat
          /\ m(a + (u + 1)) <= M(a + (u + 1))
      BY <1>2, <1>4, <2>1
    <2> HIDE DEF M, m
    <2>5. M(a) <= M(a + (u + 1))
      BY <2>2, <2>3, <2>4
    <2> QED
      BY <2>1, <2>5
  <1>7. b - a \in U
    <2> HIDE DEF U
    <2>1. \A u \in 0..(b - a) : u \in U
      BY <1>4, <1>5, <1>6, UpTo
    <2> QED
      BY <1>4, <2>1
  <1>8. a + (b - a) <= n => M(a) <= M(a + (b - a))
    BY <1>7
  <1> QED
    BY <1>4, <1>8

\* What the binary search knows: the segments of the suffix before low end before from.
Narrowed(st, from, x) ==
    /\ x.low \in h.spanStart..(h.generation + 1) /\ x.high \in x.low..(h.generation + 1)
    /\ \A k \in h.spanStart..(x.low - 1) : db[st[k]].maximum < from

\* A turn of the binary search keeps that.
LEMMA HalvedNarrows ==
  ASSUME NEW st, NEW sf, NEW sa, NEW wf, NEW wa, Stored(db, wal, manifest, h, st, sf, sa, wf, wa),
         NEW from \in Nat, NEW x, Narrowed(st, from, x)
  PROVE  Narrowed(st, from, Halved(x, from))
  <1> DEFINE n == h.generation
             X == h.spanStart
             middle == x.low + ((x.high - x.low) \div 2)
             o == SegmentAt(db, h.dataEnd, n, h.lastSegment, middle)
  <1>1. /\ Layout(db, DataStart, h.dataEnd, n, st, sf, sa) /\ Linked(db, n, st) /\ n < Power[24]
        /\ SpanIs(db, st, n, X) /\ h.dataEnd \in Nat /\ n \in Nat
    BY StoredFacts
  <1>2. h.lastSegment = StartOf(st, n)
    BY DEF Stored, HandleSays
  <1>3. X \in 1..(n + 1)
    BY <1>1 DEF SpanIs
  <1>4. x.low \in X..(n + 1) /\ x.high \in x.low..(n + 1) /\ \A k \in X..(x.low - 1) : db[st[k]].maximum < from
    BY DEF Narrowed
  <1>5. CASE x.low >= x.high
    BY <1>5 DEF Halved
  <1>6. CASE ~(x.low >= x.high)
    <2> DEFINE low == x.low
               high == x.high
    <2> HIDE DEF low, high
    <2>1. low \in X..(n + 1) /\ high \in low..(n + 1) /\ low < high /\ low \in Int /\ high \in Int
      BY <1>1, <1>3, <1>4, <1>6 DEF low, high
    <2>2. (high - low) \div 2 \in Nat /\ (high - low) \div 2 < high - low
      <3>1. high - low \in Nat /\ high - low >= 1
        BY <2>1
      <3> QED
        BY <3>1
    <2>3. middle \in low..(high - 1)
      BY <2>1, <2>2 DEF low, high
    <2> HIDE DEF middle
    <2>4. middle \in 1..n /\ middle \in X..n /\ middle + 1 \in X..(n + 1) /\ high \in (middle + 1)..(n + 1) /\ middle \in low..(n + 1)
      BY <1>1, <1>3, <2>1, <2>3
    <2>5. o = st[middle]
      <3>1. h.dataEnd <= h.dataEnd /\ h.dataEnd \in Int
        BY <1>1
      <3>2. SegmentAt(db, h.dataEnd, n, StartOf(st, n), middle) = st[middle]
        BY <1>1, <2>4, <3>1, SegmentFound
      <3> QED
        BY <1>2, <3>2
    <2>6. o # 0
      <3>1. middle \in 1..(n + 1) /\ middle \in middle..(n + 1)
        BY <1>1, <2>4
      <3>2. DataStart <= st[middle] /\ st[middle] \in Nat
        <4>1. DataStart <= st[middle]
          BY <1>1, <3>1, LayoutGrow
        <4>2. st[middle] \in Nat
          BY <1>1, <3>1, LayoutFacts
        <4> QED
          BY <4>1, <4>2
      <3> QED
        BY <2>5, <3>2 DEF DataStart
    <2>7. Halved(x, from) = IF db[st[middle]].maximum < from THEN [low |-> middle + 1, high |-> high]
                            ELSE [low |-> low, high |-> middle]
      BY <1>6, <2>5, <2>6 DEF Halved, EndsBefore, middle, low, high
    <2>8. CASE db[st[middle]].maximum < from
      <3>1. ASSUME NEW k \in X..((middle + 1) - 1) PROVE db[st[k]].maximum < from
        <4>1. k \in X..n /\ middle \in k..n /\ k \in 1..n
          BY <1>1, <1>3, <2>4
        <4>2. db[st[k]].maximum <= db[st[middle]].maximum
          BY <1>1, <4>1, SpanGrows
        <4>3. db[st[k]].maximum \in Nat /\ db[st[middle]].maximum \in Nat
          <5>1. \A q \in 1..n : st[q] \in Nat /\ SegmentWhole(db, st[q], sf[q], sa[q])
            BY StoredSegments
          <5>2. db[st[k]].maximum \in Times /\ db[st[middle]].maximum \in Times
            BY <2>4, <4>1, <5>1, WholeFacts
          <5> QED
            BY <5>2 DEF Times
        <4> QED
          BY <2>8, <4>2, <4>3
      <3>2. Halved(x, from) = [low |-> middle + 1, high |-> high]
        BY <2>7, <2>8
      <3> QED
        BY <2>4, <3>1, <3>2 DEF Narrowed
    <2>9. CASE ~(db[st[middle]].maximum < from)
      <3>1. Halved(x, from) = [low |-> low, high |-> middle]
        BY <2>7, <2>9
      <3> QED
        BY <1>4, <2>1, <2>4, <3>1 DEF Narrowed, low
    <2> QED
      BY <2>8, <2>9
  <1> QED
    BY <1>5, <1>6

\* The binary search skips only segments that end before the given time.
LEMMA SearchNarrows ==
  ASSUME NEW st, NEW sf, NEW sa, NEW wf, NEW wa, Stored(db, wal, manifest, h, st, sf, sa, wf, wa),
         NEW from \in Nat
  PROVE  /\ BinarySearch(from) \in h.spanStart..(h.generation + 1)
         /\ \A k \in h.spanStart..(BinarySearch(from) - 1) : db[st[k]].maximum < from
  <1> DEFINE n == h.generation
             f == Halvings(from)
             T == {k \in 0..(n + 1) : Narrowed(st, from, f[k])}
  <1>1. n \in Nat /\ SpanIs(db, st, n, h.spanStart)
    BY StoredFacts
  <1>2. h.spanStart \in 1..(n + 1)
    BY <1>1 DEF SpanIs
  <1>3. /\ f[0] = [low |-> h.spanStart, high |-> n + 1]
        /\ \A k \in 0..((n + 1) - 1) : f[k + 1] = Halved(f[k], from)
    BY <1>1, HalvingTurns
  <1>4. 0 \in T
    <2>1. \A k \in h.spanStart..(h.spanStart - 1) : FALSE
      BY <1>2
    <2> QED
      BY <1>1, <1>2, <1>3, <2>1 DEF Narrowed
  <1>5. ASSUME NEW k \in 0..((n + 1) - 1), k \in T PROVE k + 1 \in T
    <2>1. k + 1 \in 0..(n + 1)
      BY <1>1
    <2>2. Narrowed(st, from, Halved(f[k], from))
      BY <1>5, HalvedNarrows
    <2> QED
      BY <1>3, <2>1, <2>2
  <1>6. n + 1 \in T
    <2> HIDE DEF T
    <2>1. n + 1 \in Nat
      BY <1>1
    <2>2. \A k \in 0..(n + 1) : k \in T
      BY <1>4, <1>5, <2>1, UpTo
    <2> QED
      BY <2>1, <2>2
  <1>7. Narrowed(st, from, f[n + 1]) /\ BinarySearch(from) = f[n + 1].low
    BY <1>6 DEF BinarySearch
  <1> QED
    BY <1>7 DEF Narrowed

\* The binary part of a seek finds the first batch after the segments it skips.
LEMMA SeekSuffixFound ==
  ASSUME NEW st, NEW sf, NEW sa, NEW wf, NEW wa, Stored(db, wal, manifest, h, st, sf, sa, wf, wa),
         NEW lo, NEW lv, Flat(h.generation, sf, wf, lo, lv), NEW from \in Nat
  PROVE  Found(SeekSuffix(from), HitsIn(lv, lo[BinarySearch(from)] + 1, Len(lv), from),
               Places(db, h, st, sf, sa, wf, wa, lo))
  <1> DEFINE n == h.generation
             P == Places(db, h, st, sf, sa, wf, wa, lo)
             low == BinarySearch(from)
             cur == SuffixCursor(low)
             o == SegmentAt(db, h.dataEnd, n, h.lastSegment, low)
             i == lo[low] + 1
  <1>1. /\ Layout(db, DataStart, h.dataEnd, n, st, sf, sa) /\ Linked(db, n, st) /\ n < Power[24]
        /\ SpanIs(db, st, n, h.spanStart) /\ h.dataEnd \in Nat /\ n \in Nat
    BY StoredFacts
  <1>2. h.lastSegment = StartOf(st, n)
    BY DEF Stored, HandleSays
  <1>3. h.spanStart \in 1..(n + 1)
    BY <1>1 DEF SpanIs
  <1>4. low \in h.spanStart..(n + 1)
    BY SearchNarrows
  <1>5. low \in 1..(n + 1)
    BY <1>1, <1>3, <1>4
  <1> HIDE DEF low
  <1>6. cur # Bad /\ <<cur, i>> \in P
    <2>1. CASE low = n + 1
      <3>1. low > n
        BY <1>1, <2>1
      <3>2. cur = LogStart(h)
        BY <3>1 DEF SuffixCursor, LogStart
      <3>3. At(db, h, st, sf, sa, wf, wa, cur, low, 1)
        BY <2>1, <3>2, LogStartAt
      <3>4. <<cur, i>> \in P
        BY <3>3, AtPlace
      <3>5. cur \in CursorType
        BY <3>3 DEF At
      <3>6. cur # Bad
        BY <3>5 DEF CursorType, Bad
      <3> QED
        BY <3>4, <3>6
    <2>2. CASE low # n + 1
      <3>1. low \in 1..n /\ ~(low > n) /\ low # 0 /\ low \in 1..(n + 1) /\ low \in low..(n + 1)
        BY <1>1, <1>5, <2>2
      <3>2. o = st[low]
        <4>1. h.dataEnd <= h.dataEnd /\ h.dataEnd \in Int
          BY <1>1
        <4>2. SegmentAt(db, h.dataEnd, n, StartOf(st, n), low) = st[low]
          BY <1>1, <3>1, <4>1, SegmentFound
        <4> QED
          BY <1>2, <4>2
      <3>3. o # 0
        <4>1. DataStart <= st[low] /\ st[low] \in Nat
          <5>1. DataStart <= st[low]
            BY <1>1, <3>1, LayoutGrow
          <5>2. st[low] \in Nat
            BY <1>1, <3>1, LayoutFacts
          <5> QED
            BY <5>1, <5>2
        <4> QED
          BY <3>2, <4>1 DEF DataStart
      <3>4. cur = PositionSegment(st[low])
        BY <3>1, <3>2, <3>3 DEF SuffixCursor
      <3>5. At(db, h, st, sf, sa, wf, wa, cur, low, 1)
        BY <3>1, <3>4, PositionAt
      <3>6. <<cur, i>> \in P
        BY <3>5, AtPlace
      <3>7. cur \in CursorType
        BY <3>5 DEF At
      <3>8. cur # Bad
        BY <3>7 DEF CursorType, Bad
      <3> QED
        BY <3>6, <3>8
    <2> QED
      BY <2>1, <2>2
  <1>7. SeekSuffix(from) = SeekFrames(cur, from, h.sequence)
    BY <1>6 DEF SeekSuffix, SeekOn, low
  <1>8. Viewed(db, wal, manifest, h, lv, P)
    BY DEF Viewed
  <1>9. /\ n \in Nat /\ \A q \in 1..n : sf[q] \in Seq(FrameSet)
        /\ Len(wf) \in Nat
    BY StoredSegments
  <1>10. lo[low] \in Nat /\ Len(lv) \in Nat /\ lo[low] <= Len(lv)
    BY <1>5, <1>9, FlatGrows
  <1>11. \A x \in i..Len(lv) : lv[x].seq <= h.sequence
    <2>1. SUFFICES ASSUME NEW x \in i..Len(lv) PROVE lv[x].seq <= h.sequence
      OBVIOUS
    <2>2. x \in 1..Len(lv)
      BY <1>10
    <2> QED
      BY <2>2, FlatTop
  <1>12. Len(lv) \in (i - 1)..Len(lv) /\ ~(Len(lv) < Len(lv))
    BY <1>10
  <1>13. h.sequence \in Nat
    <2>1. h.sequence \in 0..SeqMax
      BY <1>8, ViewedFacts
    <2> QED
      BY <2>1, LimitAssumption
  <1> HIDE DEF cur, i, P
  <1>14. Found(SeekFrames(cur, from, h.sequence), HitsIn(lv, i, Len(lv), from), P)
    BY <1>6, <1>8, <1>11, <1>12, <1>13, SeekFramesFound
  <1> QED
    BY <1>7, <1>14 DEF i, P, low

\* A seek finds the first batch that is not too old.
LEMMA SeekFound ==
  ASSUME NEW lv, NEW P, Viewed(db, wal, manifest, h, lv, P), NEW from \in Times
  PROVE  Found(SeekResult(from), HitsIn(lv, 1, Len(lv), from), P)
  <1>1. PICK st, sf, sa, wf, wa, lo : /\ Stored(db, wal, manifest, h, st, sf, sa, wf, wa)
                                      /\ Flat(h.generation, sf, wf, lo, lv)
                                      /\ P = Places(db, h, st, sf, sa, wf, wa, lo)
    BY DEF Viewed
  <1> DEFINE n == h.generation
             X == h.spanStart
             low == BinarySearch(from)
             A == HitsIn(lv, 1, lo[X], from)
             B == HitsIn(lv, lo[low] + 1, Len(lv), from)
             C == HitsIn(lv, 1, Len(lv), from)
  <1>2. from \in Nat
    BY DEF Times
  <1>3. Found(SeekPrefix(from), A, P)
    BY <1>1, SeekPrefixFound
  <1>4. Found(SeekSuffix(from), B, P)
    BY <1>1, <1>2, SeekSuffixFound
  <1>5. low \in X..(n + 1) /\ \A k \in X..(low - 1) : db[st[k]].maximum < from
    BY <1>1, <1>2, SearchNarrows
  <1>6. /\ n \in Nat /\ \A q \in 1..n : sf[q] \in Seq(FrameSet)
        /\ Len(wf) \in Nat
    BY <1>1, StoredSegments
  <1>7. X \in 1..(n + 1)
    <2>1. SpanIs(db, st, n, X)
      BY <1>1, StoredFacts
    <2> QED
      BY <2>1 DEF SpanIs
  <1>8. low \in 1..(n + 1) /\ X \in 1..low
    BY <1>5, <1>6, <1>7
  <1> HIDE DEF low
  <1>9. lo[X] \in Nat /\ Len(lv) \in Nat /\ lo[X] <= Len(lv)
    BY <1>1, <1>6, <1>7, FlatGrows
  <1>10. lo[low] \in Nat /\ lo[low] <= Len(lv) /\ lo[X] <= lo[low]
    <2>1. lo[low] \in Nat /\ lo[low] <= Len(lv)
      BY <1>1, <1>6, <1>8, FlatGrows
    <2>2. \A q \in 1..low : lo[q] <= lo[low]
      BY <1>1, <1>6, <1>8, FlatGrows
    <2> QED
      BY <1>8, <2>1, <2>2
  <1>11. A \subseteq C /\ B \subseteq C /\ C \subseteq Nat
    BY <1>9, <1>10 DEF HitsIn
  <1>12. ASSUME NEW x \in C PROVE x \in A \/ x \in B
    <2>1. x \in 1..Len(lv) /\ LastTimeOf(lv[x]) >= from
      BY DEF HitsIn
    <2>2. CASE x <= lo[X]
      <3>1. x \in 1..lo[X]
        BY <1>9, <2>1, <2>2
      <3> QED
        BY <2>1, <3>1 DEF HitsIn
    <2>3. CASE x > lo[low]
      <3>1. x \in (lo[low] + 1)..Len(lv)
        BY <1>9, <1>10, <2>1, <2>3
      <3> QED
        BY <2>1, <3>1 DEF HitsIn
    <2>4. CASE x > lo[X] /\ x <= lo[low]
      <3>1. x \in 1..lo[low]
        BY <1>10, <2>1, <2>4
      <3>2. \E k \in 1..(low - 1) : InFlat(sf, lo, lv, x, k)
        BY <1>1, <1>6, <1>8, <3>1, FlatSegment
      <3>3. PICK k \in 1..(low - 1) : InFlat(sf, lo, lv, x, k)
        BY <3>2
      <3>4. k \in 1..n /\ k + 1 \in 1..(n + 1)
        BY <1>6, <1>8
      <3>5. x <= lo[k + 1] /\ lo[k + 1] \in Nat
        <4>1. x \in (lo[k] + 1)..lo[k + 1]
          BY <3>3 DEF InFlat
        <4>2. lo[k + 1] \in Nat
          BY <1>1, <3>4 DEF Flat
        <4> QED
          BY <4>1, <4>2
      <3>6. k >= X
        <4>1. SUFFICES ASSUME ~(k >= X) PROVE FALSE
          OBVIOUS
        <4>2. k + 1 \in 1..X
          BY <1>7, <3>4, <4>1
        <4>3. \A q \in 1..X : lo[q] <= lo[X]
          BY <1>1, <1>6, <1>7, FlatGrows
        <4>4. lo[k + 1] <= lo[X]
          BY <4>2, <4>3
        <4> QED
          BY <1>9, <2>1, <2>4, <3>5, <4>4
      <3>7. k \in X..(low - 1)
        BY <1>7, <1>8, <3>6
      <3>8. db[st[k]].maximum < from
        BY <1>5, <3>7 DEF low
      <3> DEFINE j == x - lo[k]
      <3>9. j \in 1..Len(sf[k]) /\ lv[x] = sf[k][j]
        BY <3>3 DEF InFlat
      <3>10. HeaderTimes(db[st[k]], sf[k])
        <4>1. TimesKept(db, n, st, sf)
          BY <1>1, StoredFacts
        <4> QED
          BY <3>4, <4>1 DEF TimesKept
      <3> HIDE DEF j
      <3>11. lv[x] \in FrameSet
        BY <1>6, <3>4, <3>9
      <3>12. LastTimeOf(lv[x]) \in TimesOf(lv[x]) /\ TimesOf(lv[x]) \subseteq Times
        BY <3>11, EndTimes
      <3>13. LastTimeOf(lv[x]) <= db[st[k]].maximum
        BY <3>9, <3>10, <3>12 DEF HeaderTimes
      <3>14. db[st[k]].maximum \in Times
        <4>1. st[k] \in Nat /\ SegmentWhole(db, st[k], sf[k], sa[k])
          BY <1>1, <3>4, StoredSegments
        <4> QED
          BY <4>1, WholeFacts
      <3>15. FALSE
        BY <1>2, <2>1, <3>8, <3>12, <3>13, <3>14 DEF Times
      <3> QED
        BY <3>15
    <2> QED
      BY <1>9, <1>10, <2>1, <2>2, <2>3, <2>4
  <1>13. ASSUME NEW x \in A, NEW y \in C PROVE x <= y \/ y \in A
    <2>1. x \in 1..lo[X] /\ y \in 1..Len(lv) /\ LastTimeOf(lv[y]) >= from
      BY DEF HitsIn
    <2>2. y > lo[X] => x <= y
      BY <1>9, <2>1
    <2>3. ~(y > lo[X]) => y \in 1..lo[X]
      BY <1>9, <2>1
    <2> QED
      BY <2>1, <2>2, <2>3 DEF HitsIn
  <1> HIDE DEF A, B, C
  <1>14. CASE A = {}
    <2>1. SeekPrefix(from) = Done
      BY <1>3, <1>14 DEF Found
    <2>2. SeekResult(from) = SeekSuffix(from)
      BY <2>1 DEF SeekResult, OrSuffix
    <2>3. C = B
      BY <1>11, <1>12, <1>14
    <2> QED
      BY <1>4, <2>2, <2>3 DEF C
  <1>15. CASE A # {}
    <2>1. PICK nx : SeekPrefix(from) = [kind |-> "found", cur |-> nx] /\ <<nx, Min(A)>> \in P
      BY <1>3, <1>15 DEF Found
    <2>2. SeekResult(from) = SeekPrefix(from)
      BY <2>1, DoneFacts DEF SeekResult, OrSuffix
    <2>3. Min(A) \in A /\ \A y \in A : Min(A) <= y
      <3>1. A \subseteq Nat
        BY <1>11
      <3> QED
        BY <1>15, <3>1, MinExists
    <2>4. \A y \in C : Min(A) <= y
      BY <1>13, <2>3
    <2>5. Min(C) = Min(A) /\ C # {}
      <3>1. C \subseteq Int /\ Min(A) \in C
        <4>1. C \subseteq Int
          BY <1>11
        <4>2. Min(A) \in C
          <5>1. Min(A) \in A
            BY <2>3
          <5> QED
            BY <1>11, <5>1
        <4> QED
          BY <4>1, <4>2
      <3> QED
        BY <2>4, <3>1, MinIs
    <2> QED
      BY <2>1, <2>2, <2>5 DEF Found, C
  <1> QED
    BY <1>14, <1>15

\* A seek leaves the cursor whole.
LEMMA SeekWhole ==
  ASSUME Whole(db, wal, manifest, h, c), NEW from \in Times, Seek(from)
  PROVE  Whole(db, wal, manifest, h, c)'
  <1> DEFINE r == SeekResult(from)
  <1>1. PICK st, sf, sa, wf, wa : Stored(db, wal, manifest, h, st, sf, sa, wf, wa)
    BY DEF Whole
  <1>2. \E lv, P, i : Viewed(db, wal, manifest, h, lv, P) /\ <<c, i>> \in P
    BY WholeViewed
  <1>3. PICK lv, P, i : Viewed(db, wal, manifest, h, lv, P) /\ <<c, i>> \in P
    BY <1>2
  <1> DEFINE hits == HitsIn(lv, 1, Len(lv), from)
  <1>4. Found(r, hits, P)
    BY <1>3, SeekFound
  <1>5. /\ c' = IF r = Done THEN EndCursor(h, ResetCursor) ELSE r.cur
        /\ UNCHANGED <<db, wal, manifest, h>>
    BY DEF Seek, SeekTo
  <1> HIDE DEF r, hits
  <1>6. Whole(db, wal, manifest, h, c')
    <2>1. CASE hits = {}
      <3>1. r = Done
        BY <1>4, <2>1 DEF Found
      <3>2. ResetCursor \in CursorType
        BY <1>1, ResetAt DEF At
      <3>3. At(db, h, st, sf, sa, wf, wa, EndCursor(h, ResetCursor), h.generation + 1, Len(wf) + 1)
        BY <1>1, <3>2, EndAt
      <3>4. c' = EndCursor(h, ResetCursor)
        BY <1>5, <3>1
      <3> QED
        BY <1>1, <3>3, <3>4 DEF Whole
    <2>2. CASE hits # {}
      <3>1. PICK nx : r = [kind |-> "found", cur |-> nx] /\ <<nx, Min(hits)>> \in P
        BY <1>4, <2>2 DEF Found
      <3>2. c' = nx
        BY <1>5, <3>1, DoneFacts
      <3> QED
        BY <1>3, <3>1, <3>2, ViewedWhole
    <2> QED
      BY <2>1, <2>2
  <1> QED
    BY <1>5, <1>6

\* The same for the batches of a view.
LEMMA ViewedDrain ==
  ASSUME NEW d, NEW w, NEW m, NEW hd, NEW lv, NEW P, Viewed(d, w, m, hd, lv, P), NEW cur, NEW i, <<cur, i>> \in P
  PROVE  Drain(d, w, hd, cur) = Rest(lv, i)
  <1>1. Follows(d, w, hd, lv, P)
    BY ViewedFacts
  <1>2. ~hd.failed
    BY ViewedFacts
  <1> QED
    BY <1>1, <1>2, DrainFound

\* Where the files and the handle fit, seek is exact.
LEMMA InvSeekExact ==
  ASSUME Inv
  PROVE  SeekExact
  <1>1. Whole(db, wal, manifest, h, c) /\ live = LiveBatches(db, wal, h)
    BY DEF Inv
  <1>2. \E lv, P, i : Viewed(db, wal, manifest, h, lv, P) /\ <<c, i>> \in P
    BY <1>1, WholeViewed
  <1>3. PICK lv, P, i : Viewed(db, wal, manifest, h, lv, P) /\ <<c, i>> \in P
    BY <1>2
  <1>4. /\ Follows(db, wal, h, lv, P) /\ lv = LiveBatches(db, wal, h)
        /\ h.failed = FALSE
    BY <1>3, ViewedFacts
  <1>5. live = lv
    BY <1>1, <1>4
  <1>6. lv \in Seq(FrameSet)
    BY <1>3, ViewedFacts
  <1>7. DOMAIN lv = 1..Len(lv)
    BY <1>6
  <1>8. ASSUME NEW t \in Times
        PROVE  LET r == SeekResult(t)
                   hits == {x \in DOMAIN live : LastTimeOf(live[x]) >= t}
               IN  IF hits = {} THEN r = Done
                   ELSE r.kind = "found" /\ Drain(db, wal, h, r.cur) = SubSeq(live, Min(hits), Len(live))
    <2> DEFINE r == SeekResult(t)
               hits == HitsIn(lv, 1, Len(lv), t)
    <2>1. Found(r, hits, P)
      BY <1>3, SeekFound
    <2>2. hits = {x \in DOMAIN live : LastTimeOf(live[x]) >= t}
      BY <1>5, <1>7 DEF HitsIn
    <2> HIDE DEF r, hits
    <2>3. IF hits = {} THEN r = Done
          ELSE r.kind = "found" /\ Drain(db, wal, h, r.cur) = SubSeq(lv, Min(hits), Len(lv))
      <3>1. CASE hits = {}
        BY <2>1, <3>1 DEF Found
      <3>2. CASE hits # {}
        <4>1. PICK nx : r = [kind |-> "found", cur |-> nx] /\ <<nx, Min(hits)>> \in P
          BY <2>1, <3>2 DEF Found
        <4> DEFINE y == Min(hits)
        <4>2. <<nx, y>> \in P
          BY <4>1
        <4> HIDE DEF y
        <4>3. Drain(db, wal, h, nx) = SubSeq(lv, y, Len(lv))
          BY <1>3, <4>2, ViewedDrain DEF Rest
        <4> QED
          BY <3>2, <4>1, <4>3 DEF y
      <3> QED
        BY <3>1, <3>2
    <2> QED
      BY <1>5, <2>2, <2>3 DEF r
  <1> QED
    BY <1>8 DEF SeekExact

\* Where the files and the handle fit, the handle says what an open would find.
LEMMA InvOrder ==
  ASSUME Inv
  PROVE  OrderMatchesReopen
  BY StoredOrder DEF Inv, Whole

\* Where the files and the handle fit, segment_at finds what a walk finds.
LEMMA InvIndex ==
  ASSUME Inv
  PROVE  IndexFindsSegments
  <1>1. PICK st, sf, sa, wf, wa : Stored(db, wal, manifest, h, st, sf, sa, wf, wa)
    BY DEF Inv, Whole
  <1> DEFINE n == h.generation
             start == SegmentStarts(db, DataStart, n)
  <1>2. /\ Layout(db, DataStart, h.dataEnd, n, st, sf, sa) /\ Linked(db, n, st) /\ n < Power[24]
        /\ h.dataEnd \in Nat /\ n \in Nat /\ h.failed = FALSE
    BY <1>1, StoredFacts
  <1>3. h.lastSegment = StartOf(st, n)
    BY <1>1 DEF Stored, HandleSays
  <1>4. n \in 0..n
    BY <1>2
  <1>5. start = st
    BY <1>2, <1>4, StartsFound
  <1>6. st[n + 1] = h.dataEnd
    BY <1>2 DEF Layout
  <1>7. ASSUME NEW x \in 1..n
        PROVE  SegmentAt(db, h.dataEnd, n, h.lastSegment, x) = st[x]
    <2>1. h.dataEnd <= h.dataEnd /\ h.dataEnd \in Int
      BY <1>2
    <2>2. SegmentAt(db, h.dataEnd, n, StartOf(st, n), x) = st[x]
      BY <1>2, <2>1, SegmentFound
    <2> QED
      BY <1>3, <2>2
  <1> QED
    BY <1>2, <1>5, <1>6, <1>7 DEF IndexFindsSegments

\* Where the files and the handle fit, every field is in its domain.
LEMMA InvType ==
  ASSUME Inv
  PROVE  TypeOK
  <1>1. PICK st, sf, sa, wf, wa : /\ Stored(db, wal, manifest, h, st, sf, sa, wf, wa)
                                  /\ \E k, j : At(db, h, st, sf, sa, wf, wa, c, k, j)
    BY DEF Inv, Whole
  <1>2. /\ Cells(db) /\ h.dataEnd \in Nat
        /\ h.dataEnd <= DbCapacity /\ h.installed \in 0..SeqMax
    BY <1>1, StoredFacts
  <1>3. /\ Cells(wal) /\ IsFrames(wal, WalStart, h.end, h.installed + 1, wf, wa)
        /\ Len(wf) \in Nat /\ h.end \in Nat /\ h.end <= WalCapacity
    BY <1>1, StoredFacts
  <1>4. h.sequence \in 0..SeqMax
    BY <1>1, StoredFacts
  <1>5. h.sequence = h.installed + Len(wf) /\ h \in HandleSet
    BY <1>1 DEF Stored, HandleSays
  <1>6. \A o \in DOMAIN db : DataStart <= o /\ o < h.dataEnd
    BY <1>1 DEF Stored, Segments
  <1>7. \A o \in DOMAIN db : o \in DataStart..(DbCapacity - 1) /\ db[o].kind \in {"segment", "frame"}
    <2>1. SUFFICES ASSUME NEW o \in DOMAIN db PROVE o \in DataStart..(DbCapacity - 1) /\ db[o].kind \in {"segment", "frame"}
      OBVIOUS
    <2>2. o \in Nat /\ db[o] \in FrameSet \cup SegmentSet
      BY <1>2 DEF Cells
    <2>3. db[o].kind \in {"segment", "frame"}
      BY <2>2 DEF FrameSet, SegmentSet
    <2>4. DataStart <= o /\ o < h.dataEnd
      BY <1>6
    <2>5. o \in DataStart..(DbCapacity - 1)
      BY <1>2, <2>2, <2>4, ReaderAssumption DEF DataStart
    <2> QED
      BY <2>3, <2>5
  <1>8. \A o \in DOMAIN wal : o \in WalStart..(WalCapacity - 1) /\ wal[o].kind = "frame"
    <2>1. SUFFICES ASSUME NEW o \in DOMAIN wal PROVE o \in WalStart..(WalCapacity - 1) /\ wal[o].kind = "frame"
      OBVIOUS
    <2>2. DOMAIN wal = {wa[i] : i \in 1..Len(wf)}
      BY <1>1 DEF Stored, Log
    <2>3. PICK i \in 1..Len(wf) : o = wa[i]
      BY <2>2
    <2>4. wal[o] = wf[i] /\ wf[i] \in FrameSet
      BY <1>3, <2>3 DEF IsFrames
    <2>5. FrameSize(wf[i]) \in Nat /\ FrameSize(wf[i]) >= 1 /\ wf[i].kind = "frame"
      BY <2>4, FrameFacts
    <2>6. i \in 1..(Len(wf) + 1) /\ i \in i..(Len(wf) + 1) /\ i < Len(wf) + 1
      BY <1>3
    <2>7. wa[i] \in Nat /\ WalStart <= wa[i]
      BY <1>3, <2>6, FramesGrow
    <2>8. wa[i] + FrameSize(wf[i]) <= h.end
      BY <1>3, <2>6, FramesGrow
    <2>9. o \in WalStart..(WalCapacity - 1)
      BY <1>3, <2>3, <2>5, <2>7, <2>8, ReaderAssumption DEF WalStart
    <2> QED
      BY <2>4, <2>5, <2>9
  <1>9. h.installed \in 0..h.sequence
    BY <1>2, <1>3, <1>4, <1>5, LimitAssumption
  <1>10. h.dataEnd \in DataStart..DbCapacity
    <2>1. Layout(db, DataStart, h.dataEnd, h.generation, st, sf, sa) /\ h.generation \in Nat
      BY <1>1, StoredFacts
    <2>2. 1 \in 1..(h.generation + 1) /\ 1 \in 1..(h.generation + 1)
      BY <2>1
    <2>3. DataStart + (2 * h.generation) <= h.dataEnd
      BY <2>1, <2>2, LayoutGrow
    <2> QED
      BY <1>2, <2>1, <2>3, ReaderAssumption DEF DataStart
  <1>11. h.end \in WalStart..WalCapacity
    <2>1. 1 \in 1..(Len(wf) + 1) /\ 1 \in 1..(Len(wf) + 1)
      BY <1>3
    <2>2. WalStart + Len(wf) <= h.end
      BY <1>3, <2>1, FramesGrow
    <2> QED
      BY <1>3, <2>2, ReaderAssumption DEF WalStart
  <1>12. h.lastTime \in Times /\ h.installedTime \in Times
    BY <1>5 DEF HandleSet
  <1>13. c \in CursorType
    BY <1>1 DEF At
  <1> QED
    BY <1>4, <1>7, <1>8, <1>9, <1>10, <1>11, <1>12, <1>13 DEF TypeOK

------------------------------------------------------------------------------
(* The files an old release leaves. *)

\* A number of batches of an old release and the way they are cut into segments.
Cutting(n, inputs, g, cut) ==
    /\ n \in 0..LegacyMax /\ inputs \in [1..n -> LegacyInputs] /\ g \in 0..n /\ cut \in [0..g -> 0..n]
    /\ cut[0] = 0 /\ \A k \in 1..g : cut[k - 1] < cut[k]

\* The sizes of the batches add up.
LEMMA SizesGrow ==
  ASSUME NEW n \in Nat, NEW inputs, inputs \in [1..n -> LegacyInputs]
  PROVE  /\ Sizes(inputs, n)[0] = 0
         /\ \A i \in 0..n : Sizes(inputs, n)[i] \in Nat
         /\ \A i \in 1..n : Sizes(inputs, n)[i] = Sizes(inputs, n)[i - 1] + Len(inputs[i])
         /\ \A i \in 0..n : \A j \in i..n : Sizes(inputs, n)[i] + (j - i) <= Sizes(inputs, n)[j]
  <1> DEFINE z == Sizes(inputs, n)
  <1>1. z[0] = 0 /\ \A k \in 0..(n - 1) : z[k + 1] = z[k] + Len(inputs[k + 1])
    BY SizeTurns
  <1>2. ASSUME NEW i \in 1..n PROVE Len(inputs[i]) \in Nat /\ Len(inputs[i]) >= 1
    <2>1. inputs[i] \in Inputs \cup LegacyInputs
      OBVIOUS
    <2>2. inputs[i] \in Seq(Records) /\ inputs[i] # <<>>
      BY <2>1, ReaderAssumption
    <2> QED
      BY <2>2
  <1> HIDE DEF z
  <1>3. \A k \in 0..n : z[k] \in Nat
    <2> DEFINE T == {k \in 0..n : z[k] \in Nat}
    <2>1. 0 \in T
      BY <1>1
    <2>2. ASSUME NEW k \in 0..(n - 1), k \in T PROVE k + 1 \in T
      <3>1. k + 1 \in 1..n /\ k + 1 \in 0..n
        OBVIOUS
      <3>2. Len(inputs[k + 1]) \in Nat
        BY <3>1, <1>2
      <3> QED
        BY <2>2, <1>1, <3>1, <3>2
    <2>3. \A k \in 0..n : k \in T
      <3> HIDE DEF T
      <3> QED
        BY <2>1, <2>2, UpTo
    <2> QED
      BY <2>3
  <1>4. ASSUME NEW i \in 1..n PROVE z[i] = z[i - 1] + Len(inputs[i])
    <2>1. i - 1 \in 0..(n - 1) /\ (i - 1) + 1 = i
      OBVIOUS
    <2> QED
      BY <1>1, <2>1
  <1>5. ASSUME NEW i \in 0..n PROVE \A j \in i..n : z[i] + (j - i) <= z[j]
    <2> DEFINE N == n - i
               T == {t \in 0..N : z[i] + t <= z[i + t]}
    <2>1. N \in Nat /\ z[i] \in Nat
      BY <1>3
    <2>2. 0 \in T
      BY <2>1
    <2>3. ASSUME NEW t \in 0..(N - 1), t \in T PROVE t + 1 \in T
      <3>1. i + t \in 0..n /\ (i + t) + 1 \in 1..n /\ (i + t) + 1 \in 0..n /\ ((i + t) + 1) - 1 = i + t /\ i + (t + 1) = (i + t) + 1
            /\ t + 1 \in 0..N
        BY <2>1
      <3>2. Len(inputs[(i + t) + 1]) \in Nat /\ Len(inputs[(i + t) + 1]) >= 1
        BY <3>1, <1>2
      <3>3. z[(i + t) + 1] = z[i + t] + Len(inputs[(i + t) + 1])
        BY <3>1, <1>4
      <3>4. z[i + t] \in Nat /\ z[i] + t <= z[i + t]
        BY <2>3, <3>1, <1>3
      <3>5. z[i] + (t + 1) <= z[(i + t) + 1]
        BY <2>1, <3>2, <3>3, <3>4
      <3> QED
        BY <3>1, <3>5
    <2>4. \A t \in 0..N : t \in T
      <3> HIDE DEF T, N
      <3> QED
        BY <2>1, <2>2, <2>3, UpTo
    <2> TAKE j \in i..n
    <2>5. j - i \in 0..N /\ i + (j - i) = j
      OBVIOUS
    <2> QED
      BY <2>4, <2>5
  <1> QED
    BY <1>1, <1>3, <1>4, <1>5 DEF z

\* The cuts grow.
LEMMA CutsGrow ==
  ASSUME NEW n, NEW inputs, NEW g, NEW cut, Cutting(n, inputs, g, cut)
  PROVE  /\ n \in Nat /\ n <= SeqMax /\ g \in Nat /\ g <= n
         /\ \A a \in 0..g : cut[a] \in 0..n /\ cut[a] \in Nat
         /\ \A a \in 0..g : \A b \in a..g : cut[a] + (b - a) <= cut[b]
  <1>1. n \in Nat /\ n <= SeqMax /\ g \in Nat /\ g <= n
    <2>1. LegacyMax \in Nat /\ LegacyMax <= SeqMax
      BY ReaderAssumption, LimitAssumption
    <2> QED
      BY <2>1, LimitAssumption DEF Cutting
  <1>2. \A a \in 0..g : cut[a] \in 0..n /\ cut[a] \in Nat
    <2>1. \A a \in 0..g : cut[a] \in 0..n
      BY DEF Cutting
    <2> QED
      BY <1>1, <2>1
  <1>3. ASSUME NEW a \in 0..g PROVE \A b \in a..g : cut[a] + (b - a) <= cut[b]
    <2> DEFINE N == g - a
               T == {t \in 0..N : cut[a] + t <= cut[a + t]}
    <2>1. N \in Nat /\ cut[a] \in Nat
      BY <1>1, <1>2
    <2>2. 0 \in T
      BY <2>1
    <2>3. ASSUME NEW t \in 0..(N - 1), t \in T PROVE t + 1 \in T
      <3>1. a + t \in 0..g /\ (a + t) + 1 \in 1..g /\ (a + t) + 1 \in 0..g /\ ((a + t) + 1) - 1 = a + t /\ a + (t + 1) = (a + t) + 1
            /\ t + 1 \in 0..N
        BY <2>1, <1>1
      <3>2. cut[((a + t) + 1) - 1] < cut[(a + t) + 1]
        BY <3>1 DEF Cutting
      <3>3. cut[a + t] < cut[(a + t) + 1]
        BY <3>1, <3>2
      <3>4. cut[a + t] \in Nat /\ cut[(a + t) + 1] \in Nat /\ cut[a] + t <= cut[a + t]
        BY <2>3, <3>1, <1>2
      <3>5. cut[a] + (t + 1) <= cut[(a + t) + 1]
        BY <2>1, <3>3, <3>4
      <3> QED
        BY <3>1, <3>5
    <2>4. \A t \in 0..N : t \in T
      <3> HIDE DEF T, N
      <3> QED
        BY <2>1, <2>2, <2>3, UpTo
    <2> TAKE b \in a..g
    <2>5. b - a \in 0..N /\ a + (b - a) = b
      BY <1>1
    <2> QED
      BY <2>4, <2>5
  <1> QED
    BY <1>1, <1>2, <1>3

\* Every batch before the last cut belongs to one segment.
LEMMA OwnerIs ==
  ASSUME NEW n, NEW inputs, NEW g, NEW cut, Cutting(n, inputs, g, cut), NEW i \in 1..cut[g]
  PROVE  /\ Owner(cut, g, i) \in 1..g /\ cut[Owner(cut, g, i) - 1] < i /\ i <= cut[Owner(cut, g, i)]
         /\ \A k \in 1..g : cut[k - 1] < i /\ i <= cut[k] => Owner(cut, g, i) = k
  <1>1. /\ n \in Nat /\ g \in Nat /\ \A a \in 0..g : cut[a] \in Nat
        /\ \A a \in 0..g : \A b \in a..g : cut[a] + (b - a) <= cut[b]
    BY CutsGrow
  <1>2. cut[0] = 0 /\ cut[g] \in Nat /\ i \in Nat
    BY <1>1 DEF Cutting
  <1> DEFINE T == {k \in 0..g : i <= cut[k]}
  <1>3. PICK k \in T : \A y \in T : k <= y
    <2>1. T \subseteq Nat /\ g \in T
      BY <1>1
    <2> HIDE DEF T
    <2> QED
      BY <2>1, LeastNat
  <1>4. k \in 1..g /\ i <= cut[k] /\ k - 1 \in 0..g
    BY <1>1, <1>2, <1>3
  <1>5. cut[k - 1] < i
    <2>1. k - 1 \notin T
      BY <1>1, <1>3, <1>4
    <2>2. cut[k - 1] \in Nat
      BY <1>1, <1>4
    <2> QED
      BY <1>2, <1>4, <2>1, <2>2
  <1>6. ASSUME NEW x \in 1..g, NEW y \in 1..g, cut[x - 1] < i, i <= cut[x], cut[y - 1] < i, i <= cut[y], x < y PROVE FALSE
    <2>1. x \in 0..g /\ y - 1 \in x..g /\ y - 1 \in 0..g
      BY <1>1, <1>6
    <2>2. cut[x] + ((y - 1) - x) <= cut[y - 1] /\ cut[x] \in Nat /\ cut[y - 1] \in Nat
      BY <1>1, <2>1
    <2> QED
      BY <1>2, <1>6, <2>2
  <1>7. ASSUME NEW x \in 1..g, NEW y \in 1..g, cut[x - 1] < i, i <= cut[x], cut[y - 1] < i, i <= cut[y] PROVE x = y
    BY <1>1, <1>6, <1>7
  <1>8. Owner(cut, g, i) \in 1..g /\ cut[Owner(cut, g, i) - 1] < i /\ i <= cut[Owner(cut, g, i)]
    <2>1. \E x \in 1..g : cut[x - 1] < i /\ i <= cut[x]
      BY <1>4, <1>5
    <2> QED
      BY <2>1 DEF Owner
  <1> QED
    BY <1>7, <1>8

\* A file holds each item at its offset, and nothing else.
LEMMA PlacedAt ==
  ASSUME NEW items, NEW at, NEW i \in DOMAIN items, \A x, y \in DOMAIN items : at[x] = at[y] => x = y
  PROVE  at[i] \in DOMAIN Placed(items, at) /\ Placed(items, at)[at[i]] = items[i]
  <1>1. at[i] \in {at[x] : x \in DOMAIN items}
    OBVIOUS
  <1>2. (CHOOSE x \in DOMAIN items : at[x] = at[i]) = i
    OBVIOUS
  <1> QED
    BY <1>1, <1>2 DEF Placed

\* Such a file holds nothing else.
LEMMA PlacedOnly ==
  ASSUME NEW items, NEW at, NEW o \in DOMAIN Placed(items, at)
  PROVE  \E i \in DOMAIN items : o = at[i] /\ Placed(items, at)[o] = items[i]
  <1>1. o \in {at[x] : x \in DOMAIN items}
    BY DEF Placed
  <1> DEFINE i == CHOOSE x \in DOMAIN items : at[x] = o
  <1>2. i \in DOMAIN items /\ at[i] = o
    BY <1>1
  <1>3. Placed(items, at)[o] = items[i]
    BY <1>1 DEF Placed
  <1> QED
    BY <1>2, <1>3

\* What an old release writes, and where.
LegacyFrames(inputs, n) == [i \in 1..n |-> Frame(i, inputs[i])]
LegacyHeader(size, cut, k) == OldSegment(cut[k - 1] + 1, cut[k], size[cut[k]] - size[cut[k - 1]])
HeaderPlace(size, cut, k) == DataStart + size[cut[k - 1]] + (k - 1)
FramePlace(size, i, k) == DataStart + size[i - 1] + k

\* Batch i belongs to segment k.
Belongs(cut, g, i, k) == k \in 1..g /\ i \in 1..cut[g] /\ cut[k - 1] < i /\ i <= cut[k]

\* A batch lies between the header of its segment and that of the next one.
LEMMA PlacesApart ==
  ASSUME NEW n, NEW inputs, NEW g, NEW cut, Cutting(n, inputs, g, cut), NEW size, size = Sizes(inputs, n),
         NEW i, NEW k, Belongs(cut, g, i, k)
  PROVE  /\ FramePlace(size, i, k) \in Nat /\ size[i - 1] \in Nat /\ size[i] \in Nat /\ size[i - 1] < size[i]
         /\ \A x \in 1..g : HeaderPlace(size, cut, x) \in Nat
         /\ \A x \in 1..g : HeaderPlace(size, cut, x) # FramePlace(size, i, k)
         /\ \A y, z : Belongs(cut, g, y, z) /\ i < y => FramePlace(size, i, k) < FramePlace(size, y, z)
  <1>1. /\ n \in Nat /\ g \in Nat /\ \A a \in 0..g : cut[a] \in 0..n /\ cut[a] \in Nat
        /\ \A a \in 0..g : \A b \in a..g : cut[a] + (b - a) <= cut[b]
    BY CutsGrow
  <1>2. inputs \in [1..n -> LegacyInputs]
    BY DEF Cutting
  <1>3. \A a \in 0..n : size[a] \in Nat
    BY <1>1, <1>2, SizesGrow
  <1>4. \A a \in 0..n : \A b \in a..n : size[a] + (b - a) <= size[b]
    BY <1>1, <1>2, SizesGrow
  <1>5. k \in 1..g /\ i \in 1..cut[g] /\ cut[k - 1] < i /\ i <= cut[k] /\ cut[g] \in 0..n
    BY <1>1 DEF Belongs
  <1>6. i \in 1..n /\ i - 1 \in 0..n /\ i \in 0..n /\ i \in (i - 1)..n /\ k \in 0..g /\ k - 1 \in 0..g
    BY <1>1, <1>5
  <1>7. size[i - 1] \in Nat /\ size[i] \in Nat /\ size[i - 1] + (i - (i - 1)) <= size[i]
    BY <1>3, <1>4, <1>6
  <1>8. size[i - 1] < size[i]
    BY <1>6, <1>7
  <1>9. ASSUME NEW x \in 1..g PROVE HeaderPlace(size, cut, x) \in Nat /\ HeaderPlace(size, cut, x) # FramePlace(size, i, k)
    <2>1. x - 1 \in 0..g /\ x \in Nat
      BY <1>1
    <2>2. cut[x - 1] \in 0..n
      BY <1>1, <2>1
    <2> DEFINE C == cut[x - 1]
               Z == size[C]
    <2>3. Z \in Nat /\ C \in 0..n /\ C \in Nat
      BY <1>1, <1>3, <2>2
    <2>4. CASE x <= k
      <3>1. k - 1 \in (x - 1)..g
        BY <1>1, <1>5, <2>4
      <3>2. cut[x - 1] + ((k - 1) - (x - 1)) <= cut[k - 1] /\ cut[k - 1] \in Nat
        BY <1>1, <1>6, <2>1, <3>1
      <3>3. C <= i - 1
        BY <1>1, <1>5, <2>3, <2>4, <3>2
      <3>4. i - 1 \in C..n
        BY <1>6, <2>3, <3>3
      <3>5. Z + ((i - 1) - C) <= size[i - 1]
        BY <1>4, <2>3, <3>4
      <3>6. Z <= size[i - 1]
        <4> HIDE DEF Z, C
        <4> QED
          BY <1>6, <1>7, <2>3, <3>3, <3>5
      <3> QED
        <4> HIDE DEF Z
        <4>1. HeaderPlace(size, cut, x) = DataStart + Z + (x - 1)
          BY DEF HeaderPlace, Z
        <4> QED
          BY <1>5, <1>7, <2>1, <2>3, <2>4, <3>6, <4>1 DEF FramePlace, DataStart
    <2>5. CASE k < x
      <3>1. x - 1 \in k..g
        BY <1>1, <1>5, <2>5
      <3>2. cut[k] + ((x - 1) - k) <= cut[x - 1] /\ cut[k] \in Nat
        BY <1>1, <1>6, <3>1
      <3>3. i <= C
        BY <1>1, <1>5, <2>3, <2>5, <3>2
      <3>4. C \in i..n
        BY <1>6, <2>3, <3>3
      <3>5. size[i] + (C - i) <= Z
        BY <1>4, <1>6, <3>4
      <3>6. size[i] <= Z
        <4> HIDE DEF Z, C
        <4> QED
          BY <1>6, <1>7, <2>3, <3>3, <3>5
      <3> QED
        <4> HIDE DEF Z
        <4>1. HeaderPlace(size, cut, x) = DataStart + Z + (x - 1)
          BY DEF HeaderPlace, Z
        <4> QED
          BY <1>5, <1>7, <1>8, <2>1, <2>3, <2>5, <3>6, <4>1 DEF FramePlace, DataStart
    <2> QED
      BY <1>5, <2>1, <2>4, <2>5
  <1>10. ASSUME NEW y, NEW z, Belongs(cut, g, y, z), i < y PROVE FramePlace(size, i, k) < FramePlace(size, y, z)
    <2>1. z \in 1..g /\ y \in 1..cut[g] /\ cut[z - 1] < y /\ y <= cut[z]
      BY <1>10 DEF Belongs
    <2>2. y - 1 \in 0..n /\ y - 1 \in i..n /\ y \in Nat /\ i \in 0..n
      BY <1>1, <1>5, <1>6, <1>10, <2>1
    <2>3. size[i] + ((y - 1) - i) <= size[y - 1] /\ size[y - 1] \in Nat
      BY <1>3, <1>4, <2>2
    <2>4. k <= z
      <3>1. SUFFICES ASSUME z < k PROVE FALSE
        BY <1>5, <2>1
      <3>2. z \in 0..g /\ k - 1 \in z..g /\ k - 1 \in 0..g
        BY <1>1, <1>5, <2>1, <3>1
      <3>3. cut[z] + ((k - 1) - z) <= cut[k - 1] /\ cut[z] \in Nat /\ cut[k - 1] \in Nat
        BY <1>1, <3>2
      <3> QED
        BY <1>5, <1>6, <1>10, <2>1, <2>2, <3>1, <3>3
    <2> QED
      BY <1>5, <1>6, <1>7, <1>8, <1>10, <2>1, <2>2, <2>3, <2>4 DEF FramePlace, DataStart
  <1>11. FramePlace(size, i, k) \in Nat
    BY <1>5, <1>7 DEF FramePlace, DataStart
  <1> QED
    BY <1>7, <1>8, <1>9, <1>10, <1>11

\* Later headers lie further on.
LEMMA HeadersApart ==
  ASSUME NEW n, NEW inputs, NEW g, NEW cut, Cutting(n, inputs, g, cut), NEW size, size = Sizes(inputs, n),
         NEW x \in 1..g, NEW y \in 1..g, x < y
  PROVE  HeaderPlace(size, cut, x) < HeaderPlace(size, cut, y)
  <1>1. /\ n \in Nat /\ g \in Nat /\ \A a \in 0..g : cut[a] \in 0..n /\ cut[a] \in Nat
        /\ \A a \in 0..g : \A b \in a..g : cut[a] + (b - a) <= cut[b]
    BY CutsGrow
  <1>2. inputs \in [1..n -> LegacyInputs]
    BY DEF Cutting
  <1>3. \A a \in 0..n : size[a] \in Nat
    BY <1>1, <1>2, SizesGrow
  <1>4. \A a \in 0..n : \A b \in a..n : size[a] + (b - a) <= size[b]
    BY <1>1, <1>2, SizesGrow
  <1>5. x - 1 \in 0..g /\ y - 1 \in 0..g /\ y - 1 \in (x - 1)..g /\ x \in Nat /\ y \in Nat
    BY <1>1
  <1> DEFINE A == cut[x - 1]
             B == cut[y - 1]
  <1>6. A \in 0..n /\ B \in 0..n /\ A \in Nat /\ B \in Nat /\ A + ((y - 1) - (x - 1)) <= B
    BY <1>1, <1>5
  <1>7. HeaderPlace(size, cut, x) = DataStart + size[A] + (x - 1) /\ HeaderPlace(size, cut, y) = DataStart + size[B] + (y - 1)
    BY DEF HeaderPlace
  <1> HIDE DEF A, B
  <1>8. B \in A..n
    BY <1>1, <1>5, <1>6
  <1>9. size[A] \in Nat /\ size[B] \in Nat /\ size[A] + (B - A) <= size[B]
    BY <1>3, <1>4, <1>6, <1>8
  <1> QED
    BY <1>5, <1>6, <1>7, <1>9 DEF DataStart

\* The place of a header, and of the end of the last segment, is an offset.
LEMMA HeaderNat ==
  ASSUME NEW n, NEW inputs, NEW g, NEW cut, Cutting(n, inputs, g, cut), NEW x \in 1..(g + 1)
  PROVE  /\ HeaderPlace(Sizes(inputs, n), cut, x) \in Nat /\ DataStart <= HeaderPlace(Sizes(inputs, n), cut, x)
         /\ cut[x - 1] \in 0..n /\ Sizes(inputs, n)[cut[x - 1]] \in Nat
  <1>1. n \in Nat /\ g \in Nat /\ \A a \in 0..g : cut[a] \in 0..n
    BY CutsGrow
  <1>2. inputs \in [1..n -> LegacyInputs]
    BY DEF Cutting
  <1>3. \A a \in 0..n : Sizes(inputs, n)[a] \in Nat
    BY <1>1, <1>2, SizesGrow
  <1>4. x - 1 \in 0..g /\ x - 1 \in Nat
    BY <1>1
  <1>5. cut[x - 1] \in 0..n
    BY <1>1, <1>4
  <1>6. Sizes(inputs, n)[cut[x - 1]] \in Nat
    BY <1>3, <1>5
  <1> DEFINE Z == Sizes(inputs, n)[cut[x - 1]]
  <1>7. HeaderPlace(Sizes(inputs, n), cut, x) = DataStart + Z + (x - 1)
    BY DEF HeaderPlace
  <1> HIDE DEF Z
  <1>8. Z \in Nat
    BY <1>6 DEF Z
  <1>9. HeaderPlace(Sizes(inputs, n), cut, x) \in Nat /\ DataStart <= HeaderPlace(Sizes(inputs, n), cut, x)
    BY <1>4, <1>7, <1>8 DEF DataStart
  <1> QED
    BY <1>5, <1>6, <1>9

\* The file d has the headers and the batches of an old release, and nothing else.
LegacyFile(d, inputs, n, size, cut, g) ==
    /\ \A k \in 1..g : /\ HeaderPlace(size, cut, k) \in DOMAIN d
                       /\ d[HeaderPlace(size, cut, k)] = LegacyHeader(size, cut, k)
    /\ \A i, k : Belongs(cut, g, i, k) => /\ FramePlace(size, i, k) \in DOMAIN d
                                          /\ d[FramePlace(size, i, k)] = Frame(i, inputs[i])
    /\ \A o \in DOMAIN d : \/ \E k \in 1..g : o = HeaderPlace(size, cut, k)
                           \/ \E i, k : Belongs(cut, g, i, k) /\ o = FramePlace(size, i, k)

\* The database an old release leaves is such a file.
LEMMA LegacyHolds ==
  ASSUME NEW n, NEW inputs, NEW g, NEW cut, Cutting(n, inputs, g, cut)
  PROVE  LegacyFile(LegacyDb(LegacyFrames(inputs, n), Sizes(inputs, n), cut, g), inputs, n, Sizes(inputs, n), cut, g)
  <1> DEFINE size == Sizes(inputs, n)
             frames == LegacyFrames(inputs, n)
             hi == [k \in 1..g |-> LegacyHeader(size, cut, k)]
             ha == [k \in 1..g |-> HeaderPlace(size, cut, k)]
             fi == [i \in 1..cut[g] |-> frames[i]]
             fa == [i \in 1..cut[g] |-> FramePlace(size, i, Owner(cut, g, i))]
             H == Placed(hi, ha)
             F == Placed(fi, fa)
             d == LegacyDb(frames, size, cut, g)
  <1>1. d = Over(H, F)
    BY DEF LegacyDb, LegacyHeader, HeaderPlace, FramePlace
  <1>2. DOMAIN d = DOMAIN H \cup DOMAIN F /\ (\A o \in DOMAIN H : d[o] = H[o])
        /\ (\A o \in DOMAIN F : o \notin DOMAIN H => d[o] = F[o])
    <2> HIDE DEF d, H, F
    <2> QED
      BY <1>1 DEF Over
  <1>3. /\ n \in Nat /\ g \in Nat /\ cut[g] \in 0..n
    BY CutsGrow
  <1>4. ASSUME NEW i \in 1..cut[g] PROVE Belongs(cut, g, i, Owner(cut, g, i))
    BY OwnerIs DEF Belongs
  <1>5. ASSUME NEW i, NEW k, Belongs(cut, g, i, k) PROVE i \in 1..cut[g] /\ k = Owner(cut, g, i)
    <2>1. k \in 1..g /\ i \in 1..cut[g] /\ cut[k - 1] < i /\ i <= cut[k]
      BY <1>5 DEF Belongs
    <2> QED
      BY <2>1, OwnerIs
  <1>6. ASSUME NEW x \in 1..g, NEW y \in 1..g, HeaderPlace(size, cut, x) = HeaderPlace(size, cut, y) PROVE x = y
    <2>1. x \in Nat /\ y \in Nat
      BY <1>3
    <2>2. CASE x < y
      <3>1. HeaderPlace(size, cut, x) < HeaderPlace(size, cut, y)
        BY <2>2, HeadersApart
      <3>2. HeaderPlace(size, cut, x) \in Int
        BY <1>3, HeaderNat
      <3> QED
        BY <1>6, <3>1, <3>2
    <2>3. CASE y < x
      <3>1. HeaderPlace(size, cut, y) < HeaderPlace(size, cut, x)
        BY <2>3, HeadersApart
      <3>2. HeaderPlace(size, cut, x) \in Int
        BY <1>3, HeaderNat
      <3> QED
        BY <1>6, <3>1, <3>2
    <2> QED
      BY <2>1, <2>2, <2>3
  <1>7. ASSUME NEW x \in 1..cut[g], NEW y \in 1..cut[g], fa[x] = fa[y] PROVE x = y
    <2> DEFINE X == FramePlace(size, x, Owner(cut, g, x))
               Y == FramePlace(size, y, Owner(cut, g, y))
    <2>1. Belongs(cut, g, x, Owner(cut, g, x)) /\ Belongs(cut, g, y, Owner(cut, g, y))
      BY <1>4
    <2>2. X \in Nat /\ Y \in Nat
      BY <2>1, PlacesApart
    <2>3. x < y => X < Y
      BY <2>1, PlacesApart
    <2>4. y < x => Y < X
      BY <2>1, PlacesApart
    <2>5. X = Y
      BY <1>7
    <2>6. x \in Nat /\ y \in Nat
      BY <1>3
    <2> HIDE DEF X, Y
    <2> QED
      BY <2>2, <2>3, <2>4, <2>5, <2>6
  <1>8. ASSUME NEW k \in 1..g PROVE HeaderPlace(size, cut, k) \in DOMAIN H /\ H[HeaderPlace(size, cut, k)] = LegacyHeader(size, cut, k)
    <2>1. k \in DOMAIN hi /\ \A x, y \in DOMAIN hi : ha[x] = ha[y] => x = y
      BY <1>6
    <2>2. ha[k] \in DOMAIN H /\ H[ha[k]] = hi[k]
      <3> HIDE DEF ha, hi
      <3> QED
        BY <2>1, PlacedAt
    <2> QED
      BY <2>2
  <1>9. ASSUME NEW i \in 1..cut[g] PROVE fa[i] \in DOMAIN F /\ F[fa[i]] = Frame(i, inputs[i])
    <2>1. i \in DOMAIN fi /\ \A x, y \in DOMAIN fi : fa[x] = fa[y] => x = y
      BY <1>7
    <2>2. fa[i] \in DOMAIN F /\ F[fa[i]] = fi[i]
      <3> HIDE DEF fa, fi
      <3> QED
        BY <2>1, PlacedAt
    <2>3. i \in 1..n
      BY <1>3
    <2>4. fi[i] = Frame(i, inputs[i])
      BY <2>3 DEF LegacyFrames
    <2> QED
      BY <2>2, <2>4
  <1>10. ASSUME NEW o \in DOMAIN H PROVE \E k \in 1..g : o = HeaderPlace(size, cut, k)
    <2>1. \E k \in DOMAIN hi : o = ha[k]
      <3> HIDE DEF ha, hi
      <3> QED
        BY PlacedOnly
    <2> QED
      BY <2>1
  <1>11. ASSUME NEW o \in DOMAIN F PROVE \E i \in 1..cut[g] : o = fa[i]
    <2>1. \E k \in DOMAIN fi : o = fa[k]
      <3> HIDE DEF fa, fi
      <3> QED
        BY PlacedOnly
    <2> QED
      BY <2>1
  <1>12. ASSUME NEW k \in 1..g PROVE HeaderPlace(size, cut, k) \in DOMAIN d /\ d[HeaderPlace(size, cut, k)] = LegacyHeader(size, cut, k)
    <2> HIDE DEF d, H, F
    <2> QED
      BY <1>2, <1>8
  <1>13. ASSUME NEW i, NEW k, Belongs(cut, g, i, k)
         PROVE FramePlace(size, i, k) \in DOMAIN d /\ d[FramePlace(size, i, k)] = Frame(i, inputs[i])
    <2>1. i \in 1..cut[g] /\ fa[i] = FramePlace(size, i, k)
      BY <1>5, <1>13
    <2>2. FramePlace(size, i, k) \in DOMAIN F /\ F[FramePlace(size, i, k)] = Frame(i, inputs[i])
      <3> HIDE DEF F, fa
      <3> QED
        BY <2>1, <1>9
    <2>3. FramePlace(size, i, k) \notin DOMAIN H
      <3>1. \A x \in 1..g : HeaderPlace(size, cut, x) # FramePlace(size, i, k)
        BY <1>13, PlacesApart
      <3> HIDE DEF H, size
      <3> QED
        BY <3>1, <1>10
    <2> HIDE DEF d, H, F, size
    <2> QED
      BY <1>2, <2>2, <2>3
  <1>14. ASSUME NEW o \in DOMAIN d
         PROVE  \/ \E k \in 1..g : o = HeaderPlace(size, cut, k)
                \/ \E i, k : Belongs(cut, g, i, k) /\ o = FramePlace(size, i, k)
    <2>1. o \in DOMAIN H \/ o \in DOMAIN F
      <3> HIDE DEF d, H, F
      <3> QED
        BY <1>2
    <2>2. CASE o \in DOMAIN H
      BY <1>10, <2>2
    <2>3. CASE o \in DOMAIN F
      <3>1. PICK i \in 1..cut[g] : o = fa[i]
        BY <1>11, <2>3
      <3>2. o = FramePlace(size, i, Owner(cut, g, i)) /\ Belongs(cut, g, i, Owner(cut, g, i))
        BY <1>4, <3>1
      <3> QED
        BY <3>2
    <2> QED
      BY <2>1, <2>2, <2>3
  <1> HIDE DEF d, size
  <1>15. LegacyFile(d, inputs, n, size, cut, g)
    BY <1>12, <1>13, <1>14 DEF LegacyFile
  <1> QED
    BY <1>15 DEF d, size

\* The batches of a segment, and where they and the segments are.
LegacyPart(inputs, a, b) == [j \in 1..(b - a) |-> Frame(a + j, inputs[a + j])]
LegacyPlaces(size, a, b, k) == [j \in 1..((b - a) + 1) |-> FramePlace(size, a + j, k)]
LegacyStarts(size, cut, g) == [k \in 1..(g + 1) |-> HeaderPlace(size, cut, k)]

\* What an old release stores are batches.
LEMMA LegacyFrame ==
  ASSUME NEW n \in Nat, n <= SeqMax, NEW inputs, inputs \in [1..n -> LegacyInputs], NEW i \in 1..n
  PROVE  Frame(i, inputs[i]) \in FrameSet /\ Frame(i, inputs[i]).seq = i /\ FrameSize(Frame(i, inputs[i])) = Len(inputs[i])
  <1>1. i \in 1..SeqMax
    BY LimitAssumption
  <1>2. inputs[i] \in Inputs \cup LegacyInputs
    OBVIOUS
  <1> QED
    BY <1>1, <1>2 DEF Frame, FrameSet, FrameSize

\* A part of the batches is a sequence of them.
LEMMA LegacyParts ==
  ASSUME NEW n \in Nat, n <= SeqMax, NEW inputs, inputs \in [1..n -> LegacyInputs], NEW a \in 0..n, NEW b \in a..n
  PROVE  /\ LegacyPart(inputs, a, b) \in Seq(FrameSet) /\ Len(LegacyPart(inputs, a, b)) = b - a /\ b - a \in Nat
         /\ \A j \in 1..(b - a) : LegacyPart(inputs, a, b)[j] = Frame(a + j, inputs[a + j]) /\ a + j \in 1..n
  <1>1. b - a \in Nat /\ a \in Nat
    OBVIOUS
  <1>2. ASSUME NEW j \in 1..(b - a) PROVE a + j \in 1..n
    OBVIOUS
  <1>3. ASSUME NEW j \in 1..(b - a) PROVE Frame(a + j, inputs[a + j]) \in FrameSet
    <2>1. a + j \in 1..n
      BY <1>2
    <2> QED
      BY <2>1, LegacyFrame
  <1>4. LegacyPart(inputs, a, b) \in [1..(b - a) -> FrameSet]
    BY <1>3 DEF LegacyPart
  <1>5. LegacyPart(inputs, a, b) \in Seq(FrameSet) /\ Len(LegacyPart(inputs, a, b)) = b - a
    BY <1>1, <1>4
  <1> QED
    BY <1>1, <1>2, <1>5 DEF LegacyPart

\* The header of an old segment.
OldHeader(s, first, last, body) ==
    /\ s \in SegmentSet /\ s.size = 1 /\ s.first = first /\ s.last = last /\ s.body = body
    /\ s.minimum = 0 /\ s.maximum = TimeMax /\ s.previous = 0 /\ s.skip = 0 /\ s.ordered = FALSE

\* read_segment fills in what an old header does not say.
LEMMA LegacyHeaderIs ==
  ASSUME NEW first \in 1..SeqMax, NEW last \in 1..SeqMax, NEW body \in Nat
  PROVE  OldHeader(OldSegment(first, last, body), first, last, body)
  <1>1. 0 \in Times /\ TimeMax \in Times
    BY LimitAssumption DEF Times
  <1> DEFINE e == EncodeSegment(first, last, body, 0, TimeMax, 0, 0, FALSE)
  <1>2. /\ e \in SegmentSet /\ e.first = first /\ e.last = last /\ e.body = body
        /\ e.minimum = 0 /\ e.maximum = TimeMax /\ e.previous = 0 /\ e.skip = 0 /\ e.ordered = FALSE
    BY <1>1 DEF EncodeSegment, SegmentSet
  <1>3. OldSegment(first, last, body) = [e EXCEPT !.size = 1]
    BY DEF OldSegment
  <1> HIDE DEF e
  <1>4. /\ [e EXCEPT !.size = 1] \in SegmentSet
        /\ [e EXCEPT !.size = 1].size = 1 /\ [e EXCEPT !.size = 1].first = e.first
        /\ [e EXCEPT !.size = 1].last = e.last /\ [e EXCEPT !.size = 1].body = e.body
        /\ [e EXCEPT !.size = 1].minimum = e.minimum /\ [e EXCEPT !.size = 1].maximum = e.maximum
        /\ [e EXCEPT !.size = 1].previous = e.previous /\ [e EXCEPT !.size = 1].skip = e.skip
        /\ [e EXCEPT !.size = 1].ordered = e.ordered
    BY <1>2 DEF SegmentSet
  <1> QED
    BY <1>2, <1>3, <1>4 DEF OldHeader

\* What a segment of an old release is.
OldWhole(d, o, fr, at, first, last) ==
    /\ SegmentWhole(d, o, fr, at)
    /\ d[o].size = 1 /\ d[o].first = first /\ d[o].last = last /\ d[o].minimum = 0 /\ d[o].maximum = TimeMax
    /\ d[o].previous = 0 /\ d[o].skip = 0 /\ d[o].ordered = FALSE

\* Each of its segments is whole, and the next one starts where it ends.
LEMMA LegacySegment ==
  ASSUME NEW n, NEW inputs, NEW g, NEW cut, Cutting(n, inputs, g, cut), NEW size, size = Sizes(inputs, n),
         NEW d, LegacyFile(d, inputs, n, size, cut, g), NEW k \in 1..g
  PROVE  /\ OldWhole(d, HeaderPlace(size, cut, k), LegacyPart(inputs, cut[k - 1], cut[k]),
                     LegacyPlaces(size, cut[k - 1], cut[k], k), cut[k - 1] + 1, cut[k])
         /\ HeaderPlace(size, cut, k + 1) = After(HeaderPlace(size, cut, k), d[HeaderPlace(size, cut, k)])
  <1> DEFINE a == cut[k - 1]
             b == cut[k]
             o == HeaderPlace(size, cut, k)
             fr == LegacyPart(inputs, a, b)
             at == LegacyPlaces(size, a, b, k)
  <1>1. /\ n \in Nat /\ n <= SeqMax /\ g \in Nat /\ \A x \in 0..g : cut[x] \in 0..n /\ cut[x] \in Nat
    BY CutsGrow
  <1>2. inputs \in [1..n -> LegacyInputs]
    BY DEF Cutting
  <1>3. /\ \A x \in 0..n : size[x] \in Nat
        /\ \A x \in 1..n : size[x] = size[x - 1] + Len(inputs[x])
    BY <1>1, <1>2, SizesGrow
  <1>4. \A x \in 0..n : \A y \in x..n : size[x] + (y - x) <= size[y]
    BY <1>1, <1>2, SizesGrow
  <1>5. k - 1 \in 0..g /\ k \in 0..g /\ k \in 1..(g + 1) /\ k + 1 \in 1..(g + 1) /\ k \in Nat /\ g \in 0..g
    BY <1>1
  <1>6. a \in 0..n /\ b \in 0..n /\ a \in Nat /\ b \in Nat /\ a < b /\ b \in a..n
    <2>1. cut[k - 1] < cut[k]
      BY DEF Cutting
    <2>2. a \in 0..n /\ b \in 0..n /\ a \in Nat /\ b \in Nat
      BY <1>1, <1>5
    <2> QED
      BY <2>1, <2>2
  <1>7. b <= cut[g] /\ cut[g] \in Nat
    <2>1. \A x \in 0..g : \A y \in x..g : cut[x] + (y - x) <= cut[y]
      BY CutsGrow
    <2>2. g \in k..g
      BY <1>1
    <2>3. cut[k] + (g - k) <= cut[g] /\ cut[g] \in Nat
      BY <1>1, <1>5, <2>1, <2>2
    <2> QED
      BY <1>1, <1>5, <1>6, <2>3
  <1>8. size[a] \in Nat /\ size[b] \in Nat /\ size[a] + (b - a) <= size[b]
    BY <1>3, <1>4, <1>6
  <1>9. o \in DOMAIN d /\ d[o] = OldSegment(a + 1, b, size[b] - size[a])
    BY DEF LegacyFile, LegacyHeader
  <1>10. o \in Nat /\ o = DataStart + size[a] + (k - 1)
    <2>1. o \in Nat
      BY <1>5, HeaderNat
    <2> QED
      BY <2>1 DEF HeaderPlace
  <1>11. HeaderPlace(size, cut, k + 1) = DataStart + size[b] + k
    <2>1. (k + 1) - 1 = k
      BY <1>5
    <2> QED
      BY <2>1 DEF HeaderPlace
  <1>12. ASSUME NEW j \in 1..(b - a) PROVE Belongs(cut, g, a + j, k)
    BY <1>6, <1>7 DEF Belongs
  <1>13. /\ fr \in Seq(FrameSet) /\ Len(fr) = b - a /\ b - a \in Nat
         /\ \A j \in 1..(b - a) : fr[j] = Frame(a + j, inputs[a + j]) /\ a + j \in 1..n
    <2> HIDE DEF a, b
    <2> QED
      BY <1>1, <1>2, <1>6, LegacyParts
  <1>14. ASSUME NEW j \in 1..(b - a)
         PROVE  /\ FramePlace(size, a + j, k) \in DOMAIN d /\ d[FramePlace(size, a + j, k)] = Frame(a + j, inputs[a + j])
    <2>1. Belongs(cut, g, a + j, k)
      BY <1>12
    <2> HIDE DEF a, b
    <2> QED
      BY <2>1 DEF LegacyFile
  <1> HIDE DEF o, a, b
  <1>15. \A j \in 1..((b - a) + 1) : at[j] = FramePlace(size, a + j, k)
    BY DEF LegacyPlaces
  <1>16. ASSUME NEW j \in 1..((b - a) + 1)
         PROVE (a + j) - 1 \in 0..n /\ size[(a + j) - 1] \in Nat /\ FramePlace(size, a + j, k) = DataStart + size[(a + j) - 1] + k
               /\ FramePlace(size, a + j, k) \in Nat
    <2>1. (a + j) - 1 \in 0..n
      BY <1>1, <1>6
    <2>2. size[(a + j) - 1] \in Nat
      BY <1>3, <2>1
    <2>3. FramePlace(size, a + j, k) = DataStart + size[(a + j) - 1] + k
      BY DEF FramePlace
    <2> QED
      BY <1>5, <2>1, <2>2, <2>3 DEF DataStart
  <1>17. at \in [1..(Len(fr) + 1) -> Nat]
    BY <1>13, <1>16 DEF LegacyPlaces
  <1>18. a + 1 \in 1..SeqMax /\ b \in 1..SeqMax /\ size[b] - size[a] \in Nat
    BY <1>1, <1>6, <1>8, LimitAssumption
  <1>19. /\ d[o] \in SegmentSet /\ d[o].size = 1 /\ d[o].first = a + 1 /\ d[o].last = b /\ d[o].body = size[b] - size[a]
         /\ d[o].minimum = 0 /\ d[o].maximum = TimeMax /\ d[o].previous = 0 /\ d[o].skip = 0 /\ d[o].ordered = FALSE
    <2> DEFINE x == a + 1
               z == size[b] - size[a]
    <2>1. x \in 1..SeqMax /\ z \in Nat /\ d[o] = OldSegment(x, b, z)
      BY <1>9, <1>18
    <2> HIDE DEF x, z
    <2>2. OldHeader(d[o], x, b, z)
      BY <1>18, <2>1, LegacyHeaderIs
    <2> QED
      BY <2>2 DEF x, z, OldHeader
  <1>20. After(o, d[o]) = DataStart + size[b] + k
    BY <1>5, <1>8, <1>10, <1>19 DEF After, DataStart
  <1>21. at[1] = o + d[o].size
    <2>1. 1 \in 1..((b - a) + 1) /\ (a + 1) - 1 = a
      BY <1>6
    <2>2. at[1] = DataStart + size[(a + 1) - 1] + k
      BY <1>15, <1>16, <2>1
    <2> QED
      BY <1>5, <1>8, <1>10, <1>19, <2>1, <2>2 DEF DataStart
  <1>22. at[Len(fr) + 1] = After(o, d[o])
    <2>1. (b - a) + 1 \in 1..((b - a) + 1) /\ (a + ((b - a) + 1)) - 1 = b
      BY <1>6
    <2>2. at[(b - a) + 1] = DataStart + size[(a + ((b - a) + 1)) - 1] + k
      BY <1>15, <1>16, <2>1
    <2> QED
      BY <1>13, <1>20, <2>1, <2>2
  <1>23. ASSUME NEW j \in 1..Len(fr)
         PROVE  /\ at[j] \in DOMAIN d /\ d[at[j]] = fr[j] /\ fr[j].seq = d[o].first + (j - 1)
                /\ at[j + 1] = at[j] + FrameSize(fr[j])
    <2>1. j \in 1..(b - a) /\ j \in 1..((b - a) + 1) /\ j + 1 \in 1..((b - a) + 1) /\ a + j \in 1..n
          /\ (a + (j + 1)) - 1 = a + j
      <3>1. j \in 1..(b - a)
        BY <1>13
      <3>2. a + j \in 1..n
        BY <1>13, <3>1
      <3>3. j \in 1..((b - a) + 1) /\ j + 1 \in 1..((b - a) + 1) /\ (a + (j + 1)) - 1 = a + j
        BY <1>6, <3>1
      <3> QED
        BY <3>1, <3>2, <3>3
    <2>2. fr[j] = Frame(a + j, inputs[a + j]) /\ at[j] = FramePlace(size, a + j, k)
      BY <1>13, <1>15, <2>1
    <2>3. at[j] \in DOMAIN d /\ d[at[j]] = fr[j]
      BY <1>14, <2>1, <2>2
    <2>4. fr[j].seq = a + j /\ FrameSize(fr[j]) = Len(inputs[a + j])
      BY <1>1, <1>2, <2>1, <2>2, LegacyFrame
    <2>5. at[j + 1] = DataStart + size[(a + (j + 1)) - 1] + k
      BY <1>15, <1>16, <2>1
    <2>6. at[j] = DataStart + size[(a + j) - 1] + k /\ size[(a + j) - 1] \in Nat
      BY <1>15, <1>16, <2>1
    <2>7. size[a + j] = size[(a + j) - 1] + Len(inputs[a + j])
      BY <1>3, <2>1
    <2>8. Len(inputs[a + j]) \in Nat
      <3>1. inputs[a + j] \in Inputs \cup LegacyInputs
        BY <1>2, <2>1
      <3>2. inputs[a + j] \in Seq(Records)
        BY <3>1, ReaderAssumption
      <3> QED
        BY <3>2
    <2>9. at[j + 1] = at[j] + FrameSize(fr[j])
      <3> DEFINE u == size[(a + j) - 1]
                 v == Len(inputs[a + j])
      <3>1. u \in Nat /\ v \in Nat /\ at[j] = DataStart + u + k /\ at[j + 1] = DataStart + (u + v) + k /\ FrameSize(fr[j]) = v
        BY <2>1, <2>4, <2>5, <2>6, <2>7, <2>8
      <3> HIDE DEF u, v
      <3> QED
        BY <1>5, <3>1 DEF DataStart
    <2>10. fr[j].seq = d[o].first + (j - 1)
      BY <1>6, <1>19, <2>1, <2>4
    <2> QED
      BY <2>3, <2>9, <2>10
  <1> HIDE DEF fr, at
  <1>24. IsFrames(d, o + d[o].size, After(o, d[o]), d[o].first, fr, at)
    BY <1>13, <1>17, <1>21, <1>22, <1>23 DEF IsFrames
  <1>25. fr # <<>> /\ d[o].last = d[o].first + (Len(fr) - 1) /\ d[o].minimum <= d[o].maximum
    <2>1. Len(fr) # 0
      BY <1>6, <1>13
    <2>2. fr # <<>>
      BY <2>1
    <2> QED
      BY <1>6, <1>13, <1>19, <2>2, LimitAssumption
  <1>26. SegmentWhole(d, o, fr, at)
    BY <1>9, <1>19, <1>24, <1>25 DEF SegmentWhole
  <1>27. OldWhole(d, o, fr, at, a + 1, b)
    BY <1>19, <1>26 DEF OldWhole
  <1>28. HeaderPlace(size, cut, k + 1) = After(o, d[o])
    BY <1>11, <1>20
  <1> QED
    BY <1>27, <1>28 DEF fr, at, o, a, b

\* The segments an old release leaves.
LegacyTime(inputs, cut, g) == IF g = 0 THEN 0 ELSE LastTimeOf(Frame(cut[g], inputs[cut[g]]))
LegacyBatches(inputs, cut, g) == [k \in 1..g |-> LegacyPart(inputs, cut[k - 1], cut[k])]
LegacyOffsets(size, cut, g) == [k \in 1..g |-> LegacyPlaces(size, cut[k - 1], cut[k], k)]

\* They follow each other.
LEMMA LegacyLayout ==
  ASSUME NEW n, NEW inputs, NEW g, NEW cut, Cutting(n, inputs, g, cut), NEW size, size = Sizes(inputs, n),
         NEW d, LegacyFile(d, inputs, n, size, cut, g)
  PROVE  /\ Layout(d, DataStart, HeaderPlace(size, cut, g + 1), g, LegacyStarts(size, cut, g),
                   LegacyBatches(inputs, cut, g), LegacyOffsets(size, cut, g))
         /\ \A k \in 1..g : LegacyStarts(size, cut, g)[k] = HeaderPlace(size, cut, k)
  <1> DEFINE st == LegacyStarts(size, cut, g)
             sf == LegacyBatches(inputs, cut, g)
             sa == LegacyOffsets(size, cut, g)
  <1>1. n \in Nat /\ g \in Nat /\ \A x \in 0..g : cut[x] \in 0..n /\ cut[x] \in Nat
    BY CutsGrow
  <1>2. ASSUME NEW k \in 1..(g + 1) PROVE st[k] = HeaderPlace(size, cut, k) /\ HeaderPlace(size, cut, k) \in Nat
    BY HeaderNat DEF LegacyStarts
  <1>3. st \in [1..(g + 1) -> Nat]
    BY <1>2 DEF LegacyStarts
  <1>4. st[1] = DataStart
    <2>1. 1 \in 1..(g + 1) /\ 1 - 1 = 0
      BY <1>1
    <2>2. cut[0] = 0
      BY DEF Cutting
    <2>3. size[0] = 0
      <3>1. inputs \in [1..n -> LegacyInputs]
        BY DEF Cutting
      <3> QED
        BY <1>1, <3>1, SizesGrow
    <2>4. HeaderPlace(size, cut, 1) = DataStart + 0 + 0
      BY <2>1, <2>2, <2>3 DEF HeaderPlace
    <2> QED
      BY <1>2, <2>1, <2>4 DEF DataStart
  <1>5. g + 1 \in 1..(g + 1) /\ st[g + 1] = HeaderPlace(size, cut, g + 1)
    BY <1>1, <1>2
  <1>6. ASSUME NEW k \in 1..g
        PROVE /\ SegmentWhole(d, st[k], sf[k], sa[k]) /\ st[k + 1] = After(st[k], d[st[k]])
              /\ d[st[k]].first = cut[k - 1] + 1 /\ d[st[k]].last = cut[k]
    <2>1. k \in 1..(g + 1) /\ k + 1 \in 1..(g + 1)
      BY <1>1
    <2>2. st[k] = HeaderPlace(size, cut, k) /\ st[k + 1] = HeaderPlace(size, cut, k + 1)
      BY <1>2, <2>1
    <2>3. sf[k] = LegacyPart(inputs, cut[k - 1], cut[k]) /\ sa[k] = LegacyPlaces(size, cut[k - 1], cut[k], k)
      BY DEF LegacyBatches, LegacyOffsets
    <2>4. OldWhole(d, st[k], sf[k], sa[k], cut[k - 1] + 1, cut[k]) /\ HeaderPlace(size, cut, k + 1) = After(st[k], d[st[k]])
      BY <2>2, <2>3, LegacySegment
    <2> QED
      BY <2>2, <2>4 DEF OldWhole
  <1>7. ASSUME NEW k \in 1..(g - 1) PROVE d[st[k]].last < d[st[k + 1]].first
    <2>1. k \in 1..g /\ k + 1 \in 1..g /\ (k + 1) - 1 = k /\ k \in 0..g
      BY <1>1
    <2>2. d[st[k]].last = cut[k] /\ d[st[k + 1]].first = cut[(k + 1) - 1] + 1 /\ cut[k] \in Nat
      BY <1>1, <1>6, <2>1
    <2> QED
      BY <2>1, <2>2
  <1> HIDE DEF st, sf, sa
  <1>8. Layout(d, DataStart, HeaderPlace(size, cut, g + 1), g, st, sf, sa)
    BY <1>1, <1>3, <1>4, <1>5, <1>6, <1>7 DEF Layout
  <1>9. ASSUME NEW k \in 1..g PROVE st[k] = HeaderPlace(size, cut, k)
    <2>1. k \in 1..(g + 1)
      BY <1>1
    <2> QED
      BY <2>1, <1>2
  <1> QED
    BY <1>8, <1>9 DEF st, sf, sa

\* Everything in the file is a batch or a header before its end.
LEMMA LegacyCells ==
  ASSUME NEW n, NEW inputs, NEW g, NEW cut, Cutting(n, inputs, g, cut), NEW size, size = Sizes(inputs, n),
         NEW d, LegacyFile(d, inputs, n, size, cut, g)
  PROVE  Cells(d) /\ \A o \in DOMAIN d : DataStart <= o /\ o < HeaderPlace(size, cut, g + 1)
  <1> DEFINE st == LegacyStarts(size, cut, g)
             end == HeaderPlace(size, cut, g + 1)
  <1>1. n \in Nat /\ n <= SeqMax /\ g \in Nat
    BY CutsGrow
  <1>2. inputs \in [1..n -> LegacyInputs]
    BY DEF Cutting
  <1>3. ASSUME NEW k \in 1..g PROVE HeaderPlace(size, cut, k) < HeaderPlace(size, cut, k + 1) /\ HeaderPlace(size, cut, k + 1) <= end
                                    /\ HeaderPlace(size, cut, k) \in Nat /\ HeaderPlace(size, cut, k + 1) \in Nat /\ end \in Nat
                                    /\ DataStart <= HeaderPlace(size, cut, k)
                                    /\ d[HeaderPlace(size, cut, k)] \in SegmentSet
    <2>1. k \in 1..(g + 1) /\ k + 1 \in 1..(g + 1) /\ g + 1 \in (k + 1)..(g + 1) /\ k + 1 \in k..(g + 1) /\ g + 1 \in 1..(g + 1)
      BY <1>1
    <2>2. Layout(d, DataStart, end, g, st, LegacyBatches(inputs, cut, g), LegacyOffsets(size, cut, g))
      BY LegacyLayout
    <2>3. st[k] = HeaderPlace(size, cut, k) /\ st[k + 1] = HeaderPlace(size, cut, k + 1) /\ st[g + 1] = end
      BY <2>1 DEF LegacyStarts
    <2>4. st[k] \in Nat /\ st[k + 1] \in Nat /\ st[g + 1] \in Nat
      BY <2>1, <2>2, LayoutFacts
    <2> HIDE DEF st, end
    <2>5. st[k] + 2 * ((k + 1) - k) <= st[k + 1] /\ DataStart <= st[k]
      BY <2>1, <2>2, LayoutGrow
    <2>6. st[k + 1] <= end
      BY <2>1, <2>2, LayoutGrow
    <2>7. d[st[k]] \in SegmentSet
      BY <2>2 DEF Layout, SegmentWhole
    <2> QED
      BY <2>1, <2>3, <2>4, <2>5, <2>6, <2>7
  <1>4. ASSUME NEW o \in DOMAIN d PROVE o \in Nat /\ d[o] \in FrameSet \cup SegmentSet /\ DataStart <= o /\ o < end
    <2>1. CASE \E k \in 1..g : o = HeaderPlace(size, cut, k)
      <3>1. PICK k \in 1..g : o = HeaderPlace(size, cut, k)
        BY <2>1
      <3>2. o < HeaderPlace(size, cut, k + 1) /\ HeaderPlace(size, cut, k + 1) <= end
                                    /\ o \in Nat /\ HeaderPlace(size, cut, k + 1) \in Nat /\ end \in Nat
                                    /\ DataStart <= o
                                    /\ d[o] \in SegmentSet
        BY <1>3, <3>1
      <3> HIDE DEF end
      <3> QED
        BY <3>2
    <2>2. CASE \E i, k : Belongs(cut, g, i, k) /\ o = FramePlace(size, i, k)
      <3>1. PICK i, k : Belongs(cut, g, i, k) /\ o = FramePlace(size, i, k)
        BY <2>2
      <3>2. k \in 1..g /\ k \in Nat /\ i \in 1..cut[g] /\ i <= cut[k] /\ k \in 0..g /\ g \in 0..g
        BY <1>1, <3>1 DEF Belongs
      <3>3. o \in Nat /\ size[i - 1] \in Nat /\ size[i] \in Nat /\ size[i - 1] < size[i]
        BY <3>1, PlacesApart
      <3>4. cut[k] \in 0..n /\ cut[g] \in 0..n
        BY <3>2, CutsGrow
      <3>5. i \in 0..n /\ i \in 1..n /\ cut[k] \in i..n
        BY <1>1, <3>2, <3>4
      <3>6. size[i] + (cut[k] - i) <= size[cut[k]] /\ size[cut[k]] \in Nat
        BY <1>1, <1>2, <3>4, <3>5, SizesGrow
      <3>7. size[i] <= size[cut[k]]
        BY <3>2, <3>3, <3>4, <3>5, <3>6
      <3>8. HeaderPlace(size, cut, k + 1) = DataStart + size[cut[k]] + k
        <4>1. (k + 1) - 1 = k
          BY <3>2
        <4> QED
          BY <4>1 DEF HeaderPlace
      <3>9. o = DataStart + size[i - 1] + k
        BY <3>1 DEF FramePlace
      <3>10. DataStart <= o /\ o < HeaderPlace(size, cut, k + 1)
        BY <3>2, <3>3, <3>6, <3>7, <3>8, <3>9 DEF DataStart
      <3>11. HeaderPlace(size, cut, k + 1) <= end /\ HeaderPlace(size, cut, k + 1) \in Nat /\ end \in Nat
        BY <1>3, <3>2
      <3>12. d[o] = Frame(i, inputs[i])
        BY <3>1 DEF LegacyFile
      <3>13. d[o] \in FrameSet
        BY <1>1, <1>2, <3>5, <3>12, LegacyFrame
      <3> HIDE DEF end
      <3> QED
        BY <3>3, <3>10, <3>11, <3>13
    <2> QED
      BY <2>1, <2>2 DEF LegacyFile
  <1> QED
    BY <1>4 DEF Cells

\* They are segments as an open expects them.
LEMMA LegacySegments ==
  ASSUME NEW n, NEW inputs, NEW g, NEW cut, Cutting(n, inputs, g, cut), NEW size, size = Sizes(inputs, n),
         NEW d, LegacyFile(d, inputs, n, size, cut, g), HeaderPlace(size, cut, g + 1) <= DbCapacity
  PROVE  Segments(d, HeaderPlace(size, cut, g + 1), g, cut[g], FALSE, LegacyTime(inputs, cut, g),
                  LegacyStarts(size, cut, g), LegacyBatches(inputs, cut, g), LegacyOffsets(size, cut, g))
  <1> DEFINE st == LegacyStarts(size, cut, g)
             sf == LegacyBatches(inputs, cut, g)
             sa == LegacyOffsets(size, cut, g)
             end == HeaderPlace(size, cut, g + 1)
             time == LegacyTime(inputs, cut, g)
  <1>1. n \in Nat /\ n <= SeqMax /\ g \in Nat /\ \A x \in 0..g : cut[x] \in 0..n /\ cut[x] \in Nat
    BY CutsGrow
  <1>2. inputs \in [1..n -> LegacyInputs]
    BY DEF Cutting
  <1>3. Layout(d, DataStart, end, g, st, sf, sa) /\ \A k \in 1..g : st[k] = HeaderPlace(size, cut, k)
    BY LegacyLayout
  <1>4. Cells(d) /\ \A o \in DOMAIN d : DataStart <= o /\ o < end
    BY LegacyCells
  <1>5. ASSUME NEW k \in 1..g
        PROVE  /\ d[st[k]].first = cut[k - 1] + 1 /\ d[st[k]].last = cut[k]
               /\ d[st[k]].size = 1 /\ d[st[k]].minimum = 0 /\ d[st[k]].maximum = TimeMax
               /\ d[st[k]].previous = 0 /\ d[st[k]].skip = 0 /\ d[st[k]].ordered = FALSE
    <2>1. OldWhole(d, HeaderPlace(size, cut, k), LegacyPart(inputs, cut[k - 1], cut[k]),
                     LegacyPlaces(size, cut[k - 1], cut[k], k), cut[k - 1] + 1, cut[k])
      BY LegacySegment
    <2>2. st[k] = HeaderPlace(size, cut, k)
      BY <1>3
    <2> HIDE DEF st
    <2> QED
      BY <2>1, <2>2 DEF OldWhole
  <1>6. ASSUME NEW k \in 1..g
        PROVE  /\ cut[k - 1] \in 0..n /\ cut[k] \in 0..n /\ cut[k - 1] < cut[k]
               /\ sf[k] \in Seq(FrameSet) /\ Len(sf[k]) = cut[k] - cut[k - 1]
               /\ \A j \in 1..(cut[k] - cut[k - 1]) : sf[k][j] = Frame(cut[k - 1] + j, inputs[cut[k - 1] + j])
    <2>1. k - 1 \in 0..g /\ k \in 0..g
      BY <1>1
    <2>2. cut[k - 1] \in 0..n /\ cut[k] \in 0..n /\ cut[k - 1] < cut[k]
      BY <1>1, <2>1 DEF Cutting
    <2>3. sf[k] = LegacyPart(inputs, cut[k - 1], cut[k])
      BY DEF LegacyBatches
    <2> DEFINE a == cut[k - 1]
               b == cut[k]
    <2>4. a \in 0..n /\ b \in a..n
      BY <2>2, <1>1
    <2>5. LegacyPart(inputs, a, b) \in Seq(FrameSet) /\ Len(LegacyPart(inputs, a, b)) = b - a
          /\ \A j \in 1..(b - a) : LegacyPart(inputs, a, b)[j] = Frame(a + j, inputs[a + j])
      <3> HIDE DEF a, b
      <3> QED
        BY <1>1, <1>2, <2>4, LegacyParts
    <2> QED
      BY <2>2, <2>3, <2>5
  <1> HIDE DEF st, sf, sa, end
  <1>51. \A k \in 1..g : d[st[k]].size = 1 /\ d[st[k]].previous = 0 /\ d[st[k]].skip = 0
    BY <1>5
  <1>52. \A k \in 1..g : d[st[k]].minimum = 0 /\ d[st[k]].maximum = TimeMax
    BY <1>5
  <1>7. Linked(d, g, st)
    <2> SUFFICES ASSUME NEW k \in 1..g
                 PROVE  d[st[k]].size # 2 /\ d[st[k]].previous = 0 /\ d[st[k]].skip = 0
      BY DEF Linked
    <2> QED
      BY <1>51
  <1>8. TimesKept(d, g, st, sf)
    <2> SUFFICES ASSUME NEW k \in 1..g PROVE HeaderTimes(d[st[k]], sf[k])
      BY DEF TimesKept
    <2>1. ASSUME NEW i \in 1..Len(sf[k]), NEW t \in TimesOf(sf[k][i]) PROVE d[st[k]].minimum <= t /\ t <= d[st[k]].maximum
      <3>1. sf[k][i] \in FrameSet
        BY <1>6
      <3>2. t \in Times
        BY <2>1, <3>1, EndTimes
      <3>3. t \in Nat /\ t <= TimeMax
        BY <3>2, LimitAssumption DEF Times
      <3> QED
        BY <1>52, <3>3
    <2> QED
      BY <1>5, <2>1 DEF HeaderTimes
  <1>9. g \in 0..g /\ cut[g] \in 0..n
    BY <1>1
  <1>10. cut[g] \in 0..SeqMax
    BY <1>1, <1>9, LimitAssumption
  <1>11. LastOf(d, st, g) = cut[g] /\ Numbered(d, st, g)
    <2>1. ASSUME NEW k \in 0..g PROVE LastOf(d, st, k) = cut[k]
      <3>1. CASE k = 0
        BY <3>1 DEF LastOf, Cutting
      <3>2. CASE k # 0
        <4>1. k \in 1..g
          BY <1>1, <3>2
        <4> QED
          BY <1>5, <3>2, <4>1 DEF LastOf
      <3> QED
        BY <3>1, <3>2
    <2>2. ASSUME NEW k \in 1..g PROVE d[st[k]].first = LastOf(d, st, k - 1) + 1
      <3>1. k - 1 \in 0..g
        BY <1>1
      <3>2. LastOf(d, st, k - 1) = cut[k - 1]
        BY <2>1, <3>1
      <3> QED
        BY <1>5, <3>2
    <2> QED
      BY <1>9, <2>1, <2>2 DEF Numbered
  <1>12. time \in Times /\ (g # 0 => time = LastTimeOf(sf[g][Len(sf[g])]))
    <2>1. CASE g = 0
      BY <2>1, LimitAssumption DEF LegacyTime, Times
    <2>2. CASE g # 0
      <3>1. g \in 1..g
        BY <1>1, <2>2
      <3> DEFINE a == cut[g - 1]
                 b == cut[g]
      <3>2. a \in 0..n /\ b \in 0..n /\ a < b /\ Len(sf[g]) = b - a /\ \A j \in 1..(b - a) : sf[g][j] = Frame(a + j, inputs[a + j])
        BY <1>6, <3>1
      <3>3. time = LastTimeOf(Frame(b, inputs[b]))
        BY <2>2 DEF LegacyTime
      <3> HIDE DEF a, b, time
      <3>4. b - a \in 1..(b - a) /\ a + (b - a) = b /\ b \in 1..n
        BY <1>1, <3>2
      <3>5. sf[g][Len(sf[g])] = Frame(b, inputs[b])
        BY <3>2, <3>4
      <3>6. Frame(b, inputs[b]) \in FrameSet
        BY <1>1, <1>2, <3>4, LegacyFrame
      <3> QED
        BY <3>3, <3>5, <3>6, FrameFacts
    <2> QED
      BY <2>1, <2>2
  <1>13. end <= DbCapacity
    BY DEF end
  <1> HIDE DEF time
  <1>14. Segments(d, end, g, cut[g], FALSE, time, st, sf, sa)
    BY <1>3, <1>4, <1>7, <1>8, <1>10, <1>11, <1>12, <1>13 DEF Segments
  <1> QED
    BY <1>14 DEF end, time, st, sf, sa

\* Where the batches of the log are.
LogPlace(size, last, i) == WalStart + size[i - 1] - size[last]
LegacyLogPlaces(size, last, n) == [j \in 1..((n - last) + 1) |-> LogPlace(size, last, last + j)]

\* The log an old release leaves.
LEMMA LegacyLog ==
  ASSUME NEW n \in Nat, n <= SeqMax, NEW inputs, inputs \in [1..n -> LegacyInputs], NEW last \in 0..n,
         NEW w, w = LegacyWal(LegacyFrames(inputs, n), Sizes(inputs, n), n, last), WalEnd(w) <= WalCapacity
  PROVE  Log(w, LogPlace(Sizes(inputs, n), last, n + 1), last, LegacyPart(inputs, last, n),
             LegacyLogPlaces(Sizes(inputs, n), last, n))
  <1> DEFINE size == Sizes(inputs, n)
             frames == LegacyFrames(inputs, n)
             items == [i \in (last + 1)..n |-> frames[i]]
             at == [i \in (last + 1)..n |-> LogPlace(size, last, i)]
             wf == LegacyPart(inputs, last, n)
             wa == LegacyLogPlaces(size, last, n)
             end == LogPlace(size, last, n + 1)
  <1>1. w = Placed(items, at)
    BY DEF LegacyWal, LogPlace
  <1>2. \A x \in 0..n : size[x] \in Nat
    BY SizesGrow
  <1>3. \A x \in 1..n : size[x] = size[x - 1] + Len(inputs[x])
    BY SizesGrow
  <1>4. \A x \in 0..n : \A y \in x..n : size[x] + (y - x) <= size[y]
    BY SizesGrow
  <1> HIDE DEF size
  <1>5. n - last \in Nat /\ last \in Nat /\ n \in last..n
    OBVIOUS
  <1>6. ASSUME NEW i \in (last + 1)..(n + 1)
        PROVE  /\ i - 1 \in 0..n /\ i - 1 \in last..n /\ size[i - 1] \in Nat /\ size[last] \in Nat
               /\ size[last] + ((i - 1) - last) <= size[i - 1]
               /\ LogPlace(size, last, i) = (WalStart + size[i - 1]) - size[last]
               /\ LogPlace(size, last, i) \in Nat /\ LogPlace(size, last, i) >= WalStart
    <2>1. i - 1 \in 0..n /\ i - 1 \in last..n
      OBVIOUS
    <2>2. size[i - 1] \in Nat /\ size[last] \in Nat /\ size[last] + ((i - 1) - last) <= size[i - 1]
      BY <1>2, <1>4, <2>1
    <2>3. LogPlace(size, last, i) = (WalStart + size[i - 1]) - size[last]
      BY <2>2 DEF LogPlace, WalStart
    <2>4. size[last] <= size[i - 1]
      BY <2>1, <2>2
    <2>5. LogPlace(size, last, i) \in Nat /\ LogPlace(size, last, i) >= WalStart
      BY <2>2, <2>3, <2>4 DEF WalStart
    <2> QED
      BY <2>1, <2>2, <2>3, <2>5
  <1>7. ASSUME NEW x \in (last + 1)..(n + 1), NEW y \in (last + 1)..(n + 1), x < y PROVE LogPlace(size, last, x) < LogPlace(size, last, y)
    <2>1. x - 1 \in 0..n /\ y - 1 \in (x - 1)..n /\ y - 1 \in 0..n
      BY <1>7
    <2>2. size[x - 1] + ((y - 1) - (x - 1)) <= size[y - 1] /\ size[x - 1] \in Nat /\ size[y - 1] \in Nat
      BY <1>2, <1>4, <2>1
    <2>3. size[x - 1] < size[y - 1]
      BY <1>7, <2>2
    <2>4. size[last] \in Nat
      BY <1>2
    <2>5. LogPlace(size, last, x) = (WalStart + size[x - 1]) - size[last] /\ LogPlace(size, last, y) = (WalStart + size[y - 1]) - size[last]
      BY <1>6
    <2> QED
      BY SMTT(30), <2>2, <2>3, <2>4, <2>5 DEF WalStart
  <1>8. ASSUME NEW i \in (last + 1)..n PROVE LogPlace(size, last, i) \in DOMAIN w /\ w[LogPlace(size, last, i)] = Frame(i, inputs[i])
    <2>1. i \in DOMAIN items /\ \A x, y \in DOMAIN items : at[x] = at[y] => x = y
      <3>1. ASSUME NEW x \in (last + 1)..n, NEW y \in (last + 1)..n, at[x] = at[y] PROVE x = y
        <4>1. x \in (last + 1)..(n + 1) /\ y \in (last + 1)..(n + 1) /\ x \in Int /\ y \in Int
          OBVIOUS
        <4>2. LogPlace(size, last, x) \in Nat /\ LogPlace(size, last, y) \in Nat /\ LogPlace(size, last, x) = LogPlace(size, last, y)
          BY <1>6, <3>1, <4>1
        <4>3. (x < y => LogPlace(size, last, x) < LogPlace(size, last, y)) /\ (y < x => LogPlace(size, last, y) < LogPlace(size, last, x))
          BY <1>7, <4>1
        <4> QED
          BY <4>1, <4>2, <4>3
      <3> QED
        BY <3>1
    <2>2. at[i] \in DOMAIN w /\ w[at[i]] = items[i]
      <3> HIDE DEF at, items
      <3> QED
        BY <1>1, <2>1, PlacedAt
    <2>3. i \in 1..n
      OBVIOUS
    <2>4. items[i] = Frame(i, inputs[i])
      BY <2>3 DEF LegacyFrames
    <2> QED
      BY <2>2, <2>4
  <1>9. ASSUME NEW o \in DOMAIN w PROVE \E i \in (last + 1)..n : o = LogPlace(size, last, i)
    <2>1. \E i \in DOMAIN items : o = at[i]
      <3> HIDE DEF at, items
      <3> QED
        BY <1>1, PlacedOnly
    <2> QED
      BY <2>1
  <1>10. /\ wf \in Seq(FrameSet) /\ Len(wf) = n - last
         /\ \A j \in 1..(n - last) : wf[j] = Frame(last + j, inputs[last + j]) /\ last + j \in 1..n
    BY <1>5, LegacyParts
  <1>11. \A j \in 1..((n - last) + 1) : wa[j] = LogPlace(size, last, last + j) /\ last + j \in (last + 1)..(n + 1)
    BY DEF LegacyLogPlaces
  <1>12. wa \in [1..(Len(wf) + 1) -> Nat]
    <2>1. ASSUME NEW j \in 1..((n - last) + 1) PROVE LogPlace(size, last, last + j) \in Nat
      <3>1. last + j \in (last + 1)..(n + 1)
        OBVIOUS
      <3> QED
        BY <1>6, <3>1
    <2> QED
      BY <1>10, <2>1 DEF LegacyLogPlaces
  <1> HIDE DEF wf, wa
  <1>13. wa[1] = WalStart
    <2>1. 1 \in 1..((n - last) + 1) /\ last + 1 \in (last + 1)..(n + 1) /\ (last + 1) - 1 = last
      OBVIOUS
    <2>2. wa[1] = LogPlace(size, last, last + 1)
      BY <1>11, <2>1
    <2>3. LogPlace(size, last, last + 1) = (WalStart + size[(last + 1) - 1]) - size[last] /\ size[last] \in Nat
      BY <1>6, <2>1
    <2> QED
      BY <2>1, <2>2, <2>3 DEF WalStart
  <1>14. wa[Len(wf) + 1] = end
    <2>1. (n - last) + 1 \in 1..((n - last) + 1) /\ last + ((n - last) + 1) = n + 1
      OBVIOUS
    <2> QED
      BY <1>10, <1>11, <2>1
  <1>15. ASSUME NEW j \in 1..Len(wf)
         PROVE  /\ wa[j] \in DOMAIN w /\ w[wa[j]] = wf[j] /\ wf[j].seq = (last + 1) + (j - 1)
                /\ wa[j + 1] = wa[j] + FrameSize(wf[j])
    <2>1. j \in 1..(n - last)
      BY <1>10
    <2>2. j \in 1..((n - last) + 1) /\ j + 1 \in 1..((n - last) + 1) /\ last + j \in (last + 1)..n /\ last + j \in 1..n
          /\ last + j \in (last + 1)..(n + 1) /\ last + (j + 1) \in (last + 1)..(n + 1) /\ (last + (j + 1)) - 1 = last + j
      BY <2>1
    <2>3. wf[j] = Frame(last + j, inputs[last + j]) /\ wa[j] = LogPlace(size, last, last + j) /\ wa[j + 1] = LogPlace(size, last, last + (j + 1))
      BY <1>10, <1>11, <2>1, <2>2
    <2>4. wa[j] \in DOMAIN w /\ w[wa[j]] = wf[j]
      BY <1>8, <2>2, <2>3
    <2>5. wf[j].seq = last + j /\ FrameSize(wf[j]) = Len(inputs[last + j])
      <3> DEFINE i == last + j
      <3>1. i \in 1..n /\ wf[j] = Frame(i, inputs[i])
        BY <2>2, <2>3
      <3> HIDE DEF i
      <3>2. Frame(i, inputs[i]).seq = i /\ FrameSize(Frame(i, inputs[i])) = Len(inputs[i])
        BY <3>1, LegacyFrame
      <3> QED
        BY <3>1, <3>2 DEF i
    <2> DEFINE u == size[(last + j) - 1]
               v == Len(inputs[last + j])
               z == size[last]
    <2>6. u \in Nat /\ z \in Nat /\ wa[j] = (WalStart + u) - z
      BY <1>6, <2>2, <2>3
    <2>7. wa[j + 1] = (WalStart + size[last + j]) - z
      <3>1. LogPlace(size, last, last + (j + 1)) = (WalStart + size[(last + (j + 1)) - 1]) - z
        BY <1>6, <2>2
      <3> QED
        BY <2>2, <2>3, <3>1
    <2>8. size[last + j] = u + v
      BY <1>3, <2>2
    <2>9. v \in Nat
      <3>1. inputs[last + j] \in Inputs \cup LegacyInputs
        BY <2>2
      <3>2. inputs[last + j] \in Seq(Records)
        BY <3>1, ReaderAssumption
      <3> QED
        BY <3>2
    <2>10. FrameSize(wf[j]) = v
      BY <2>5
    <2> HIDE DEF u, v, z
    <2>11. wa[j + 1] = wa[j] + FrameSize(wf[j])
      BY <2>6, <2>7, <2>8, <2>9, <2>10 DEF WalStart
    <2>12. wf[j].seq = (last + 1) + (j - 1)
      BY <2>1, <2>5
    <2> QED
      BY <2>4, <2>11, <2>12
  <1> HIDE DEF end
  <1>16. IsFrames(w, WalStart, end, last + 1, wf, wa)
    BY <1>10, <1>12, <1>13, <1>14, <1>15 DEF IsFrames
  <1>17. DOMAIN w = {wa[j] : j \in 1..Len(wf)}
    <2>1. ASSUME NEW o \in DOMAIN w PROVE \E j \in 1..Len(wf) : o = wa[j]
      <3>1. PICK i \in (last + 1)..n : o = LogPlace(size, last, i)
        BY <1>9
      <3>2. i - last \in 1..Len(wf) /\ i - last \in 1..((n - last) + 1) /\ last + (i - last) = i
        BY <1>10
      <3>3. wa[i - last] = LogPlace(size, last, last + (i - last))
        BY <1>11, <3>2
      <3> QED
        BY <3>1, <3>2, <3>3
    <2> QED
      BY <1>15, <2>1
  <1>18. Cells(w)
    <2> SUFFICES ASSUME NEW o \in DOMAIN w PROVE o \in Nat /\ w[o] \in FrameSet
      BY DEF Cells
    <2>1. PICK j \in 1..Len(wf) : o = wa[j]
      BY <1>17
    <2>2. wa[j] \in Nat /\ wf[j] \in FrameSet
      BY <1>10, <1>12
    <2> QED
      BY <1>15, <2>1, <2>2
  <1>19. end <= WalCapacity
    <2>1. WalEnd(w) = end
      BY <1>16, <1>17, WalEndIs
    <2> QED
      BY <2>1
  <1>20. last \in Nat /\ last + Len(wf) <= SeqMax
    BY <1>10, LimitAssumption
  <1>21. Log(w, end, last, wf, wa)
    BY <1>16, <1>17, <1>18, <1>19, <1>20 DEF Log
  <1> QED
    BY <1>21 DEF end, wf, wa, size

\* The first open finds files that fit.
LEMMA InitWhole ==
  ASSUME Init
  PROVE  Whole(db, wal, manifest, h, c)
  <1>1. PICK n \in 0..LegacyMax : \E inputs \in [1..n -> LegacyInputs] : \E g \in 0..n : \E cut \in [0..g -> 0..n] :
           cut[0] = 0 /\ (\A k \in 1..g : cut[k - 1] < cut[k]) /\ Legacy(n, inputs, g, cut)
    BY DEF Init
  <1>2. PICK inputs \in [1..n -> LegacyInputs] : \E g \in 0..n : \E cut \in [0..g -> 0..n] :
           cut[0] = 0 /\ (\A k \in 1..g : cut[k - 1] < cut[k]) /\ Legacy(n, inputs, g, cut)
    BY <1>1
  <1>3. PICK g \in 0..n : \E cut \in [0..g -> 0..n] :
           cut[0] = 0 /\ (\A k \in 1..g : cut[k - 1] < cut[k]) /\ Legacy(n, inputs, g, cut)
    BY <1>2
  <1>4. PICK cut \in [0..g -> 0..n] :
           cut[0] = 0 /\ (\A k \in 1..g : cut[k - 1] < cut[k]) /\ Legacy(n, inputs, g, cut)
    BY <1>3
  <1>5. Cutting(n, inputs, g, cut)
    BY <1>4 DEF Cutting
  <1> DEFINE size == Sizes(inputs, n)
             frames == LegacyFrames(inputs, n)
             end == HeaderPlace(size, cut, g + 1)
             time == LegacyTime(inputs, cut, g)
             st == LegacyStarts(size, cut, g)
             sf == LegacyBatches(inputs, cut, g)
             sa == LegacyOffsets(size, cut, g)
             wf == LegacyPart(inputs, cut[g], n)
             wa == LegacyLogPlaces(size, cut[g], n)
  <1>6. /\ db = LegacyDb(frames, size, cut, g) /\ wal = LegacyWal(frames, size, n, cut[g])
        /\ manifest = [count |-> g, end |-> DataStart + size[cut[g]] + g, last |-> cut[g],
                       time |-> 0, tail |-> 0, hasTime |-> FALSE, retain |-> FALSE]
    BY <1>4 DEF Legacy, LegacyFrames
  <1>7. manifest.end <= DbCapacity /\ WalEnd(wal) <= WalCapacity /\ h = Opened(db, wal, manifest) /\ c = ResetCursor
    BY DEF Init
  <1>8. n \in Nat /\ n <= SeqMax /\ g \in Nat /\ cut[g] \in 0..n
    BY <1>5, CutsGrow
  <1>9. end = DataStart + size[cut[g]] + g
    <2>1. (g + 1) - 1 = g
      BY <1>8
    <2> QED
      BY <2>1 DEF HeaderPlace
  <1>10. LegacyFile(db, inputs, n, size, cut, g)
    BY <1>5, <1>6, LegacyHolds
  <1>11. manifest.count = g /\ manifest.end = end /\ manifest.last = cut[g] /\ manifest.time = 0
         /\ manifest.hasTime = FALSE /\ manifest.retain = FALSE
    <2> HIDE DEF end, size
    <2> QED
      BY <1>6, <1>9
  <1>12. Segments(db, end, g, cut[g], FALSE, time, st, sf, sa)
    <2>1. HeaderPlace(size, cut, g + 1) <= DbCapacity
      BY <1>7, <1>11
    <2> QED
      BY <1>5, <1>10, <2>1, LegacySegments
  <1>13. Log(wal, LogPlace(size, cut[g], n + 1), cut[g], wf, wa)
    BY <1>6, <1>7, <1>8, LegacyLog
  <1>14. time = 0 \/ g # 0
    BY DEF LegacyTime
  <1> HIDE DEF end, time, st, sf, sa, wf, wa, size
  <1>15. Segments(db, manifest.end, manifest.count, manifest.last, manifest.retain, time, st, sf, sa)
    BY <1>11, <1>12
  <1>16. ManifestTimes(manifest, time, StartOf(st, manifest.count))
    BY <1>11, <1>14 DEF ManifestTimes
  <1>17. Stored(db, wal, manifest, Opened(db, wal, manifest), st, sf, sa, wf, wa)
    <2>1. Log(wal, LogPlace(size, cut[g], n + 1), manifest.last, wf, wa)
      BY <1>11, <1>13
    <2> QED
      BY <1>15, <1>16, <2>1, OpenedStored
  <1>18. Stored(db, wal, manifest, h, st, sf, sa, wf, wa)
    BY <1>7, <1>17
  <1>19. At(db, h, st, sf, sa, wf, wa, c, 1, 1)
    BY <1>7, <1>18, ResetAt
  <1> QED
    BY <1>18, <1>19 DEF Whole
==============================================================================
