--------------------------- MODULE BatchLogProofs ----------------------------
(***************************************************************************)
(* What the abstract log guarantees, proved for every set of batches.  The *)
(* inductive invariant adds to the properties what they rest on: sequences *)
(* start at 1, no acknowledged batch, removed or not, is past the          *)
(* high-water mark, and what the last expiry announced counts as doomed.   *)
(***************************************************************************)
EXTENDS BatchLog, TLAPS

\* Acknowledged sequences are used up, and stored ones start at 1.
SequencesUsed ==
    /\ \A b \in stored : b.seq >= 1
    /\ \A b \in acked : b.seq <= high

\* The last announcement is among all of them.
Announced == doom \subseteq doomed

LogInv == TypeOK /\ Durable /\ UniqueSequences /\ TimeOrdered /\ SequencesUsed /\ Announced

\* The initial state, an empty log, satisfies the inductive invariant.
LEMMA LogInvInit == Init => LogInv
  BY DEF Init, LogInv, TypeOK, Durable, UniqueSequences, TimeOrdered, SequencesUsed,
         Announced

\* A commit extends the log at its end, so it keeps the order and uniqueness of
\* sequences and timestamps.
LEMMA CommitPreserves ==
  ASSUME LogInv, NEW b \in Batches, Commit(b)
  PROVE  LogInv'
  <1> USE DEF LogInv, Commit
  <1>0. b.seq \in Nat /\ b.time \in Nat /\ \A a \in Batches : a.seq \in Nat /\ a.time \in Nat
    BY BatchesAssumption
  <1>1. TypeOK'
    BY <1>0 DEF TypeOK
  <1>2. Durable'
    BY DEF Durable
  <1>3. \A a \in stored : a.seq < b.seq
    BY <1>0 DEF TypeOK, UniqueSequences
  <1>4. UniqueSequences'
    BY <1>0, <1>3 DEF TypeOK, UniqueSequences
  <1>5. \A a \in stored : a.time <= b.time
    BY <1>0 DEF TypeOK, TimeOrdered, UniqueSequences, SequencesUsed
  <1>6. TimeOrdered'
    BY <1>0, <1>3, <1>5 DEF TypeOK, TimeOrdered
  <1>7. SequencesUsed'
    BY <1>0 DEF TypeOK, SequencesUsed
  <1>8. Announced'
    BY DEF Announced
  <1> QED
    BY <1>1, <1>2, <1>4, <1>6, <1>7, <1>8

\* Every step preserves the inductive invariant.
LEMMA LogInvStep == LogInv /\ [Next]_vars => LogInv'
  <1> SUFFICES ASSUME LogInv, [Next]_vars PROVE LogInv'
    OBVIOUS
  <1>1. ASSUME NEW b \in Batches, Acknowledge(b) PROVE LogInv'
    BY <1>1 DEF LogInv, Acknowledge, TypeOK, Durable, UniqueSequences, TimeOrdered, SequencesUsed,
         Announced
  <1>2. ASSUME NEW D \in SUBSET stored, Announce(D) PROVE LogInv'
    BY <1>2 DEF LogInv, Announce, TypeOK, Durable, UniqueSequences, TimeOrdered, SequencesUsed,
         Announced
  <1>3. CASE Remove
    <2>1. stored' \subseteq stored
      BY <1>3 DEF Remove
    <2>2. Durable'
      BY <1>3 DEF LogInv, Remove, Durable, Announced
    <2> QED
      BY <1>3, <2>1, <2>2 DEF LogInv, Remove, TypeOK, Durable, UniqueSequences, TimeOrdered, SequencesUsed,
         Announced
  <1>4. CASE UNCHANGED vars
    BY <1>4 DEF LogInv, vars, TypeOK, Durable, UniqueSequences, TimeOrdered, SequencesUsed,
         Announced
  <1> QED
    BY <1>1, <1>2, <1>3, <1>4, CommitPreserves DEF Next

\* The inductive invariant holds in every reachable state.
LEMMA LogInvAlways == Spec => []LogInv
  BY LogInvInit, LogInvStep, PTL DEF Spec

\* An acknowledged batch stays stored until an expiry announces it, sequences
\* are unique, and timestamps follow them, whatever the batches are.
THEOREM LogSafety == Spec => [](Durable /\ UniqueSequences /\ TimeOrdered)
  <1>1. LogInv => Durable /\ UniqueSequences /\ TimeOrdered
    BY DEF LogInv
  <1> QED
    BY <1>1, LogInvAlways, PTL

\* A removed batch never comes back: a new batch takes a sequence above every
\* acknowledged one, even after the log was emptied.
THEOREM LogNeverReturns == Spec => NeverReturns
  <1>1. ASSUME LogInv, Next PROVE (stored' \ stored) \cap acked = {}
    <2>1. ASSUME NEW b \in Batches, Commit(b) PROVE (stored' \ stored) \cap acked = {}
      BY <1>1, <2>1, BatchesAssumption DEF LogInv, TypeOK, SequencesUsed, Commit
    <2>2. ASSUME NEW b \in Batches, Acknowledge(b) PROVE stored' \subseteq stored
      BY <2>2 DEF Acknowledge
    <2>3. ASSUME NEW D \in SUBSET stored, Announce(D) PROVE stored' \subseteq stored
      BY <2>3 DEF Announce
    <2>4. ASSUME Remove PROVE stored' \subseteq stored
      BY <2>4 DEF Remove
    <2> QED
      BY <1>1, <2>1, <2>2, <2>3, <2>4 DEF Next
  <1>2. LogInv /\ [Next]_vars => [(stored' \ stored) \cap acked = {}]_vars
    BY <1>1
  <1> QED
    BY <1>2, LogInvAlways, PTL DEF Spec, NeverReturns

==============================================================================
