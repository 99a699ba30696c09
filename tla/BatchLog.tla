------------------------------ MODULE BatchLog -------------------------------
(***************************************************************************)
(* What the batch database promises, whatever its files look like: an      *)
(* append becomes durable in one step and is acknowledged only afterwards, *)
(* an expiry first announces the batches it removes and then removes all   *)
(* of them in one step, and the sequence high-water mark and the timestamp *)
(* floor outlive the batches.  Power failures and errors are invisible.    *)
(***************************************************************************)
EXTENDS Naturals

CONSTANT Batches  \* records with fields seq and time

ASSUME BatchesAssumption == \A b \in Batches : b.seq \in Nat /\ b.time \in Nat

VARIABLES
    stored,  \* the batches a reopen would return
    high,    \* the last committed sequence
    floor,   \* the timestamp below which appends are refused
    acked,   \* batches the caller knows to be committed
    doom,    \* batches the last expiry removes
    doomed   \* batches any expiry so far was asked to remove

vars == <<stored, high, floor, acked, doom, doomed>>

Init ==
    /\ stored = {} /\ high = 0 /\ floor = 0
    /\ acked = {} /\ doom = {} /\ doomed = {}

\* Mutant: appends do not compare with the batches before them.
CommitAnyTime(b) ==
    /\ UNCHANGED <<acked, doom, doomed>>
    /\ b.seq = high + 1
    /\ stored' = stored \cup {b} /\ high' = b.seq /\ floor' = b.time

\* Mutant: the next sequence follows the batches that are left.
CommitAfterStored(b) ==
    /\ UNCHANGED <<acked, doom, doomed>>
    /\ b.seq # 0 /\ \A a \in stored : a.seq < b.seq
    /\ high # 0 => b.time >= floor
    /\ stored' = stored \cup {b} /\ high' = b.seq /\ floor' = b.time

\* Mutant: the high-water mark is not advanced.
CommitSameHigh(b) ==
    /\ UNCHANGED <<acked, doom, doomed>>
    /\ b.seq = high + 1
    /\ high # 0 => b.time >= floor
    /\ stored' = stored \cup {b} /\ floor' = b.time
    /\ UNCHANGED high

\* A commit record reaches the disk.
Commit(b) ==
    /\ UNCHANGED <<acked, doom, doomed>>
    /\ b.seq = high + 1
    /\ high # 0 => b.time >= floor
    /\ stored' = stored \cup {b} /\ high' = b.seq /\ floor' = b.time

\* append returns 0.
Acknowledge(b) ==
    /\ acked' = acked \cup {b}
    /\ b \in stored
    /\ UNCHANGED <<stored, high, floor, doom, doomed>>

\* expire_before decides what it may remove.
Announce(D) ==
    /\ D \subseteq stored
    /\ doom' = D /\ doomed' = doomed \cup D
    /\ UNCHANGED <<stored, high, floor, acked>>

\* Mutant: everything older than what was announced goes with it.
RemovePrefix ==
    /\ doom \subseteq stored
    /\ stored' = {b \in stored : \A d \in doom : b.seq > d.seq}
    /\ UNCHANGED <<high, floor, acked, doom, doomed>>

\* The manifest without the expired segments reaches the disk.
Remove ==
    /\ doom \subseteq stored
    /\ stored' = stored \ doom
    /\ UNCHANGED <<high, floor, acked, doom, doomed>>

Next ==
    \/ Remove
    \/ \E b \in Batches : Commit(b) \/ Acknowledge(b)
    \/ \E D \in SUBSET stored : Announce(D)

Spec == Init /\ [][Next]_vars

------------------------------------------------------------------------------
\* The state components have the types the actions give them.
TypeOK ==
    /\ stored \subseteq Batches /\ acked \subseteq Batches
    /\ doom \subseteq Batches /\ doomed \subseteq Batches
    /\ high \in Nat /\ floor \in Nat

\* An acknowledged batch is stored until an expiry was asked to remove it.
Durable == acked \ doomed \subseteq stored

\* One batch per sequence, none past the high-water mark.
UniqueSequences ==
    /\ \A a, b \in stored : a.seq = b.seq => a = b
    /\ \A b \in stored : b.seq <= high

\* Timestamps follow sequences, and the floor is above all of them.
TimeOrdered ==
    /\ \A a, b \in stored : a.seq <= b.seq => a.time <= b.time
    /\ \A b \in stored : b.time <= floor

\* What was removed stays removed: no step brings an acknowledged batch back.
NeverReturns == [][(stored' \ stored) \cap acked = {}]_vars
==============================================================================
