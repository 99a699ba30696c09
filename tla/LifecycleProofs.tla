--------------------------- MODULE LifecycleProofs ---------------------------
(***************************************************************************)
(* Creation without a lock, proved for every set of handles and every size *)
(* of the header: the exclusive create makes one call the creator of a     *)
(* file, and that call alone is ever between its create and its sync.      *)
(***************************************************************************)
EXTENDS Lifecycle, TLAPS

Steps == {"idle", "open_file", "create", "initialize", "sync", "validate", "size", "close",
          "open"}

LifecycleTypes ==
    /\ file = Absent \/ file \in FileRecord
    /\ pc \in [Handle -> Steps]
    /\ mode \in [Handle -> Mode]

\* Between its create and its sync a call finds the file it created, with less
\* than the header until the last transfer and exactly the header after it.
\* One that validates reads a file that exists; once it has read a whole header
\* no creator has anything left to write.
CallFinds(h) ==
    /\ pc[h] = "initialize" => /\ file # Absent /\ file.creator = h
                               /\ file.kind = "v1" /\ file.size < HeaderSize
    /\ pc[h] = "sync" => /\ file # Absent /\ file.creator = h
                         /\ file.kind = "v1" /\ file.size = HeaderSize
    /\ pc[h] = "validate" => file # Absent
    /\ pc[h] = "size" => file # Absent /\ file.kind = "v1" /\ file.size >= HeaderSize
    /\ pc[h] = "open" => file # Absent /\ file.kind = "v1" /\ file.size = HeaderSize

LifecycleInv == LifecycleTypes /\ \A h \in Handle : CallFinds(h)

\* No call is in progress at the start.
LEMMA LifecycleInvInit == Init => LifecycleInv
  <1> SUFFICES ASSUME Init PROVE LifecycleInv
    OBVIOUS
  <1>1. file = Absent \/ file \in FileRecord
    BY LifecycleAssumption DEF Init, Foreign, FileRecord
  <1> QED
    BY <1>1 DEF Init, LifecycleInv, LifecycleTypes, CallFinds, Steps, Mode

\* Every step of a call keeps the invariant: only the creator writes, and it
\* stops at the end of the header.
LEMMA LifecycleInvCall ==
  ASSUME LifecycleInv, NEW h \in Handle,
         \/ \E m \in Mode : Open(h, m)
         \/ OpenFile(h) \/ CreateFile(h) \/ WriteHeader(h) \/ SyncHeader(h)
         \/ ReadHeader(h) \/ CheckSize(h) \/ Fail(h) \/ CloseFile(h) \/ Die(h)
  PROVE  LifecycleInv'
  <1> USE LifecycleAssumption DEF LifecycleInv, LifecycleTypes
  <1>1. ASSUME NEW m \in Mode, Open(h, m) PROVE LifecycleInv'
    BY <1>1 DEF Open, Goto, CallFinds, Steps
  <1>2. CASE OpenFile(h)
    BY <1>2 DEF OpenFile, Goto, CallFinds, Steps
  <1>3. CASE CreateFile(h)
    <2>1. CASE file = Absent
      <3>1. file' = [kind |-> "v1", size |-> 0, creator |-> h] /\ file' \in FileRecord
        BY <1>3, <2>1 DEF CreateFile, FileRecord
      <3> QED
        BY <1>3, <2>1, <3>1 DEF CreateFile, CallFinds, Steps
    <2>2. CASE file # Absent
      BY <1>3, <2>2 DEF CreateFile, CallFinds, Steps
    <2> QED
      BY <2>1, <2>2
  <1>4. CASE WriteHeader(h)
    <2>1. pc[h] = "initialize" /\ file \in FileRecord /\ file.creator = h /\ file.size < HeaderSize
      BY <1>4 DEF WriteHeader, CallFinds
    <2>2. PICK n \in (file.size + 1) .. HeaderSize :
            /\ file' = [kind |-> "v1", size |-> n, creator |-> file.creator]
            /\ pc' = [pc EXCEPT ![h] = IF n = HeaderSize THEN "sync" ELSE "initialize"]
      BY <1>4 DEF WriteHeader
    <2>3. file' \in FileRecord /\ file' # Absent /\ n \in Nat /\ n <= HeaderSize
      BY <2>1, <2>2 DEF FileRecord
    <2>4. LifecycleTypes'
      BY <1>4, <2>2, <2>3 DEF WriteHeader, Steps
    <2>5. ASSUME NEW g \in Handle PROVE CallFinds(g)'
      <3>1. CASE g = h
        BY <2>1, <2>2, <2>3, <3>1 DEF CallFinds
      <3>2. CASE g # h
        <4>1. pc'[g] = pc[g] /\ CallFinds(g)
          BY <2>2, <3>2
        <4>2. pc[g] \notin {"initialize", "sync", "size", "open"}
          BY <2>1, <3>2, <4>1 DEF CallFinds, FileRecord
        <4> QED
          BY <2>3, <4>1, <4>2 DEF CallFinds
      <3> QED
        BY <3>1, <3>2
    <2> QED
      BY <2>4, <2>5
  <1>5. CASE SyncHeader(h)
    BY <1>5 DEF SyncHeader, Goto, CallFinds, Steps
  <1>6. CASE ReadHeader(h)
    BY <1>6 DEF ReadHeader, Goto, CallFinds, Steps
  <1>7. CASE CheckSize(h)
    BY <1>7 DEF CheckSize, Goto, CallFinds, Steps
  <1>8. CASE Fail(h)
    <2>1. CASE UNCHANGED file
      BY <1>8, <2>1 DEF Fail, CallFinds, Steps
    <2>2. CASE file = Absent /\ file' = [kind |-> "v1", size |-> 0, creator |-> h]
      <3>1. file' \in FileRecord
        BY <2>2 DEF FileRecord
      <3> QED
        BY <1>8, <2>2, <3>1 DEF Fail, CallFinds, Steps
    <2> QED
      BY <1>8, <2>1, <2>2 DEF Fail
  <1>9. CASE CloseFile(h)
    BY <1>9 DEF CloseFile, CallFinds, Steps
  <1>10. CASE Die(h)
    BY <1>10 DEF Die, CallFinds, Steps
  <1> QED
    BY <1>1, <1>2, <1>3, <1>4, <1>5, <1>6, <1>7, <1>8, <1>9, <1>10

\* Another program takes the name only while it is free, and then no call is
\* past its create.
LEMMA LifecycleInvIntrude == LifecycleInv /\ Intrude => LifecycleInv'
  <1> SUFFICES ASSUME LifecycleInv, Intrude PROVE LifecycleInv'
    OBVIOUS
  <1>1. file' \in FileRecord /\ file' # Absent
    BY LifecycleAssumption DEF Intrude, Foreign, FileRecord
  <1> QED
    BY <1>1 DEF Intrude, LifecycleInv, LifecycleTypes, CallFinds

\* Every step preserves the invariant.
LEMMA LifecycleInvStep == LifecycleInv /\ [Next]_vars => LifecycleInv'
  <1> SUFFICES ASSUME LifecycleInv, [Next]_vars PROVE LifecycleInv'
    OBVIOUS
  <1>1. CASE UNCHANGED vars
    BY <1>1 DEF vars, LifecycleInv, LifecycleTypes, CallFinds
  <1> QED
    BY <1>1, LifecycleInvCall, LifecycleInvIntrude DEF Next

\* The invariant holds in every reachable state.
LEMMA LifecycleInvAlways == Spec => []LifecycleInv
  BY LifecycleInvInit, LifecycleInvStep, PTL DEF Spec

\* timelite_open succeeds only on a whole version 1 header with nothing after
\* it, whatever creators and other programs did to the name meanwhile.
THEOREM OpenOnlyWhole == Spec => []OpenIsWhole
  <1>1. LifecycleInv => OpenIsWhole
    BY DEF LifecycleInv, CallFinds, OpenIsWhole
  <1> QED
    BY <1>1, LifecycleInvAlways, PTL

\* Only the call that created a file changes it, and no other call takes itself
\* for the creator.
THEOREM ExistingNeverWritten == Spec => ExistingKept
  <1> DEFINE Kept == file # Absent /\ file' # file =>
                       /\ file.creator \in Handle /\ pc[file.creator] = "initialize"
                       /\ \A h \in Handle : pc[h] = "initialize" => h = file.creator
  <1>1. ASSUME LifecycleInv, [Next]_vars PROVE [Kept]_vars
    <2> SUFFICES ASSUME Next, file # Absent, file' # file PROVE Kept
      BY <1>1 DEF vars
    <2>1. PICK h \in Handle : WriteHeader(h)
      BY DEF Next, Open, OpenFile, CreateFile, SyncHeader, ReadHeader, CheckSize, Fail,
             CloseFile, Die, Intrude
    <2>2. file.creator = h /\ pc[h] = "initialize"
      BY <1>1, <2>1 DEF WriteHeader, LifecycleInv, CallFinds
    <2> QED
      BY <1>1, <2>2 DEF LifecycleInv, CallFinds
  <1> QED
    BY <1>1, LifecycleInvAlways, PTL DEF Spec, ExistingKept
==============================================================================
