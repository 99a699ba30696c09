------------------------------ MODULE Lifecycle ------------------------------
(***************************************************************************)
(* The version 1 lifecycle: timelite_open and timelite_close on one path,  *)
(* by several handles and without any lock.  A creator writes its header   *)
(* in as many transfers as the system likes, and others may find the file  *)
(* at any moment of that; another program may take the name first.  A file *)
(* is what it is of: the header's bytes so far, or a foreign one.          *)
(***************************************************************************)
EXTENDS Naturals

CONSTANTS
    Handle,
    HeaderSize,   \* 12 bytes, in units of a transfer
    Absent, NoOne

\* A file: the header's bytes so far, or one that somebody else made.
FileRecord == [kind : {"v1", "later", "other"}, size : Nat, creator : Handle \cup {NoOne}]

ASSUME LifecycleAssumption ==
    HeaderSize \in Nat \ {0} /\ NoOne \notin Handle /\ Absent \notin FileRecord

VARIABLES
    file,      \* [kind, size, creator], or Absent
    pc,        \* handle -> where in timelite_open it is, idle or open
    mode       \* handle -> the mode of its call

vars == <<file, pc, mode>>

Mode == {"existing", "new", "orCreate"}

\* The kinds of file: the header of version 1 and nothing else but, perhaps,
\* not all of it yet; one of a later version; anything else, of any size.
Foreign == [kind : {"later", "other"}, size : {0, HeaderSize, HeaderSize + 1}, creator : {NoOne}]
           \cup [kind : {"v1"}, size : {HeaderSize + 1}, creator : {NoOne}]

Init ==
    /\ file \in {Absent} \cup Foreign \cup [kind : {"v1"}, size : {HeaderSize}, creator : {NoOne}]
    /\ pc = [h \in Handle |-> "idle"]
    /\ mode = [h \in Handle |-> "existing"]

Goto(h, from, to) == pc[h] = from /\ pc' = [pc EXCEPT ![h] = to]

Open(h, m) ==
    /\ Goto(h, "idle", IF m = "new" THEN "create" ELSE "open_file")
    /\ mode' = [mode EXCEPT ![h] = m]
    /\ UNCHANGED file

OpenFile(h) ==
    /\ Goto(h, "open_file", IF file # Absent THEN "validate"
                            ELSE IF mode[h] = "orCreate" THEN "create" ELSE "idle")
    /\ UNCHANGED <<file, mode>>

\* Mutant: the loser of the race initializes the file as its creator would.
CreateFileShared(h) ==
    /\ pc[h] = "create"
    /\ \/ /\ file = Absent \/ mode[h] = "orCreate"
          /\ pc' = [pc EXCEPT ![h] = "initialize"]
          /\ file' = IF file = Absent THEN [kind |-> "v1", size |-> 0, creator |-> h] ELSE file
       \/ /\ file # Absent /\ mode[h] # "orCreate"
          /\ pc' = [pc EXCEPT ![h] = "idle"]
          /\ UNCHANGED file
    /\ UNCHANGED mode

\* O_EXCL.  Another creator owns the path: open it, never initialize it.
CreateFile(h) ==
    /\ pc[h] = "create"
    /\ \/ /\ file = Absent
          /\ pc' = [pc EXCEPT ![h] = "initialize"]
          /\ file' = [kind |-> "v1", size |-> 0, creator |-> h]
       \/ /\ file # Absent
          /\ pc' = [pc EXCEPT ![h] = IF mode[h] = "orCreate" THEN "validate" ELSE "idle"]
          /\ UNCHANGED file
    /\ UNCHANGED mode

\* initialize_file: the header, some of it at a time, then the sync.
WriteHeader(h) ==
    /\ pc[h] = "initialize" /\ file.size < HeaderSize
    /\ \E n \in (file.size + 1) .. HeaderSize :
           /\ file' = [kind |-> "v1", size |-> n, creator |-> file.creator]
           /\ pc' = [pc EXCEPT ![h] = IF n = HeaderSize THEN "sync" ELSE "initialize"]
    /\ UNCHANGED mode

SyncHeader(h) ==
    /\ Goto(h, "sync", "open")
    /\ UNCHANGED <<file, mode>>

\* validate_file, the header: all of it, the magic and the version.
ReadHeader(h) ==
    /\ Goto(h, "validate", IF file.kind = "v1" /\ file.size >= HeaderSize THEN "size" ELSE "close")
    /\ UNCHANGED <<file, mode>>

\* Mutant: bytes after the header are not looked for.
CheckSizeNot(h) ==
    /\ Goto(h, "size", "open")
    /\ UNCHANGED <<file, mode>>

\* validate_file, the size: nothing after the header.
CheckSize(h) ==
    /\ Goto(h, "size", IF file.size = HeaderSize THEN "open" ELSE "close")
    /\ UNCHANGED <<file, mode>>

\* A call of the backend fails: open and create leave the handle closed, a
\* create perhaps with an empty file of its making behind it; the others leave
\* a file to be closed.
Fail(h) ==
    /\ \/ /\ pc[h] \in {"open_file", "create"} /\ pc' = [pc EXCEPT ![h] = "idle"]
          /\ \/ UNCHANGED file
             \/ /\ pc[h] = "create" /\ file = Absent
                /\ file' = [kind |-> "v1", size |-> 0, creator |-> h]
       \/ /\ pc[h] \in {"initialize", "sync", "validate", "size"}
          /\ pc' = [pc EXCEPT ![h] = "close"]
          /\ UNCHANGED file
    /\ UNCHANGED mode

\* The close of a failed open, and timelite_close: the handle is reusable
\* whatever close returned.
CloseFile(h) ==
    /\ pc[h] \in {"close", "open"}
    /\ pc' = [pc EXCEPT ![h] = "idle"]
    /\ UNCHANGED <<file, mode>>

\* The process of h dies.
Die(h) ==
    /\ pc[h] # "idle"
    /\ pc' = [pc EXCEPT ![h] = "idle"]
    /\ UNCHANGED <<file, mode>>

\* Another program takes the name before anyone else has.
Intrude ==
    /\ file = Absent
    /\ file' \in Foreign
    /\ UNCHANGED <<pc, mode>>

Next ==
    \/ \E h \in Handle :
           \/ \E m \in Mode : Open(h, m)
           \/ OpenFile(h) \/ CreateFile(h) \/ WriteHeader(h) \/ SyncHeader(h)
           \/ ReadHeader(h) \/ CheckSize(h) \/ Fail(h) \/ CloseFile(h) \/ Die(h)
    \/ Intrude

Spec == Init /\ [][Next]_vars

\* A handle is open only on a whole version 1 header with nothing after it,
\* though its validation ran beside a creator that had not written it all.
OpenIsWhole ==
    \A h \in Handle : pc[h] = "open" =>
        file # Absent /\ file.kind = "v1" /\ file.size = HeaderSize

\* Existing files are never written by open: what changes an existing file is
\* the one call that created it, which no other call takes itself for.
ExistingKept ==
    [][file # Absent /\ file' # file =>
           /\ file.creator \in Handle /\ pc[file.creator] = "initialize"
           /\ \A h \in Handle : pc[h] = "initialize" => h = file.creator]_vars
=============================================================================
