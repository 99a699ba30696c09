------------------------------ MODULE PairOwner ------------------------------
(***************************************************************************)
(* Who may touch the files of a pair.  Several batch handles, in one       *)
(* process or in many, call timelite_batches_open on paths they may share, *)
(* in any of the three modes, and every system call of every open is a     *)
(* step of its own.  The only exclusion is the kernel's lock on the        *)
(* database file; nothing locks the log, and a name may be created, or its *)
(* creator may die, between any two calls of another handle.               *)
(*                                                                         *)
(* A file is its identity (NoId while its header is not a valid one) and   *)
(* the number of changes made to it.  The recovery and the operations that *)
(* run under the lock are BatchPair's; here they are writes.  No path is   *)
(* ever removed, as the library removes none.                              *)
(***************************************************************************)
EXTENDS Naturals

CONSTANTS
    Handle,      \* batch handles, wherever they live
    Database,    \* paths given as database paths
    Log,         \* paths given as WAL paths
    Identity,    \* the 16 random bytes of a pair
    MaxChanges   \* bound: changes made to one file by recovery and operations

CONSTANTS Absent, NoId, Free, Leaked

\* The two kinds of path are told apart by the magic of their headers, so a
\* path is one kind or the other; the markers are none of what they mark.
ASSUME OwnerAssumption ==
    /\ MaxChanges \in Nat
    /\ Database # {} /\ Log # {} /\ Database \cap Log = {}
    /\ NoId \notin Identity
    /\ Free \notin Handle /\ Leaked \notin Handle /\ Free # Leaked
    /\ Absent \notin [id : Identity \cup {NoId}, changes : Nat]

VARIABLES
    disk,    \* path -> the file it names, or Absent
    lock,    \* database path -> the handle whose open file holds its lock
    drawn,   \* every identity drawn so far: 16 random bytes do not repeat
    pc,      \* handle -> where in timelite_batches_open it is, idle or open
    loc      \* handle -> the arguments and locals of its call

vars == <<disk, lock, drawn, pc, loc>>

Path == Database \cup Log

File == [id : Identity \cup {NoId}, changes : Nat]

Mode == {"existing", "new", "orCreate"}

Label == {"idle", "openDb", "probe", "identity", "createDb", "reopenDb", "lock",
          "createWal", "writeDb", "writeWal", "checkDb", "openWal", "readDb",
          "readWal", "validate", "recover", "open", "close"}

\* id is the drawn identity, later the one read from the database's header;
\* seen is what the handle knows of its files' contents, the fields of
\* struct timelite_batches.
Call == [mode : Mode, db : Database, wal : Log, id : Identity \cup {NoId},
         create : BOOLEAN, seen : Nat \X Nat]

Closed == [mode |-> "existing", db |-> CHOOSE d \in Database : TRUE,
           wal |-> CHOOSE w \in Log : TRUE, id |-> NoId, create |-> FALSE,
           seen |-> <<0, 0>>]

Blank == [id |-> NoId, changes |-> 0]

Exists(p) == disk[p] # Absent

\* Named files may be there already: pairs, partial creations, version 1
\* files, orphans.  Two databases with one identity would be copies, which
\* the trusted path contract rules out.
Init ==
    /\ drawn \in SUBSET Identity
    /\ disk \in [Path -> {Absent} \cup [id : drawn \cup {NoId}, changes : {0}]]
    /\ \A d1, d2 \in Database :
           Exists(d1) /\ Exists(d2) /\ disk[d1].id = disk[d2].id /\ disk[d1].id # NoId
               => d1 = d2
    /\ lock = [d \in Database |-> Free]
    /\ pc = [h \in Handle |-> "idle"]
    /\ loc = [h \in Handle |-> Closed]

----------------------------------------------------------------------------
(* timelite_batches_open, one system call at a time                         *)

Goto(h, from, to) == pc[h] = from /\ pc' = [pc EXCEPT ![h] = to]

Create(p) == disk' = [disk EXCEPT ![p] = Blank]

\* create_header: the header, and nothing yet of the file's contents.
Stamp(p, i) == disk' = [disk EXCEPT ![p] = [id |-> i, changes |-> disk[p].changes]]

Open(h, m, d, w) ==
    /\ Goto(h, "idle", IF m = "new" THEN "probe" ELSE "openDb")
    /\ loc' = [loc EXCEPT ![h] = [Closed EXCEPT !.mode = m, !.db = d, !.wal = w,
                                                !.create = m = "new"]]
    /\ UNCHANGED <<disk, lock, drawn>>

OpenDb(h) ==
    /\ IF Exists(loc[h].db)
         THEN Goto(h, "openDb", "lock") /\ UNCHANGED loc
         ELSE IF loc[h].mode = "orCreate"
           THEN /\ Goto(h, "openDb", "probe")
                /\ loc' = [loc EXCEPT ![h].create = TRUE]
           ELSE Goto(h, "openDb", "close") /\ UNCHANGED loc
    /\ UNCHANGED <<disk, lock, drawn>>

\* Never create a replacement database next to an orphan log.
Probe(h) ==
    /\ Goto(h, "probe", IF Exists(loc[h].wal) THEN "close" ELSE "identity")
    /\ UNCHANGED <<disk, lock, drawn, loc>>

\* getrandom.  The bound Identity acts as entropy that is not there yet.
Draw(h) ==
    /\ \/ /\ Goto(h, "identity", "createDb")
          /\ \E i \in Identity \ drawn :
                 /\ drawn' = drawn \cup {i}
                 /\ loc' = [loc EXCEPT ![h].id = i]
       \/ /\ Goto(h, "identity", "close")
          /\ Identity \subseteq drawn
          /\ UNCHANGED <<drawn, loc>>
    /\ UNCHANGED <<disk, lock>>

\* O_EXCL.  The loser of a race may open the winner's file, once.
CreateDb(h) ==
    /\ IF ~Exists(loc[h].db)
         THEN Goto(h, "createDb", "lock") /\ Create(loc[h].db) /\ UNCHANGED loc
         ELSE IF loc[h].mode = "orCreate"
           THEN /\ Goto(h, "createDb", "reopenDb")
                /\ loc' = [loc EXCEPT ![h].create = FALSE]
                /\ UNCHANGED disk
           ELSE Goto(h, "createDb", "close") /\ UNCHANGED <<disk, loc>>
    /\ UNCHANGED <<lock, drawn>>

ReopenDb(h) ==
    /\ Goto(h, "reopenDb", "lock")
    /\ UNCHANGED <<disk, lock, drawn, loc>>

\* Mutant: a contended lock is not an error for the file's creator.
TakeLockCreator(h) ==
    /\ \/ /\ lock[loc[h].db] = Free \/ loc[h].create
          /\ Goto(h, "lock", IF loc[h].create THEN "createWal" ELSE "checkDb")
          /\ lock' = [lock EXCEPT ![loc[h].db] = h]
       \/ /\ lock[loc[h].db] # Free /\ ~loc[h].create
          /\ Goto(h, "lock", "close")
          /\ UNCHANGED lock
    /\ UNCHANGED <<disk, drawn, loc>>

\* flock(LOCK_EX | LOCK_NB) belongs to the open file: another handle of the
\* same process is refused like any other.
TakeLock(h) ==
    /\ \/ /\ lock[loc[h].db] = Free
          /\ Goto(h, "lock", IF loc[h].create THEN "createWal" ELSE "checkDb")
          /\ lock' = [lock EXCEPT ![loc[h].db] = h]
       \/ /\ lock[loc[h].db] # Free
          /\ Goto(h, "lock", "close")
          /\ UNCHANGED lock
    /\ UNCHANGED <<disk, drawn, loc>>

\* Mutant: the log is created without O_EXCL, or opened when it is there.
CreateWalShared(h) ==
    /\ Goto(h, "createWal", "writeDb")
    /\ IF Exists(loc[h].wal) THEN UNCHANGED disk ELSE Create(loc[h].wal)
    /\ UNCHANGED <<lock, drawn, loc>>

CreateWal(h) ==
    /\ IF Exists(loc[h].wal)
         THEN Goto(h, "createWal", "close") /\ UNCHANGED disk
         ELSE Goto(h, "createWal", "writeDb") /\ Create(loc[h].wal)
    /\ UNCHANGED <<lock, drawn, loc>>

WriteDb(h) ==
    /\ Goto(h, "writeDb", "writeWal")
    /\ Stamp(loc[h].db, loc[h].id)
    /\ UNCHANGED <<lock, drawn, loc>>

WriteWal(h) ==
    /\ Goto(h, "writeWal", "readDb")
    /\ Stamp(loc[h].wal, loc[h].id)
    /\ UNCHANGED <<lock, drawn, loc>>

\* The database is validated before its companion is touched.
CheckDb(h) ==
    /\ Goto(h, "checkDb", IF disk[loc[h].db].id = NoId THEN "close" ELSE "openWal")
    /\ UNCHANGED <<disk, lock, drawn, loc>>

OpenWal(h) ==
    /\ Goto(h, "openWal", IF Exists(loc[h].wal) THEN "readDb" ELSE "close")
    /\ UNCHANGED <<disk, lock, drawn, loc>>

ReadDb(h) ==
    /\ Goto(h, "readDb", IF disk[loc[h].db].id = NoId THEN "close" ELSE "readWal")
    /\ loc' = [loc EXCEPT ![h].id = disk[loc[h].db].id]
    /\ UNCHANGED <<disk, lock, drawn>>

\* Mutant: any valid log header is accepted.
ReadWalAnyIdentity(h) ==
    /\ Goto(h, "readWal", IF disk[loc[h].wal].id # NoId THEN "validate" ELSE "close")
    /\ UNCHANGED <<disk, lock, drawn, loc>>

ReadWal(h) ==
    /\ Goto(h, "readWal", IF disk[loc[h].wal].id = loc[h].id THEN "validate" ELSE "close")
    /\ UNCHANGED <<disk, lock, drawn, loc>>

Versions(h) == <<disk[loc[h].db].changes, disk[loc[h].wal].changes>>

\* Manifests, segments and the scan of the log: everything the handle will
\* believe of the files.  Files that fail the checks are left alone.
Validate(h) ==
    /\ \/ /\ Goto(h, "validate", "recover")
          /\ loc' = [loc EXCEPT ![h].seen = Versions(h)]
       \/ Goto(h, "validate", "close") /\ UNCHANGED loc
    /\ UNCHANGED <<disk, lock, drawn>>

\* A change of one of h's files by h, which keeps its own account of it.
\* External to this module: recovery, append, checkpoint and expiry.
Change(h, p) ==
    /\ disk[p].changes < MaxChanges
    /\ disk' = [disk EXCEPT ![p].changes = @ + 1]
    /\ loc' = [loc EXCEPT ![h].seen =
                  IF p = loc[h].db THEN <<@[1] + 1, @[2]>> ELSE <<@[1], @[2] + 1>>]

\* Provisioning, an unfinished retention, the truncation of a suffix.
Recover(h) ==
    /\ \/ pc[h] = "recover" /\ UNCHANGED pc
          /\ \E p \in {loc[h].db, loc[h].wal} : Change(h, p)
       \/ Goto(h, "recover", "open") /\ UNCHANGED <<disk, loc>>
    /\ UNCHANGED <<lock, drawn>>

\* Any system call may fail.  A create that fails after the file was opened
\* leaves an empty path; a failed header write leaves any prefix of it.
Fail(h) ==
    /\ pc[h] \notin {"idle", "open", "close"}
    /\ pc' = [pc EXCEPT ![h] = "close"]
    /\ \/ UNCHANGED disk
       \/ pc[h] = "createDb" /\ ~Exists(loc[h].db) /\ Create(loc[h].db)
       \/ pc[h] = "createWal" /\ ~Exists(loc[h].wal) /\ Create(loc[h].wal)
       \/ pc[h] = "writeDb" /\ Stamp(loc[h].db, loc[h].id)
       \/ pc[h] = "writeWal" /\ Stamp(loc[h].wal, loc[h].id)
    /\ UNCHANGED <<lock, drawn, loc>>

----------------------------------------------------------------------------
(* An open handle, its close, and the end of a process                      *)

Operate(h) ==
    /\ pc[h] = "open"
    /\ \E p \in {loc[h].db, loc[h].wal} : Change(h, p)
    /\ UNCHANGED <<lock, drawn, pc>>

BatchesClose(h) ==
    /\ Goto(h, "open", "close")
    /\ UNCHANGED <<disk, lock, drawn, loc>>

Released(h, l) ==
    /\ lock' = IF lock[loc[h].db] = h THEN [lock EXCEPT ![loc[h].db] = l] ELSE lock
    /\ pc' = [pc EXCEPT ![h] = "idle"]
    /\ loc' = [loc EXCEPT ![h] = Closed]
    /\ UNCHANGED <<disk, drawn>>

\* Mutant: any close of the file drops the lock, as with fcntl record locks.
CloseFilesDropping(h) ==
    /\ pc[h] = "close"
    /\ lock' = [lock EXCEPT ![loc[h].db] = Free]
    /\ pc' = [pc EXCEPT ![h] = "idle"]
    /\ loc' = [loc EXCEPT ![h] = Closed]
    /\ UNCHANGED <<disk, drawn>>

\* The log, then the database, each once.  A close that fails consumes the
\* handle and leaves the release of the lock uncertain.
CloseFiles(h) ==
    /\ pc[h] = "close"
    /\ \E l \in {Free, Leaked} : Released(h, l)

\* The process of h dies: the kernel closes its files.
Die(h) == pc[h] # "idle" /\ Released(h, Free)

\* The process that could not close a database ends at last.
Reap(d) ==
    /\ lock[d] = Leaked
    /\ lock' = [lock EXCEPT ![d] = Free]
    /\ UNCHANGED <<disk, drawn, pc, loc>>

\* The calls that take a call of timelite_batches_open to its return.
Step(h) ==
    \/ OpenDb(h) \/ Probe(h) \/ Draw(h) \/ CreateDb(h) \/ ReopenDb(h) \/ TakeLock(h)
    \/ CreateWal(h) \/ WriteDb(h) \/ WriteWal(h) \/ CheckDb(h) \/ OpenWal(h)
    \/ ReadDb(h) \/ ReadWal(h) \/ Validate(h) \/ Recover(h) \/ CloseFiles(h)

Next ==
    \/ \E h \in Handle :
           \/ \E m \in Mode, d \in Database, w \in Log : Open(h, m, d, w)
           \/ Step(h) \/ Fail(h) \/ Operate(h) \/ BatchesClose(h) \/ Die(h)
    \/ \E d \in Database : Reap(d)

Spec == Init /\ [][Next]_vars

----------------------------------------------------------------------------
(* Properties                                                               *)

\* The state is within its types.
TypeOK ==
    /\ disk \in [Path -> {Absent} \cup File]
    /\ lock \in [Database -> Handle \cup {Free, Leaked}]
    /\ drawn \in SUBSET Identity
    /\ pc \in [Handle -> Label]
    /\ loc \in [Handle -> Call]

\* h has checked that its two files are one pair and may write both.
Admitted(h) == pc[h] \in {"validate", "recover", "open"}

\* Two handles that were let in share no file: not the database, which one
\* lock protects, and not the log either, which no lock protects ("the WAL is
\* reached through pair open"): header checks and exclusive creation do.
PairExclusive ==
    \A h, g \in Handle : Admitted(h) /\ Admitted(g) /\ h # g
        => loc[h].db # loc[g].db /\ loc[h].wal # loc[g].wal

\* What an open handle believes of its files (the ends, counts and times its
\* fields cache) is what the files hold: nobody else changed them since the
\* scan of its open, however many other opens were refused, failed or died.
CacheCurrent ==
    \A h \in Handle : pc[h] \in {"recover", "open"} => loc[h].seen = Versions(h)

\* The two files of an admitted handle carry one identity, and keep it.
IdentityMatches ==
    \A h \in Handle : Admitted(h) =>
        /\ Exists(loc[h].db) /\ Exists(loc[h].wal)
        /\ disk[loc[h].db].id = loc[h].id
        /\ disk[loc[h].wal].id = loc[h].id
        /\ loc[h].id # NoId

\* A log whose identity no database carries is never changed: not by a
\* creation that loses a race for its name, nor by an open that names it
\* next to another pair's database.
OrphanLogKept ==
    [][\A w \in Log :
           /\ Exists(w) /\ disk[w].id # NoId
           /\ \A d \in Database : Exists(d) => disk[d].id # disk[w].id
           => disk'[w] = disk[w]]_vars
=============================================================================
