--------------------------- MODULE PairOwnerProofs ---------------------------
(***************************************************************************)
(* For any number of handles, paths and identities: handles that were let  *)
(* in share no file and what they cache is current.  The lock alone only   *)
(* protects databases; a log is protected because its identity is carried  *)
(* by one database and was drawn by the creation that wrote both headers,  *)
(* so the invariant follows identities from the draw to the second header. *)
(***************************************************************************)
EXTENDS PairOwner, TLAPS

\* Where a call holds the lock of its database.
Locked == {"createWal", "writeDb", "writeWal", "checkDb", "openWal", "readDb",
           "readWal", "validate", "recover", "open"}

\* Where a call has its database open, and where its log.
HasDb == Locked \cup {"reopenDb", "lock"}

HasWal == {"writeDb", "writeWal", "readDb", "readWal", "validate", "recover", "open"}

\* A call that drew an identity and has not written both headers.
Creating(h) ==
    \/ pc[h] \in {"createDb", "createWal", "writeDb", "writeWal"}
    \/ pc[h] = "lock" /\ loc[h].create

\* A call whose own new log has no header yet.
LogIsNew(h) == pc[h] \in {"writeDb", "writeWal"}

\* A call that opens an existing database does not take itself for a creator.
CreateFlag == \A h \in Handle : pc[h] \in {"openDb", "reopenDb"} => ~loc[h].create

LockHeld == \A h \in Handle : pc[h] \in Locked => lock[loc[h].db] = h

FilesThere ==
    \A h \in Handle :
        /\ pc[h] \in HasDb => Exists(loc[h].db)
        /\ pc[h] \in HasWal => Exists(loc[h].wal)

IdsDrawn == \A p \in Path : Exists(p) => disk[p].id \in drawn \cup {NoId}

OneDatabase ==
    \A d1, d2 \in Database :
        Exists(d1) /\ Exists(d2) /\ disk[d1].id = disk[d2].id /\ disk[d1].id # NoId
            => d1 = d2

FreshIdentity ==
    \A h \in Handle : Creating(h) =>
        /\ loc[h].id \in drawn
        /\ \A p \in Path : Exists(p) /\ disk[p].id = loc[h].id
               => pc[h] = "writeWal" /\ p = loc[h].db
        /\ \A g \in Handle : Creating(g) /\ g # h => loc[g].id # loc[h].id

NewLog ==
    \A h \in Handle : LogIsNew(h) =>
        /\ disk[loc[h].wal].id = NoId
        /\ \A g \in Handle : LogIsNew(g) /\ g # h => loc[g].wal # loc[h].wal

HeaderRead ==
    \A h \in Handle : pc[h] = "readWal" =>
        disk[loc[h].db].id = loc[h].id /\ loc[h].id # NoId

OwnerInv ==
    /\ TypeOK
    /\ CreateFlag
    /\ LockHeld
    /\ FilesThere
    /\ IdsDrawn
    /\ OneDatabase
    /\ FreshIdentity
    /\ NewLog
    /\ HeaderRead
    /\ IdentityMatches
    /\ CacheCurrent

----------------------------------------------------------------------------
(* Each step preserves the invariant                                        *)

\* The locals of a closed handle.
LEMMA ClosedType ==
    /\ Closed \in Call
    /\ Closed.id = NoId
    /\ Closed.create = FALSE
  BY OwnerAssumption DEF Closed, Call, Mode

\* Setting one local of a call leaves the locals well typed.
LEMMA SetCreate ==
  ASSUME NEW l \in [Handle -> Call], NEW h \in Handle, NEW b \in BOOLEAN
  PROVE  [l EXCEPT ![h].create = b] \in [Handle -> Call]
<1>1. [l[h] EXCEPT !.create = b] \in Call
  BY DEF Call
<1> QED BY <1>1

\* The same for what the handle has seen.
LEMMA SetSeen ==
  ASSUME NEW l \in [Handle -> Call], NEW h \in Handle, NEW n \in Nat \X Nat
  PROVE  /\ [l EXCEPT ![h].seen = n] \in [Handle -> Call]
         /\ [l EXCEPT ![h].seen = n][h].seen = n
<1>1. [l[h] EXCEPT !.seen = n] \in Call /\ [l[h] EXCEPT !.seen = n].seen = n
  BY DEF Call
<1> QED BY <1>1

\* The call of timelite_batches_open keeps the invariant: it has no file yet.
LEMMA OpenKeeps ==
  ASSUME OwnerInv, NEW h \in Handle, NEW m \in Mode, NEW d \in Database, NEW w \in Log,
         Open(h, m, d, w)
  PROVE  OwnerInv'
<1> USE OwnerAssumption, ClosedType DEF OwnerInv, Open, Goto
<1>1. TypeOK'
  <2>1. disk' \in [Path -> {Absent} \cup File]
    BY DEF TypeOK, File, Path, Call
  <2>2. lock' \in [Database -> Handle \cup {Free, Leaked}]
    BY DEF TypeOK, Call
  <2>3. drawn' \in SUBSET Identity
    BY DEF TypeOK
  <2>4. pc' \in [Handle -> Label]
    BY DEF TypeOK, Label
  <2>5. loc' \in [Handle -> Call]
    BY DEF TypeOK, Call, Mode
  <2> QED BY <2>1, <2>2, <2>3, <2>4, <2>5 DEF TypeOK
<1>2. CreateFlag'
  BY DEF TypeOK, CreateFlag, Call
<1>3. LockHeld'
  BY DEF TypeOK, LockHeld, Locked, Call
<1>4. FilesThere'
  BY DEF TypeOK, FilesThere, HasDb, HasWal, Locked, Exists, File, Call, Path
<1>5. IdsDrawn'
  BY DEF TypeOK, IdsDrawn, Exists, FreshIdentity, Creating, Path, Call
<1>6. OneDatabase'
  BY DEF TypeOK, OneDatabase, FreshIdentity, Creating, Exists, Path, Call
<1>7. FreshIdentity'
  BY DEF TypeOK, CreateFlag, FreshIdentity, Creating, IdsDrawn, Exists, Path, Call
<1>8. NewLog'
  BY DEF TypeOK, NewLog, LogIsNew, FilesThere, HasWal, Exists, Path, Call, IdentityMatches, Admitted
<1>9. HeaderRead'
  BY DEF TypeOK, HeaderRead, LockHeld, Locked, Path, Call, FilesThere, HasDb, Exists
<1>10. IdentityMatches'
  BY DEF TypeOK, IdentityMatches, Admitted, LockHeld, Locked, Exists, Path, Call, NewLog, LogIsNew, HeaderRead, FilesThere, HasDb, HasWal
<1>11. CacheCurrent'
  BY DEF TypeOK, CacheCurrent, IdentityMatches, Admitted, Versions, LockHeld, Locked, Exists, Path, Call, NewLog, LogIsNew
<1> QED BY <1>1, <1>2, <1>3, <1>4, <1>5, <1>6, <1>7, <1>8, <1>9, <1>10, <1>11 DEF OwnerInv

\* Opening the database by name keeps the invariant, found or not.
LEMMA OpenDbKeeps ==
  ASSUME OwnerInv, NEW h \in Handle, OpenDb(h)
  PROVE  OwnerInv'
<1> USE OwnerAssumption DEF OwnerInv, OpenDb, Goto
<1>1. TypeOK'
  <2>1. disk' \in [Path -> {Absent} \cup File]
    BY DEF TypeOK, File, Path, Call
  <2>2. lock' \in [Database -> Handle \cup {Free, Leaked}]
    BY DEF TypeOK, Call
  <2>3. drawn' \in SUBSET Identity
    BY DEF TypeOK
  <2>4. pc' \in [Handle -> Label]
    BY DEF TypeOK, Label
  <2>5. loc' \in [Handle -> Call]
    <3>1. CASE Exists(loc[h].db)
      BY <3>1 DEF TypeOK
    <3>2. CASE ~Exists(loc[h].db) /\ loc[h].mode = "orCreate"
      <4>1. loc' = [loc EXCEPT ![h].create = TRUE]
        BY <3>2
      <4>2. loc \in [Handle -> Call]
        BY DEF TypeOK
      <4> QED BY <4>1, <4>2, SetCreate, Zenon
    <3>3. CASE ~Exists(loc[h].db) /\ ~(loc[h].mode = "orCreate")
      BY <3>3 DEF TypeOK
    <3> QED BY <3>1, <3>2, <3>3
  <2> QED BY <2>1, <2>2, <2>3, <2>4, <2>5 DEF TypeOK
<1>2. CreateFlag'
  BY DEF TypeOK, CreateFlag, Call
<1>3. LockHeld'
  BY DEF TypeOK, LockHeld, Locked, Call
<1>4. FilesThere'
  BY DEF TypeOK, FilesThere, HasDb, HasWal, Locked, Exists, File, Call, Path
<1>5. IdsDrawn'
  BY DEF TypeOK, IdsDrawn, Exists, FreshIdentity, Creating, Path, Call
<1>6. OneDatabase'
  BY DEF TypeOK, OneDatabase, FreshIdentity, Creating, Exists, Path, Call
<1>7. FreshIdentity'
  <2>1. CASE Exists(loc[h].db)
    BY <2>1 DEF TypeOK, CreateFlag, FreshIdentity, Creating, IdsDrawn, Exists, Path, Call
  <2>2. CASE ~Exists(loc[h].db) /\ loc[h].mode = "orCreate"
    BY <2>2 DEF TypeOK, CreateFlag, FreshIdentity, Creating, IdsDrawn, Exists, Path, Call
  <2>3. CASE ~Exists(loc[h].db) /\ ~(loc[h].mode = "orCreate")
    BY <2>3 DEF TypeOK, CreateFlag, FreshIdentity, Creating, IdsDrawn, Exists, Path, Call
  <2> QED BY <2>1, <2>2, <2>3
<1>8. NewLog'
  BY DEF TypeOK, NewLog, LogIsNew, FilesThere, HasWal, Exists, Path, Call, IdentityMatches, Admitted
<1>9. HeaderRead'
  BY DEF TypeOK, HeaderRead, LockHeld, Locked, Path, Call, FilesThere, HasDb, Exists
<1>10. IdentityMatches'
  BY DEF TypeOK, IdentityMatches, Admitted, LockHeld, Locked, Exists, Path, Call, NewLog, LogIsNew, HeaderRead, FilesThere, HasDb, HasWal
<1>11. CacheCurrent'
  BY DEF TypeOK, CacheCurrent, IdentityMatches, Admitted, Versions, LockHeld, Locked, Exists, Path, Call, NewLog, LogIsNew
<1> QED BY <1>1, <1>2, <1>3, <1>4, <1>5, <1>6, <1>7, <1>8, <1>9, <1>10, <1>11 DEF OwnerInv

\* Probing the log keeps the invariant: nothing but the program counter moves.
LEMMA ProbeKeeps ==
  ASSUME OwnerInv, NEW h \in Handle, Probe(h)
  PROVE  OwnerInv'
<1> USE OwnerAssumption DEF OwnerInv, Probe, Goto
<1>1. TypeOK'
  <2>1. disk' \in [Path -> {Absent} \cup File]
    BY DEF TypeOK, File, Path, Call
  <2>2. lock' \in [Database -> Handle \cup {Free, Leaked}]
    BY DEF TypeOK, Call
  <2>3. drawn' \in SUBSET Identity
    BY DEF TypeOK
  <2>4. pc' \in [Handle -> Label]
    BY DEF TypeOK, Label
  <2>5. loc' \in [Handle -> Call]
    BY DEF TypeOK, Call, Mode
  <2> QED BY <2>1, <2>2, <2>3, <2>4, <2>5 DEF TypeOK
<1>2. CreateFlag'
  BY DEF TypeOK, CreateFlag, Call
<1>3. LockHeld'
  BY DEF TypeOK, LockHeld, Locked, Call
<1>4. FilesThere'
  BY DEF TypeOK, FilesThere, HasDb, HasWal, Locked, Exists, File, Call, Path
<1>5. IdsDrawn'
  BY DEF TypeOK, IdsDrawn, Exists, FreshIdentity, Creating, Path, Call
<1>6. OneDatabase'
  BY DEF TypeOK, OneDatabase, FreshIdentity, Creating, Exists, Path, Call
<1>7. FreshIdentity'
  BY DEF TypeOK, CreateFlag, FreshIdentity, Creating, IdsDrawn, Exists, Path, Call
<1>8. NewLog'
  BY DEF TypeOK, NewLog, LogIsNew, FilesThere, HasWal, Exists, Path, Call, IdentityMatches, Admitted
<1>9. HeaderRead'
  BY DEF TypeOK, HeaderRead, LockHeld, Locked, Path, Call, FilesThere, HasDb, Exists
<1>10. IdentityMatches'
  BY DEF TypeOK, IdentityMatches, Admitted, LockHeld, Locked, Exists, Path, Call, NewLog, LogIsNew, HeaderRead, FilesThere, HasDb, HasWal
<1>11. CacheCurrent'
  BY DEF TypeOK, CacheCurrent, IdentityMatches, Admitted, Versions, LockHeld, Locked, Exists, Path, Call, NewLog, LogIsNew
<1> QED BY <1>1, <1>2, <1>3, <1>4, <1>5, <1>6, <1>7, <1>8, <1>9, <1>10, <1>11 DEF OwnerInv

\* A drawn identity is no file's and no other creation's.
LEMMA DrawKeeps ==
  ASSUME OwnerInv, NEW h \in Handle, Draw(h)
  PROVE  OwnerInv'
<1> USE OwnerAssumption DEF OwnerInv, Draw, Goto
<1>1. TypeOK'
  <2>1. disk' \in [Path -> {Absent} \cup File]
    BY DEF TypeOK, File, Path, Call
  <2>2. lock' \in [Database -> Handle \cup {Free, Leaked}]
    BY DEF TypeOK, Call
  <2>3. drawn' \in SUBSET Identity
    BY DEF TypeOK
  <2>4. pc' \in [Handle -> Label]
    BY DEF TypeOK, Label
  <2>5. loc' \in [Handle -> Call]
    BY DEF TypeOK, Call, Mode
  <2> QED BY <2>1, <2>2, <2>3, <2>4, <2>5 DEF TypeOK
<1>2. CreateFlag'
  BY DEF TypeOK, CreateFlag, Call
<1>3. LockHeld'
  BY DEF TypeOK, LockHeld, Locked, Call
<1>4. FilesThere'
  BY DEF TypeOK, FilesThere, HasDb, HasWal, Locked, Exists, File, Call, Path
<1>5. IdsDrawn'
  BY DEF TypeOK, IdsDrawn, Exists, FreshIdentity, Creating, Path, Call
<1>6. OneDatabase'
  BY DEF TypeOK, OneDatabase, FreshIdentity, Creating, Exists, Path, Call
<1>7. FreshIdentity'
  <2>1. CASE pc'[h] = "createDb"
    <3>1. PICK i \in Identity \ drawn : /\ drawn' = drawn \cup {i}
                                        /\ loc' = [loc EXCEPT ![h].id = i]
      BY <2>1 DEF TypeOK
    <3>2. \A p \in Path : Exists(p) => disk[p].id # i
      BY <3>1 DEF IdsDrawn
    <3>3. loc'[h].id = i /\ \A g \in Handle : g # h => loc'[g] = loc[g]
      BY <3>1 DEF TypeOK, Call
    <3>4. \A g \in Handle : g # h => (Creating(g)' <=> Creating(g))
      BY <3>3 DEF Creating, TypeOK
    <3>5. \A g \in Handle : Creating(g) => loc[g].id # i
      BY <3>1 DEF FreshIdentity
    <3> QED BY <2>1, <3>1, <3>2, <3>3, <3>4, <3>5 DEF FreshIdentity, Exists, TypeOK
  <2>2. CASE pc'[h] # "createDb"
    BY <2>2 DEF TypeOK, CreateFlag, FreshIdentity, Creating, IdsDrawn, Exists, Path, Call
  <2> QED BY <2>1, <2>2
<1>8. NewLog'
  BY DEF TypeOK, NewLog, LogIsNew, FilesThere, HasWal, Exists, Path, Call, IdentityMatches, Admitted
<1>9. HeaderRead'
  BY DEF TypeOK, HeaderRead, LockHeld, Locked, Path, Call, FilesThere, HasDb, Exists
<1>10. IdentityMatches'
  BY DEF TypeOK, IdentityMatches, Admitted, LockHeld, Locked, Exists, Path, Call, NewLog, LogIsNew, HeaderRead, FilesThere, HasDb, HasWal
<1>11. CacheCurrent'
  BY DEF TypeOK, CacheCurrent, IdentityMatches, Admitted, Versions, LockHeld, Locked, Exists, Path, Call, NewLog, LogIsNew
<1> QED BY <1>1, <1>2, <1>3, <1>4, <1>5, <1>6, <1>7, <1>8, <1>9, <1>10, <1>11 DEF OwnerInv

\* The race loser opens the winner's database, no longer as a creator.
LEMMA ReopenDbKeeps ==
  ASSUME OwnerInv, NEW h \in Handle, ReopenDb(h)
  PROVE  OwnerInv'
<1> USE OwnerAssumption DEF OwnerInv, ReopenDb, Goto
<1>1. TypeOK'
  <2>1. disk' \in [Path -> {Absent} \cup File]
    BY DEF TypeOK, File, Path, Call
  <2>2. lock' \in [Database -> Handle \cup {Free, Leaked}]
    BY DEF TypeOK, Call
  <2>3. drawn' \in SUBSET Identity
    BY DEF TypeOK
  <2>4. pc' \in [Handle -> Label]
    BY DEF TypeOK, Label
  <2>5. loc' \in [Handle -> Call]
    BY DEF TypeOK, Call, Mode
  <2> QED BY <2>1, <2>2, <2>3, <2>4, <2>5 DEF TypeOK
<1>2. CreateFlag'
  BY DEF TypeOK, CreateFlag, Call
<1>3. LockHeld'
  BY DEF TypeOK, LockHeld, Locked, Call
<1>4. FilesThere'
  BY DEF TypeOK, FilesThere, HasDb, HasWal, Locked, Exists, File, Call, Path
<1>5. IdsDrawn'
  BY DEF TypeOK, IdsDrawn, Exists, FreshIdentity, Creating, Path, Call
<1>6. OneDatabase'
  BY DEF TypeOK, OneDatabase, FreshIdentity, Creating, Exists, Path, Call
<1>7. FreshIdentity'
  BY DEF TypeOK, CreateFlag, FreshIdentity, Creating, IdsDrawn, Exists, Path, Call
<1>8. NewLog'
  BY DEF TypeOK, NewLog, LogIsNew, FilesThere, HasWal, Exists, Path, Call, IdentityMatches, Admitted
<1>9. HeaderRead'
  BY DEF TypeOK, HeaderRead, LockHeld, Locked, Path, Call, FilesThere, HasDb, Exists
<1>10. IdentityMatches'
  BY DEF TypeOK, IdentityMatches, Admitted, LockHeld, Locked, Exists, Path, Call, NewLog, LogIsNew, HeaderRead, FilesThere, HasDb, HasWal
<1>11. CacheCurrent'
  BY DEF TypeOK, CacheCurrent, IdentityMatches, Admitted, Versions, LockHeld, Locked, Exists, Path, Call, NewLog, LogIsNew
<1> QED BY <1>1, <1>2, <1>3, <1>4, <1>5, <1>6, <1>7, <1>8, <1>9, <1>10, <1>11 DEF OwnerInv

\* Taking the lock keeps the invariant: it was nobody's.
LEMMA TakeLockKeeps ==
  ASSUME OwnerInv, NEW h \in Handle, TakeLock(h)
  PROVE  OwnerInv'
<1> USE OwnerAssumption DEF OwnerInv, TakeLock, Goto
<1>1. TypeOK'
  <2>1. disk' \in [Path -> {Absent} \cup File]
    BY DEF TypeOK, File, Path, Call
  <2>2. lock' \in [Database -> Handle \cup {Free, Leaked}]
    BY DEF TypeOK, Call
  <2>3. drawn' \in SUBSET Identity
    BY DEF TypeOK
  <2>4. pc' \in [Handle -> Label]
    BY DEF TypeOK, Label
  <2>5. loc' \in [Handle -> Call]
    BY DEF TypeOK, Call, Mode
  <2> QED BY <2>1, <2>2, <2>3, <2>4, <2>5 DEF TypeOK
<1>2. CreateFlag'
  BY DEF TypeOK, CreateFlag, Call
<1>3. LockHeld'
  BY DEF TypeOK, LockHeld, Locked, Call
<1>4. FilesThere'
  BY DEF TypeOK, FilesThere, HasDb, HasWal, Locked, Exists, File, Call, Path
<1>5. IdsDrawn'
  BY DEF TypeOK, IdsDrawn, Exists, FreshIdentity, Creating, Path, Call
<1>6. OneDatabase'
  BY DEF TypeOK, OneDatabase, FreshIdentity, Creating, Exists, Path, Call
<1>7. FreshIdentity'
  BY DEF TypeOK, CreateFlag, FreshIdentity, Creating, IdsDrawn, Exists, Path, Call
<1>8. NewLog'
  BY DEF TypeOK, NewLog, LogIsNew, FilesThere, HasWal, Exists, Path, Call, IdentityMatches, Admitted
<1>9. HeaderRead'
  BY DEF TypeOK, HeaderRead, LockHeld, Locked, Path, Call, FilesThere, HasDb, Exists
<1>10. IdentityMatches'
  BY DEF TypeOK, IdentityMatches, Admitted, LockHeld, Locked, Exists, Path, Call, NewLog, LogIsNew, HeaderRead, FilesThere, HasDb, HasWal
<1>11. CacheCurrent'
  BY DEF TypeOK, CacheCurrent, IdentityMatches, Admitted, Versions, LockHeld, Locked, Exists, Path, Call, NewLog, LogIsNew
<1> QED BY <1>1, <1>2, <1>3, <1>4, <1>5, <1>6, <1>7, <1>8, <1>9, <1>10, <1>11 DEF OwnerInv

\* The first check of the database's header keeps the invariant.
LEMMA CheckDbKeeps ==
  ASSUME OwnerInv, NEW h \in Handle, CheckDb(h)
  PROVE  OwnerInv'
<1> USE OwnerAssumption DEF OwnerInv, CheckDb, Goto
<1>1. TypeOK'
  <2>1. disk' \in [Path -> {Absent} \cup File]
    BY DEF TypeOK, File, Path, Call
  <2>2. lock' \in [Database -> Handle \cup {Free, Leaked}]
    BY DEF TypeOK, Call
  <2>3. drawn' \in SUBSET Identity
    BY DEF TypeOK
  <2>4. pc' \in [Handle -> Label]
    BY DEF TypeOK, Label
  <2>5. loc' \in [Handle -> Call]
    BY DEF TypeOK, Call, Mode
  <2> QED BY <2>1, <2>2, <2>3, <2>4, <2>5 DEF TypeOK
<1>2. CreateFlag'
  BY DEF TypeOK, CreateFlag, Call
<1>3. LockHeld'
  BY DEF TypeOK, LockHeld, Locked, Call
<1>4. FilesThere'
  BY DEF TypeOK, FilesThere, HasDb, HasWal, Locked, Exists, File, Call, Path
<1>5. IdsDrawn'
  BY DEF TypeOK, IdsDrawn, Exists, FreshIdentity, Creating, Path, Call
<1>6. OneDatabase'
  BY DEF TypeOK, OneDatabase, FreshIdentity, Creating, Exists, Path, Call
<1>7. FreshIdentity'
  BY DEF TypeOK, CreateFlag, FreshIdentity, Creating, IdsDrawn, Exists, Path, Call
<1>8. NewLog'
  BY DEF TypeOK, NewLog, LogIsNew, FilesThere, HasWal, Exists, Path, Call, IdentityMatches, Admitted
<1>9. HeaderRead'
  BY DEF TypeOK, HeaderRead, LockHeld, Locked, Path, Call, FilesThere, HasDb, Exists
<1>10. IdentityMatches'
  BY DEF TypeOK, IdentityMatches, Admitted, LockHeld, Locked, Exists, Path, Call, NewLog, LogIsNew, HeaderRead, FilesThere, HasDb, HasWal
<1>11. CacheCurrent'
  BY DEF TypeOK, CacheCurrent, IdentityMatches, Admitted, Versions, LockHeld, Locked, Exists, Path, Call, NewLog, LogIsNew
<1> QED BY <1>1, <1>2, <1>3, <1>4, <1>5, <1>6, <1>7, <1>8, <1>9, <1>10, <1>11 DEF OwnerInv

\* Opening the log keeps the invariant.
LEMMA OpenWalKeeps ==
  ASSUME OwnerInv, NEW h \in Handle, OpenWal(h)
  PROVE  OwnerInv'
<1> USE OwnerAssumption DEF OwnerInv, OpenWal, Goto
<1>1. TypeOK'
  <2>1. disk' \in [Path -> {Absent} \cup File]
    BY DEF TypeOK, File, Path, Call
  <2>2. lock' \in [Database -> Handle \cup {Free, Leaked}]
    BY DEF TypeOK, Call
  <2>3. drawn' \in SUBSET Identity
    BY DEF TypeOK
  <2>4. pc' \in [Handle -> Label]
    BY DEF TypeOK, Label
  <2>5. loc' \in [Handle -> Call]
    BY DEF TypeOK, Call, Mode
  <2> QED BY <2>1, <2>2, <2>3, <2>4, <2>5 DEF TypeOK
<1>2. CreateFlag'
  BY DEF TypeOK, CreateFlag, Call
<1>3. LockHeld'
  BY DEF TypeOK, LockHeld, Locked, Call
<1>4. FilesThere'
  BY DEF TypeOK, FilesThere, HasDb, HasWal, Locked, Exists, File, Call, Path
<1>5. IdsDrawn'
  BY DEF TypeOK, IdsDrawn, Exists, FreshIdentity, Creating, Path, Call
<1>6. OneDatabase'
  BY DEF TypeOK, OneDatabase, FreshIdentity, Creating, Exists, Path, Call
<1>7. FreshIdentity'
  BY DEF TypeOK, CreateFlag, FreshIdentity, Creating, IdsDrawn, Exists, Path, Call
<1>8. NewLog'
  BY DEF TypeOK, NewLog, LogIsNew, FilesThere, HasWal, Exists, Path, Call, IdentityMatches, Admitted
<1>9. HeaderRead'
  BY DEF TypeOK, HeaderRead, LockHeld, Locked, Path, Call, FilesThere, HasDb, Exists
<1>10. IdentityMatches'
  BY DEF TypeOK, IdentityMatches, Admitted, LockHeld, Locked, Exists, Path, Call, NewLog, LogIsNew, HeaderRead, FilesThere, HasDb, HasWal
<1>11. CacheCurrent'
  BY DEF TypeOK, CacheCurrent, IdentityMatches, Admitted, Versions, LockHeld, Locked, Exists, Path, Call, NewLog, LogIsNew
<1> QED BY <1>1, <1>2, <1>3, <1>4, <1>5, <1>6, <1>7, <1>8, <1>9, <1>10, <1>11 DEF OwnerInv

\* The second read of the database's header establishes HeaderRead.
LEMMA ReadDbKeeps ==
  ASSUME OwnerInv, NEW h \in Handle, ReadDb(h)
  PROVE  OwnerInv'
<1> USE OwnerAssumption DEF OwnerInv, ReadDb, Goto
<1>1. TypeOK'
  <2>1. disk' \in [Path -> {Absent} \cup File]
    BY DEF TypeOK, File, Path, Call
  <2>2. lock' \in [Database -> Handle \cup {Free, Leaked}]
    BY DEF TypeOK, Call
  <2>3. drawn' \in SUBSET Identity
    BY DEF TypeOK
  <2>4. pc' \in [Handle -> Label]
    BY DEF TypeOK, Label
  <2>5. loc' \in [Handle -> Call]
    <3>1. disk[loc[h].db] \in File
      BY DEF TypeOK, Call, Path, FilesThere, HasDb, Locked, Exists
    <3>2. disk[loc[h].db].id \in Identity \cup {NoId}
      BY <3>1 DEF File
    <3> QED BY <3>2 DEF TypeOK, Call
  <2> QED BY <2>1, <2>2, <2>3, <2>4, <2>5 DEF TypeOK
<1>2. CreateFlag'
  BY DEF TypeOK, CreateFlag, Call
<1>3. LockHeld'
  BY DEF TypeOK, LockHeld, Locked, Call
<1>4. FilesThere'
  BY DEF TypeOK, FilesThere, HasDb, HasWal, Locked, Exists, File, Call, Path
<1>5. IdsDrawn'
  BY DEF TypeOK, IdsDrawn, Exists, FreshIdentity, Creating, Path, Call
<1>6. OneDatabase'
  BY DEF TypeOK, OneDatabase, FreshIdentity, Creating, Exists, Path, Call
<1>7. FreshIdentity'
  BY DEF TypeOK, CreateFlag, FreshIdentity, Creating, IdsDrawn, Exists, Path, Call
<1>8. NewLog'
  BY DEF TypeOK, NewLog, LogIsNew, FilesThere, HasWal, Exists, Path, Call, IdentityMatches, Admitted
<1>9. HeaderRead'
  BY DEF TypeOK, HeaderRead, LockHeld, Locked, Path, Call, FilesThere, HasDb, Exists
<1>10. IdentityMatches'
  BY DEF TypeOK, IdentityMatches, Admitted, LockHeld, Locked, Exists, Path, Call, NewLog, LogIsNew, HeaderRead, FilesThere, HasDb, HasWal
<1>11. CacheCurrent'
  BY DEF TypeOK, CacheCurrent, IdentityMatches, Admitted, Versions, LockHeld, Locked, Exists, Path, Call, NewLog, LogIsNew
<1> QED BY <1>1, <1>2, <1>3, <1>4, <1>5, <1>6, <1>7, <1>8, <1>9, <1>10, <1>11 DEF OwnerInv

\* The comparison of the headers establishes IdentityMatches.
LEMMA ReadWalKeeps ==
  ASSUME OwnerInv, NEW h \in Handle, ReadWal(h)
  PROVE  OwnerInv'
<1> USE OwnerAssumption DEF OwnerInv, ReadWal, Goto
<1>1. TypeOK'
  <2>1. disk' \in [Path -> {Absent} \cup File]
    BY DEF TypeOK, File, Path, Call
  <2>2. lock' \in [Database -> Handle \cup {Free, Leaked}]
    BY DEF TypeOK, Call
  <2>3. drawn' \in SUBSET Identity
    BY DEF TypeOK
  <2>4. pc' \in [Handle -> Label]
    BY DEF TypeOK, Label
  <2>5. loc' \in [Handle -> Call]
    BY DEF TypeOK, Call, Mode
  <2> QED BY <2>1, <2>2, <2>3, <2>4, <2>5 DEF TypeOK
<1>2. CreateFlag'
  BY DEF TypeOK, CreateFlag, Call
<1>3. LockHeld'
  BY DEF TypeOK, LockHeld, Locked, Call
<1>4. FilesThere'
  BY DEF TypeOK, FilesThere, HasDb, HasWal, Locked, Exists, File, Call, Path
<1>5. IdsDrawn'
  BY DEF TypeOK, IdsDrawn, Exists, FreshIdentity, Creating, Path, Call
<1>6. OneDatabase'
  BY DEF TypeOK, OneDatabase, FreshIdentity, Creating, Exists, Path, Call
<1>7. FreshIdentity'
  BY DEF TypeOK, CreateFlag, FreshIdentity, Creating, IdsDrawn, Exists, Path, Call
<1>8. NewLog'
  BY DEF TypeOK, NewLog, LogIsNew, FilesThere, HasWal, Exists, Path, Call, IdentityMatches, Admitted
<1>9. HeaderRead'
  BY DEF TypeOK, HeaderRead, LockHeld, Locked, Path, Call, FilesThere, HasDb, Exists
<1>10. IdentityMatches'
  BY DEF TypeOK, IdentityMatches, Admitted, LockHeld, Locked, Exists, Path, Call, NewLog, LogIsNew, HeaderRead, FilesThere, HasDb, HasWal
<1>11. CacheCurrent'
  BY DEF TypeOK, CacheCurrent, IdentityMatches, Admitted, Versions, LockHeld, Locked, Exists, Path, Call, NewLog, LogIsNew
<1> QED BY <1>1, <1>2, <1>3, <1>4, <1>5, <1>6, <1>7, <1>8, <1>9, <1>10, <1>11 DEF OwnerInv

\* The scan of the files establishes CacheCurrent.
LEMMA ValidateKeeps ==
  ASSUME OwnerInv, NEW h \in Handle, Validate(h)
  PROVE  OwnerInv'
<1> USE OwnerAssumption DEF OwnerInv, Validate, Goto
<1>1. TypeOK'
  <2>1. disk' \in [Path -> {Absent} \cup File]
    BY DEF TypeOK, File, Path, Call
  <2>2. lock' \in [Database -> Handle \cup {Free, Leaked}]
    BY DEF TypeOK, Call
  <2>3. drawn' \in SUBSET Identity
    BY DEF TypeOK
  <2>4. pc' \in [Handle -> Label]
    BY DEF TypeOK, Label
  <2>5. loc' \in [Handle -> Call]
    BY DEF TypeOK, Call, Mode, File, Path, FilesThere, HasDb, HasWal, Locked, Exists, Versions
  <2> QED BY <2>1, <2>2, <2>3, <2>4, <2>5 DEF TypeOK
<1>2. CreateFlag'
  BY DEF TypeOK, CreateFlag, Call
<1>3. LockHeld'
  BY DEF TypeOK, LockHeld, Locked, Call
<1>4. FilesThere'
  <2>1. \A g \in Handle : loc'[g].db = loc[g].db /\ loc'[g].wal = loc[g].wal
    BY DEF TypeOK, Call
  <2>2. \A g \in Handle : /\ pc'[g] \in HasDb => pc[g] \in HasDb
                          /\ pc'[g] \in HasWal => pc[g] \in HasWal
    BY DEF TypeOK, HasDb, HasWal, Locked
  <2>3. \A p \in Path : Exists(p)' <=> Exists(p)
    BY DEF Exists
  <2>4. \A g \in Handle : loc[g].db \in Path /\ loc[g].wal \in Path
    BY DEF TypeOK, Call, Path
  <2> HIDE DEF Validate, Goto
  <2> QED BY <2>1, <2>2, <2>3, <2>4 DEF FilesThere
<1>5. IdsDrawn'
  BY DEF TypeOK, IdsDrawn, Exists, FreshIdentity, Creating, Path, Call
<1>6. OneDatabase'
  BY DEF TypeOK, OneDatabase, FreshIdentity, Creating, Exists, Path, Call
<1>7. FreshIdentity'
  <2>1. CASE pc'[h] = "recover"
    <3>1. \A g \in Handle : /\ loc'[g].id = loc[g].id
                             /\ loc'[g].db = loc[g].db
                             /\ loc'[g].create = loc[g].create
      BY DEF TypeOK, Call
    <3>2. \A g \in Handle : Creating(g)' => Creating(g) /\ pc'[g] = pc[g]
      BY <2>1, <3>1 DEF Creating, TypeOK
    <3> QED BY <3>1, <3>2 DEF FreshIdentity, Exists
  <2>2. CASE pc'[h] # "recover"
    BY <2>2 DEF TypeOK, CreateFlag, FreshIdentity, Creating, IdsDrawn, Exists, Path, Call
  <2> QED BY <2>1, <2>2
<1>8. NewLog'
  <2>1. \A g \in Handle : loc'[g].wal = loc[g].wal
    BY DEF TypeOK, Call
  <2>2. \A g \in Handle : LogIsNew(g)' => LogIsNew(g)
    BY DEF LogIsNew, TypeOK
  <2> QED BY <2>1, <2>2 DEF NewLog
<1>9. HeaderRead'
  BY DEF TypeOK, HeaderRead, LockHeld, Locked, Path, Call, FilesThere, HasDb, Exists
<1>10. IdentityMatches'
  <2>1. \A g \in Handle : /\ loc'[g].db = loc[g].db /\ loc'[g].wal = loc[g].wal
                          /\ loc'[g].id = loc[g].id
    BY DEF TypeOK, Call
  <2>2. \A g \in Handle : Admitted(g)' => Admitted(g)
    BY DEF TypeOK, Admitted
  <2>3. disk' = disk
    OBVIOUS
  <2> HIDE DEF Validate, Goto
  <2> QED BY <2>1, <2>2, <2>3 DEF IdentityMatches, Exists
<1>11. CacheCurrent'
  <2>1. /\ disk' = disk
        /\ \A g \in Handle : loc'[g].db = loc[g].db /\ loc'[g].wal = loc[g].wal
    BY DEF TypeOK, Call
  <2>2. \A g \in Handle : Versions(g)' = Versions(g)
    BY <2>1 DEF Versions
  <2>3. \A g \in Handle : g # h => pc'[g] = pc[g] /\ loc'[g] = loc[g]
    BY DEF TypeOK
  <2>4. pc'[h] \in {"recover", "open"} => loc'[h].seen = Versions(h)
    BY DEF TypeOK, Call
  <2> HIDE DEF Validate, Goto
  <2> QED BY <2>2, <2>3, <2>4 DEF CacheCurrent
<1> QED BY <1>1, <1>2, <1>3, <1>4, <1>5, <1>6, <1>7, <1>8, <1>9, <1>10, <1>11 DEF OwnerInv

\* The call of timelite_batches_close keeps the invariant.
LEMMA BatchesCloseKeeps ==
  ASSUME OwnerInv, NEW h \in Handle, BatchesClose(h)
  PROVE  OwnerInv'
<1> USE OwnerAssumption DEF OwnerInv, BatchesClose, Goto
<1>1. TypeOK'
  <2>1. disk' \in [Path -> {Absent} \cup File]
    BY DEF TypeOK, File, Path, Call
  <2>2. lock' \in [Database -> Handle \cup {Free, Leaked}]
    BY DEF TypeOK, Call
  <2>3. drawn' \in SUBSET Identity
    BY DEF TypeOK
  <2>4. pc' \in [Handle -> Label]
    BY DEF TypeOK, Label
  <2>5. loc' \in [Handle -> Call]
    BY DEF TypeOK, Call, Mode
  <2> QED BY <2>1, <2>2, <2>3, <2>4, <2>5 DEF TypeOK
<1>2. CreateFlag'
  BY DEF TypeOK, CreateFlag, Call
<1>3. LockHeld'
  BY DEF TypeOK, LockHeld, Locked, Call
<1>4. FilesThere'
  BY DEF TypeOK, FilesThere, HasDb, HasWal, Locked, Exists, File, Call, Path
<1>5. IdsDrawn'
  BY DEF TypeOK, IdsDrawn, Exists, FreshIdentity, Creating, Path, Call
<1>6. OneDatabase'
  BY DEF TypeOK, OneDatabase, FreshIdentity, Creating, Exists, Path, Call
<1>7. FreshIdentity'
  BY DEF TypeOK, CreateFlag, FreshIdentity, Creating, IdsDrawn, Exists, Path, Call
<1>8. NewLog'
  BY DEF TypeOK, NewLog, LogIsNew, FilesThere, HasWal, Exists, Path, Call, IdentityMatches, Admitted
<1>9. HeaderRead'
  BY DEF TypeOK, HeaderRead, LockHeld, Locked, Path, Call, FilesThere, HasDb, Exists
<1>10. IdentityMatches'
  BY DEF TypeOK, IdentityMatches, Admitted, LockHeld, Locked, Exists, Path, Call, NewLog, LogIsNew, HeaderRead, FilesThere, HasDb, HasWal
<1>11. CacheCurrent'
  BY DEF TypeOK, CacheCurrent, IdentityMatches, Admitted, Versions, LockHeld, Locked, Exists, Path, Call, NewLog, LogIsNew
<1> QED BY <1>1, <1>2, <1>3, <1>4, <1>5, <1>6, <1>7, <1>8, <1>9, <1>10, <1>11 DEF OwnerInv

\* A close releases no lock but its own.
LEMMA CloseFilesKeeps ==
  ASSUME OwnerInv, NEW h \in Handle, CloseFiles(h)
  PROVE  OwnerInv'
<1> USE OwnerAssumption, ClosedType DEF OwnerInv, CloseFiles, Released
<1>1. TypeOK'
  <2>1. disk' \in [Path -> {Absent} \cup File]
    BY DEF TypeOK, File, Path, Call
  <2>2. lock' \in [Database -> Handle \cup {Free, Leaked}]
    BY DEF TypeOK, Call
  <2>3. drawn' \in SUBSET Identity
    BY DEF TypeOK
  <2>4. pc' \in [Handle -> Label]
    BY DEF TypeOK, Label
  <2>5. loc' \in [Handle -> Call]
    BY DEF TypeOK, Call, Mode
  <2> QED BY <2>1, <2>2, <2>3, <2>4, <2>5 DEF TypeOK
<1>2. CreateFlag'
  BY DEF TypeOK, CreateFlag, Call
<1>3. LockHeld'
  BY DEF TypeOK, LockHeld, Locked, Call
<1>4. FilesThere'
  BY DEF TypeOK, FilesThere, HasDb, HasWal, Locked, Exists, File, Call, Path
<1>5. IdsDrawn'
  BY DEF TypeOK, IdsDrawn, Exists, FreshIdentity, Creating, Path, Call
<1>6. OneDatabase'
  BY DEF TypeOK, OneDatabase, FreshIdentity, Creating, Exists, Path, Call
<1>7. FreshIdentity'
  BY DEF TypeOK, CreateFlag, FreshIdentity, Creating, IdsDrawn, Exists, Path, Call
<1>8. NewLog'
  BY DEF TypeOK, NewLog, LogIsNew, FilesThere, HasWal, Exists, Path, Call, IdentityMatches, Admitted
<1>9. HeaderRead'
  BY DEF TypeOK, HeaderRead, LockHeld, Locked, Path, Call, FilesThere, HasDb, Exists
<1>10. IdentityMatches'
  BY DEF TypeOK, IdentityMatches, Admitted, LockHeld, Locked, Exists, Path, Call, NewLog, LogIsNew, HeaderRead, FilesThere, HasDb, HasWal
<1>11. CacheCurrent'
  BY DEF TypeOK, CacheCurrent, IdentityMatches, Admitted, Versions, LockHeld, Locked, Exists, Path, Call, NewLog, LogIsNew
<1> QED BY <1>1, <1>2, <1>3, <1>4, <1>5, <1>6, <1>7, <1>8, <1>9, <1>10, <1>11 DEF OwnerInv

\* A death releases no lock but its own.
LEMMA DieKeeps ==
  ASSUME OwnerInv, NEW h \in Handle, Die(h)
  PROVE  OwnerInv'
<1> USE OwnerAssumption, ClosedType DEF OwnerInv, Die, Released
<1>1. TypeOK'
  <2>1. disk' \in [Path -> {Absent} \cup File]
    BY DEF TypeOK, File, Path, Call
  <2>2. lock' \in [Database -> Handle \cup {Free, Leaked}]
    BY DEF TypeOK, Call
  <2>3. drawn' \in SUBSET Identity
    BY DEF TypeOK
  <2>4. pc' \in [Handle -> Label]
    BY DEF TypeOK, Label
  <2>5. loc' \in [Handle -> Call]
    BY DEF TypeOK, Call, Mode
  <2> QED BY <2>1, <2>2, <2>3, <2>4, <2>5 DEF TypeOK
<1>2. CreateFlag'
  BY DEF TypeOK, CreateFlag, Call
<1>3. LockHeld'
  BY DEF TypeOK, LockHeld, Locked, Call
<1>4. FilesThere'
  BY DEF TypeOK, FilesThere, HasDb, HasWal, Locked, Exists, File, Call, Path
<1>5. IdsDrawn'
  BY DEF TypeOK, IdsDrawn, Exists, FreshIdentity, Creating, Path, Call
<1>6. OneDatabase'
  BY DEF TypeOK, OneDatabase, FreshIdentity, Creating, Exists, Path, Call
<1>7. FreshIdentity'
  BY DEF TypeOK, CreateFlag, FreshIdentity, Creating, IdsDrawn, Exists, Path, Call
<1>8. NewLog'
  BY DEF TypeOK, NewLog, LogIsNew, FilesThere, HasWal, Exists, Path, Call, IdentityMatches, Admitted
<1>9. HeaderRead'
  BY DEF TypeOK, HeaderRead, LockHeld, Locked, Path, Call, FilesThere, HasDb, Exists
<1>10. IdentityMatches'
  BY DEF TypeOK, IdentityMatches, Admitted, LockHeld, Locked, Exists, Path, Call, NewLog, LogIsNew, HeaderRead, FilesThere, HasDb, HasWal
<1>11. CacheCurrent'
  BY DEF TypeOK, CacheCurrent, IdentityMatches, Admitted, Versions, LockHeld, Locked, Exists, Path, Call, NewLog, LogIsNew
<1> QED BY <1>1, <1>2, <1>3, <1>4, <1>5, <1>6, <1>7, <1>8, <1>9, <1>10, <1>11 DEF OwnerInv

\* Releasing a leaked lock takes it from no handle.
LEMMA ReapKeeps ==
  ASSUME OwnerInv, NEW d \in Database, Reap(d)
  PROVE  OwnerInv'
<1> USE OwnerAssumption DEF OwnerInv, Reap
<1>1. TypeOK'
  <2>1. disk' \in [Path -> {Absent} \cup File]
    BY DEF TypeOK, File, Path, Call
  <2>2. lock' \in [Database -> Handle \cup {Free, Leaked}]
    BY DEF TypeOK, Call
  <2>3. drawn' \in SUBSET Identity
    BY DEF TypeOK
  <2>4. pc' \in [Handle -> Label]
    BY DEF TypeOK, Label
  <2>5. loc' \in [Handle -> Call]
    BY DEF TypeOK, Call, Mode
  <2> QED BY <2>1, <2>2, <2>3, <2>4, <2>5 DEF TypeOK
<1>2. CreateFlag'
  BY DEF TypeOK, CreateFlag, Call
<1>3. LockHeld'
  BY DEF TypeOK, LockHeld, Locked, Call
<1>4. FilesThere'
  BY DEF TypeOK, FilesThere, HasDb, HasWal, Locked, Exists, File, Call, Path
<1>5. IdsDrawn'
  BY DEF TypeOK, IdsDrawn, Exists, FreshIdentity, Creating, Path, Call
<1>6. OneDatabase'
  BY DEF TypeOK, OneDatabase, FreshIdentity, Creating, Exists, Path, Call
<1>7. FreshIdentity'
  BY DEF TypeOK, CreateFlag, FreshIdentity, Creating, IdsDrawn, Exists, Path, Call
<1>8. NewLog'
  BY DEF TypeOK, NewLog, LogIsNew, FilesThere, HasWal, Exists, Path, Call, IdentityMatches, Admitted
<1>9. HeaderRead'
  BY DEF TypeOK, HeaderRead, LockHeld, Locked, Path, Call, FilesThere, HasDb, Exists
<1>10. IdentityMatches'
  BY DEF TypeOK, IdentityMatches, Admitted, LockHeld, Locked, Exists, Path, Call, NewLog, LogIsNew, HeaderRead, FilesThere, HasDb, HasWal
<1>11. CacheCurrent'
  BY DEF TypeOK, CacheCurrent, IdentityMatches, Admitted, Versions, LockHeld, Locked, Exists, Path, Call, NewLog, LogIsNew
<1> QED BY <1>1, <1>2, <1>3, <1>4, <1>5, <1>6, <1>7, <1>8, <1>9, <1>10, <1>11 DEF OwnerInv

\* An exclusively created database is blank and was nobody's.
LEMMA CreateDbKeeps ==
  ASSUME OwnerInv, NEW h \in Handle, CreateDb(h)
  PROVE  OwnerInv'
<1> USE OwnerAssumption DEF OwnerInv, CreateDb, Goto, Create, Blank
<1>1. TypeOK'
  <2>1. disk' \in [Path -> {Absent} \cup File]
    BY DEF TypeOK, File, Path, Call
  <2>2. lock' \in [Database -> Handle \cup {Free, Leaked}]
    BY DEF TypeOK, Call
  <2>3. drawn' \in SUBSET Identity
    BY DEF TypeOK
  <2>4. pc' \in [Handle -> Label]
    BY DEF TypeOK, Label
  <2>5. loc' \in [Handle -> Call]
    <3>1. CASE ~Exists(loc[h].db)
      BY <3>1 DEF TypeOK
    <3>2. CASE Exists(loc[h].db) /\ loc[h].mode = "orCreate"
      <4>1. loc' = [loc EXCEPT ![h].create = FALSE]
        BY <3>2
      <4>2. loc \in [Handle -> Call]
        BY DEF TypeOK
      <4> QED BY <4>1, <4>2, SetCreate, Zenon
    <3>3. CASE Exists(loc[h].db) /\ ~(loc[h].mode = "orCreate")
      BY <3>3 DEF TypeOK
    <3> QED BY <3>1, <3>2, <3>3
  <2> QED BY <2>1, <2>2, <2>3, <2>4, <2>5 DEF TypeOK
<1>2. CreateFlag'
  <2>1. CASE ~Exists(loc[h].db)
    BY <2>1 DEF TypeOK, CreateFlag, Call
  <2>2. CASE Exists(loc[h].db) /\ loc[h].mode = "orCreate"
    BY <2>2 DEF TypeOK, CreateFlag, Call
  <2>3. CASE Exists(loc[h].db) /\ ~(loc[h].mode = "orCreate")
    BY <2>3 DEF TypeOK, CreateFlag, Call
  <2> QED BY <2>1, <2>2, <2>3
<1>3. LockHeld'
  BY DEF TypeOK, LockHeld, Locked, Call
<1>4. FilesThere'
  BY DEF TypeOK, FilesThere, HasDb, HasWal, Locked, Exists, File, Call, Path
<1>5. IdsDrawn'
  BY DEF TypeOK, IdsDrawn, Exists, FreshIdentity, Creating, Path, Call
<1>6. OneDatabase'
  BY DEF TypeOK, OneDatabase, FreshIdentity, Creating, Exists, Path, Call
<1>7. FreshIdentity'
  <2>1. CASE ~Exists(loc[h].db)
    BY <2>1 DEF TypeOK, CreateFlag, FreshIdentity, Creating, IdsDrawn, Exists, Path, Call
  <2>2. CASE Exists(loc[h].db) /\ loc[h].mode = "orCreate"
    BY <2>2 DEF TypeOK, CreateFlag, FreshIdentity, Creating, IdsDrawn, Exists, Path, Call
  <2>3. CASE Exists(loc[h].db) /\ ~(loc[h].mode = "orCreate")
    BY <2>3 DEF TypeOK, CreateFlag, FreshIdentity, Creating, IdsDrawn, Exists, Path, Call
  <2> QED BY <2>1, <2>2, <2>3
<1>8. NewLog'
  <2>1. CASE ~Exists(loc[h].db)
    BY <2>1 DEF TypeOK, NewLog, LogIsNew, FilesThere, HasWal, Exists, Path, Call, IdentityMatches, Admitted
  <2>2. CASE Exists(loc[h].db) /\ loc[h].mode = "orCreate"
    BY <2>2 DEF TypeOK, NewLog, LogIsNew, FilesThere, HasWal, Exists, Path, Call, IdentityMatches, Admitted
  <2>3. CASE Exists(loc[h].db) /\ ~(loc[h].mode = "orCreate")
    BY <2>3 DEF TypeOK, NewLog, LogIsNew, FilesThere, HasWal, Exists, Path, Call, IdentityMatches, Admitted
  <2> QED BY <2>1, <2>2, <2>3
<1>9. HeaderRead'
  BY DEF TypeOK, HeaderRead, LockHeld, Locked, Path, Call, FilesThere, HasDb, Exists
<1>10. IdentityMatches'
  BY DEF TypeOK, IdentityMatches, Admitted, LockHeld, Locked, Exists, Path, Call, NewLog, LogIsNew, HeaderRead, FilesThere, HasDb, HasWal
<1>11. CacheCurrent'
  BY DEF TypeOK, CacheCurrent, IdentityMatches, Admitted, Versions, LockHeld, Locked, Exists, Path, Call, NewLog, LogIsNew
<1> QED BY <1>1, <1>2, <1>3, <1>4, <1>5, <1>6, <1>7, <1>8, <1>9, <1>10, <1>11 DEF OwnerInv

\* An exclusively created log is blank and was nobody's.
LEMMA CreateWalKeeps ==
  ASSUME OwnerInv, NEW h \in Handle, CreateWal(h)
  PROVE  OwnerInv'
<1> USE OwnerAssumption DEF OwnerInv, CreateWal, Goto, Create, Blank
<1>1. TypeOK'
  <2>1. disk' \in [Path -> {Absent} \cup File]
    BY DEF TypeOK, File, Path, Call
  <2>2. lock' \in [Database -> Handle \cup {Free, Leaked}]
    BY DEF TypeOK, Call
  <2>3. drawn' \in SUBSET Identity
    BY DEF TypeOK
  <2>4. pc' \in [Handle -> Label]
    BY DEF TypeOK, Label
  <2>5. loc' \in [Handle -> Call]
    BY DEF TypeOK, Call, Mode
  <2> QED BY <2>1, <2>2, <2>3, <2>4, <2>5 DEF TypeOK
<1>2. CreateFlag'
  BY DEF TypeOK, CreateFlag, Call
<1>3. LockHeld'
  BY DEF TypeOK, LockHeld, Locked, Call
<1>4. FilesThere'
  BY DEF TypeOK, FilesThere, HasDb, HasWal, Locked, Exists, File, Call, Path
<1>5. IdsDrawn'
  BY DEF TypeOK, IdsDrawn, Exists, FreshIdentity, Creating, Path, Call
<1>6. OneDatabase'
  <2>1. \A d \in Database : disk'[d] = disk[d]
    BY DEF TypeOK, Path, Call
  <2> QED BY <2>1 DEF OneDatabase, Exists
<1>7. FreshIdentity'
  BY DEF TypeOK, CreateFlag, FreshIdentity, Creating, IdsDrawn, Exists, Path, Call
<1>8. NewLog'
  BY DEF TypeOK, NewLog, LogIsNew, FilesThere, HasWal, Exists, Path, Call, IdentityMatches, Admitted
<1>9. HeaderRead'
  BY DEF TypeOK, HeaderRead, LockHeld, Locked, Path, Call, FilesThere, HasDb, Exists
<1>10. IdentityMatches'
  BY DEF TypeOK, IdentityMatches, Admitted, LockHeld, Locked, Exists, Path, Call, NewLog, LogIsNew, HeaderRead, FilesThere, HasDb, HasWal
<1>11. CacheCurrent'
  BY DEF TypeOK, CacheCurrent, IdentityMatches, Admitted, Versions, LockHeld, Locked, Exists, Path, Call, NewLog, LogIsNew
<1> QED BY <1>1, <1>2, <1>3, <1>4, <1>5, <1>6, <1>7, <1>8, <1>9, <1>10, <1>11 DEF OwnerInv

\* The database's header gives it an identity no other file has.
LEMMA WriteDbKeeps ==
  ASSUME OwnerInv, NEW h \in Handle, WriteDb(h)
  PROVE  OwnerInv'
<1> USE OwnerAssumption DEF OwnerInv, WriteDb, Goto, Stamp
<1>1. TypeOK'
  <2>1. disk' \in [Path -> {Absent} \cup File]
    BY DEF TypeOK, File, Path, Call, Exists, FilesThere, HasDb, HasWal, Locked
  <2>2. lock' \in [Database -> Handle \cup {Free, Leaked}]
    BY DEF TypeOK, Call
  <2>3. drawn' \in SUBSET Identity
    BY DEF TypeOK
  <2>4. pc' \in [Handle -> Label]
    BY DEF TypeOK, Label
  <2>5. loc' \in [Handle -> Call]
    BY DEF TypeOK, Call, Mode
  <2> QED BY <2>1, <2>2, <2>3, <2>4, <2>5 DEF TypeOK
<1>2. CreateFlag'
  BY DEF TypeOK, CreateFlag, Call
<1>3. LockHeld'
  BY DEF TypeOK, LockHeld, Locked, Call
<1>4. FilesThere'
  BY DEF TypeOK, FilesThere, HasDb, HasWal, Locked, Exists, File, Call, Path
<1>5. IdsDrawn'
  BY DEF TypeOK, IdsDrawn, Exists, FreshIdentity, Creating, Path, Call
<1>6. OneDatabase'
  BY DEF TypeOK, OneDatabase, FreshIdentity, Creating, Exists, Path, Call
<1>7. FreshIdentity'
  BY DEF TypeOK, CreateFlag, FreshIdentity, Creating, IdsDrawn, Exists, Path, Call
<1>8. NewLog'
  BY DEF TypeOK, NewLog, LogIsNew, FilesThere, HasWal, Exists, Path, Call, IdentityMatches, Admitted
<1>9. HeaderRead'
  BY DEF TypeOK, HeaderRead, LockHeld, Locked, Path, Call, FilesThere, HasDb, Exists
<1>10. IdentityMatches'
  BY DEF TypeOK, IdentityMatches, Admitted, LockHeld, Locked, Exists, Path, Call, NewLog, LogIsNew, HeaderRead, FilesThere, HasDb, HasWal
<1>11. CacheCurrent'
  BY DEF TypeOK, CacheCurrent, IdentityMatches, Admitted, Versions, LockHeld, Locked, Exists, Path, Call, NewLog, LogIsNew
<1> QED BY <1>1, <1>2, <1>3, <1>4, <1>5, <1>6, <1>7, <1>8, <1>9, <1>10, <1>11 DEF OwnerInv

\* The log's header goes to a log that nobody else was let in to.
LEMMA WriteWalKeeps ==
  ASSUME OwnerInv, NEW h \in Handle, WriteWal(h)
  PROVE  OwnerInv'
<1> USE OwnerAssumption DEF OwnerInv, WriteWal, Goto, Stamp
<1>1. TypeOK'
  <2>1. disk' \in [Path -> {Absent} \cup File]
    BY DEF TypeOK, File, Path, Call, Exists, FilesThere, HasDb, HasWal, Locked
  <2>2. lock' \in [Database -> Handle \cup {Free, Leaked}]
    BY DEF TypeOK, Call
  <2>3. drawn' \in SUBSET Identity
    BY DEF TypeOK
  <2>4. pc' \in [Handle -> Label]
    BY DEF TypeOK, Label
  <2>5. loc' \in [Handle -> Call]
    BY DEF TypeOK, Call, Mode
  <2> QED BY <2>1, <2>2, <2>3, <2>4, <2>5 DEF TypeOK
<1>2. CreateFlag'
  BY DEF TypeOK, CreateFlag, Call
<1>3. LockHeld'
  BY DEF TypeOK, LockHeld, Locked, Call
<1>4. FilesThere'
  BY DEF TypeOK, FilesThere, HasDb, HasWal, Locked, Exists, File, Call, Path
<1>5. IdsDrawn'
  BY DEF TypeOK, IdsDrawn, Exists, FreshIdentity, Creating, Path, Call
<1>6. OneDatabase'
  BY DEF TypeOK, OneDatabase, FreshIdentity, Creating, Exists, Path, Call
<1>7. FreshIdentity'
  BY DEF TypeOK, CreateFlag, FreshIdentity, Creating, IdsDrawn, Exists, Path, Call
<1>8. NewLog'
  BY DEF TypeOK, NewLog, LogIsNew, FilesThere, HasWal, Exists, Path, Call, IdentityMatches, Admitted
<1>9. HeaderRead'
  BY DEF TypeOK, HeaderRead, LockHeld, Locked, Path, Call, FilesThere, HasDb, Exists
<1>10. IdentityMatches'
  BY DEF TypeOK, IdentityMatches, Admitted, LockHeld, Locked, Exists, Path, Call, NewLog, LogIsNew, HeaderRead, FilesThere, HasDb, HasWal
<1>11. CacheCurrent'
  BY DEF TypeOK, CacheCurrent, IdentityMatches, Admitted, Versions, LockHeld, Locked, Exists, Path, Call, NewLog, LogIsNew
<1> QED BY <1>1, <1>2, <1>3, <1>4, <1>5, <1>6, <1>7, <1>8, <1>9, <1>10, <1>11 DEF OwnerInv

\* A step of an admitted handle on one of its own files: the other handles
\* have other files, and this one keeps its own account.
LEMMA ChangeKeeps ==
  ASSUME OwnerInv, NEW h \in Handle, pc[h] \in {"recover", "open"}, UNCHANGED <<lock, drawn, pc>>,
         NEW p \in {loc[h].db, loc[h].wal}, Change(h, p)
  PROVE  OwnerInv'
<1> USE OwnerAssumption DEF OwnerInv
<1>1. /\ p \in Path
      /\ disk[p] \in File
  BY DEF TypeOK, Path, Call, FilesThere, HasDb, HasWal, Locked, Exists
<1>2. /\ disk'[p] = [id |-> disk[p].id, changes |-> disk[p].changes + 1]
      /\ disk'[p] \in File
      /\ \A q \in Path : q # p => disk'[q] = disk[q]
  BY <1>1 DEF Change, TypeOK, File
<1>3. \A q \in Path : /\ Exists(q)' <=> Exists(q)
                      /\ Exists(q) => disk'[q].id = disk[q].id
  BY <1>1, <1>2 DEF Exists, File
<1>4. loc[h] \in Call /\ loc[h].seen \in Nat \X Nat
  BY DEF TypeOK, Call
<1>5. /\ loc'[h].seen = IF p = loc[h].db
                          THEN <<loc[h].seen[1] + 1, loc[h].seen[2]>>
                          ELSE <<loc[h].seen[1], loc[h].seen[2] + 1>>
      /\ loc' \in [Handle -> Call]
      /\ \A g \in Handle : g # h => loc'[g] = loc[g]
  <2> DEFINE n == IF p = loc[h].db THEN <<loc[h].seen[1] + 1, loc[h].seen[2]>>
                                   ELSE <<loc[h].seen[1], loc[h].seen[2] + 1>>
  <2>1. n \in Nat \X Nat
    BY <1>4
  <2>2. loc' = [loc EXCEPT ![h].seen = n]
    BY DEF Change
  <2>3. loc \in [Handle -> Call]
    BY DEF TypeOK
  <2> HIDE DEF n
  <2>4. loc'[h].seen = n /\ loc' \in [Handle -> Call]
    BY <2>1, <2>2, <2>3, SetSeen
  <2> QED BY <2>2, <2>3, <2>4 DEF n
<1>6. \A g \in Handle : /\ loc'[g].db = loc[g].db /\ loc'[g].wal = loc[g].wal
                        /\ loc'[g].id = loc[g].id /\ loc'[g].create = loc[g].create
  BY DEF Change, TypeOK, Call
<1>7. \A g \in Handle : loc[g].db \in Database /\ loc[g].wal \in Log
  BY DEF TypeOK, Call
<1>8. TypeOK'
  BY <1>1, <1>2, <1>5 DEF TypeOK, Change
<1>9. CreateFlag' /\ LockHeld' /\ FilesThere'
  BY <1>3, <1>6, <1>7 DEF CreateFlag, LockHeld, FilesThere, Path
<1>10. IdsDrawn' /\ OneDatabase'
  BY <1>3 DEF IdsDrawn, OneDatabase, Path
<1>11. FreshIdentity'
  BY <1>3, <1>6 DEF FreshIdentity, Creating
<1>12. NewLog' /\ HeaderRead' /\ IdentityMatches'
  BY <1>3, <1>6, <1>7 DEF NewLog, LogIsNew, HeaderRead, IdentityMatches, Admitted, FilesThere,
     HasDb, HasWal, Locked, Path
<1>13. CacheCurrent'
  <2>1. PairExclusive
    BY DEF PairExclusive, LockHeld, Locked, IdentityMatches, OneDatabase, Admitted, TypeOK, Call
  <2>2. \A g \in Handle : g # h /\ pc[g] \in {"recover", "open"} => Versions(g)' = Versions(g)
    BY <2>1, <1>2, <1>6, <1>7 DEF PairExclusive, Admitted, Versions, Path
  <2>3. loc'[h].seen = Versions(h)'
    <3>1. loc[h].seen = Versions(h) /\ loc[h].db # loc[h].wal
      BY <1>7 DEF CacheCurrent
    <3>2. CASE p = loc[h].db
      BY <3>1, <3>2, <1>2, <1>5, <1>6, <1>7 DEF Versions, Path
    <3>3. CASE p # loc[h].db
      BY <3>1, <3>3, <1>2, <1>5, <1>6, <1>7 DEF Versions, Path
    <3> QED BY <3>2, <3>3
  <2> QED BY <2>2, <2>3, <1>5 DEF CacheCurrent
<1> QED BY <1>8, <1>9, <1>10, <1>11, <1>12, <1>13

\* Recover: a change, or the end of recovery.
LEMMA RecoverKeeps ==
  ASSUME OwnerInv, NEW h \in Handle, Recover(h)
  PROVE  OwnerInv'
<1>1. CASE pc[h] = "recover" /\ UNCHANGED pc /\ \E p \in {loc[h].db, loc[h].wal} : Change(h, p)
  BY <1>1, ChangeKeeps DEF Recover
<1>2. CASE Goto(h, "recover", "open") /\ UNCHANGED <<disk, loc>>
  <2> USE <1>2 DEF OwnerInv, Recover, Goto
  <2>1. TypeOK' /\ CreateFlag' /\ LockHeld'
    BY DEF TypeOK, Label, CreateFlag, LockHeld, Locked
  <2>2. FilesThere' /\ IdsDrawn' /\ OneDatabase'
    BY DEF TypeOK, FilesThere, HasDb, HasWal, Locked, IdsDrawn, OneDatabase, Exists
  <2>3. FreshIdentity' /\ NewLog' /\ HeaderRead'
    BY DEF TypeOK, FreshIdentity, Creating, NewLog, LogIsNew, HeaderRead, Exists
  <2>4. IdentityMatches' /\ CacheCurrent'
    BY DEF TypeOK, IdentityMatches, CacheCurrent, Admitted, Versions, Exists
  <2> QED BY <2>1, <2>2, <2>3, <2>4
<1> QED BY <1>1, <1>2 DEF Recover

\* Operate: the open handle's appends, checkpoints and expiries.
LEMMA OperateKeeps ==
  ASSUME OwnerInv, NEW h \in Handle, Operate(h)
  PROVE  OwnerInv'
  BY ChangeKeeps DEF Operate

\* Fail: what a failed call may have left is what the call itself leaves, so
\* each of its effects is one that was shown harmless above.
LEMMA FailKeeps ==
  ASSUME OwnerInv, NEW h \in Handle, Fail(h)
  PROVE  OwnerInv'
<1> USE OwnerAssumption DEF OwnerInv
<1>1. /\ pc' = [pc EXCEPT ![h] = "close"]
      /\ UNCHANGED <<lock, drawn, loc>>
      /\ pc[h] \notin {"idle", "open", "close"}
  BY DEF Fail
<1>2. \A g \in Handle : /\ g # h => pc'[g] = pc[g]
                        /\ pc'[h] = "close"
  BY <1>1 DEF TypeOK
<1>3. /\ loc[h].db \in Database /\ loc[h].wal \in Log
      /\ \A g \in Handle : loc[g].db \in Database /\ loc[g].wal \in Log
  BY DEF TypeOK, Call
<1>4. CreateFlag' /\ LockHeld'
  BY <1>1, <1>2 DEF CreateFlag, LockHeld, Locked
<1>5. pc' \in [Handle -> Label] /\ lock' = lock /\ drawn' = drawn /\ loc' = loc
  BY <1>1 DEF TypeOK, Label
<1>6. CASE UNCHANGED disk
  <2>1. TypeOK' /\ IdsDrawn' /\ OneDatabase'
    BY <1>5, <1>6 DEF TypeOK, IdsDrawn, OneDatabase, Exists
  <2>2. FilesThere' /\ NewLog' /\ HeaderRead'
    BY <1>2, <1>5, <1>6 DEF FilesThere, HasDb, HasWal, Locked, NewLog, LogIsNew, HeaderRead, Exists
  <2>3. FreshIdentity'
    BY <1>2, <1>5, <1>6 DEF FreshIdentity, Creating, Exists
  <2>4. IdentityMatches' /\ CacheCurrent'
    BY <1>2, <1>5, <1>6 DEF IdentityMatches, CacheCurrent, Admitted, Versions, Exists
  <2> QED BY <1>4, <2>1, <2>2, <2>3, <2>4
<1>7. ASSUME NEW q \in Path, ~Exists(q), Create(q)
      PROVE  OwnerInv'
  <2>1. /\ disk'[q] = Blank /\ Blank \in File /\ Blank.id = NoId
        /\ \A r \in Path : r # q => disk'[r] = disk[r]
        /\ disk' \in [Path -> {Absent} \cup File]
    BY <1>7 DEF Create, Blank, TypeOK, File
  <2>2. Exists(q)' /\ \A r \in Path : Exists(r) => Exists(r)' /\ disk'[r] = disk[r]
    BY <1>7, <2>1 DEF Exists, File
  <2>3. TypeOK' /\ IdsDrawn' /\ OneDatabase'
    BY <1>5, <2>1, <2>2 DEF TypeOK, IdsDrawn, OneDatabase, Path, Exists
  <2>4. FilesThere' /\ NewLog' /\ HeaderRead'
    BY <1>2, <1>3, <1>5, <2>2 DEF FilesThere, HasDb, HasWal, Locked, NewLog, LogIsNew, HeaderRead, Path
  <2>5. FreshIdentity'
    <3>1. \A g \in Handle : Creating(g)' => Creating(g) /\ pc'[g] = pc[g]
      BY <1>2, <1>5 DEF Creating
    <3>2. \A g \in Handle : Creating(g) => loc[g].id # NoId
      BY DEF FreshIdentity, TypeOK
    <3>3. \A r \in Path : Exists(r)' /\ disk'[r].id # NoId => Exists(r) /\ disk'[r] = disk[r]
      BY <2>1, <2>2 DEF Exists
    <3> QED BY <3>1, <3>2, <3>3, <1>5 DEF FreshIdentity
  <2>6. IdentityMatches' /\ CacheCurrent'
    BY <1>2, <1>3, <1>5, <2>2 DEF IdentityMatches, CacheCurrent, Admitted, Versions, Path
  <2> QED BY <1>4, <2>3, <2>4, <2>5, <2>6
<1>8. CASE pc[h] = "writeDb" /\ Stamp(loc[h].db, loc[h].id)
  <2>1. Creating(h) /\ loc[h].id \in drawn /\ Exists(loc[h].db) /\ Exists(loc[h].wal)
    BY <1>8 DEF Creating, FreshIdentity, FilesThere, HasDb, HasWal, Locked
  <2>2. /\ disk'[loc[h].db] = [id |-> loc[h].id, changes |-> disk[loc[h].db].changes]
        /\ \A r \in Path : r # loc[h].db => disk'[r] = disk[r]
    BY <1>8, <1>3 DEF Stamp, TypeOK, Path
  <2>3. disk[loc[h].db] \in File /\ disk'[loc[h].db] \in File
    BY <1>3, <2>1, <2>2 DEF TypeOK, File, Exists, Path
  <2>4. \A r \in Path : Exists(r)' <=> Exists(r)
    BY <2>1, <2>2, <2>3 DEF Exists, File
  <2>5. \A g \in Handle : pc'[g] \in Locked => loc[g].db # loc[h].db
    BY <1>2, <1>8 DEF LockHeld, Locked
  <2>6. TypeOK' /\ IdsDrawn'
    BY <1>3, <1>5, <1>8, <2>1, <2>2, <2>3, <2>4 DEF TypeOK, IdsDrawn, Stamp, Path
  <2>7. OneDatabase'
    <3>1. \A p \in Path : Exists(p) => disk[p].id # loc[h].id
      BY <1>8, <2>1 DEF FreshIdentity
    <3> QED BY <3>1, <2>2, <2>4 DEF OneDatabase, Path
  <2>8. FilesThere' /\ NewLog' /\ HeaderRead'
    BY <1>2, <1>3, <1>5, <2>2, <2>4, <2>5 DEF FilesThere, HasDb, HasWal, Locked, NewLog, LogIsNew,
       HeaderRead, Path
  <2>9. FreshIdentity'
    <3>1. \A g \in Handle : Creating(g)' => Creating(g) /\ pc'[g] = pc[g] /\ g # h
      BY <1>2, <1>5 DEF Creating
    <3> QED BY <3>1, <1>5, <2>1, <2>2, <2>4 DEF FreshIdentity
  <2>10. IdentityMatches' /\ CacheCurrent'
    BY <1>2, <1>3, <1>5, <2>2, <2>4, <2>5 DEF IdentityMatches, CacheCurrent, Admitted, Versions,
       Locked, Path
  <2> QED BY <1>4, <2>6, <2>7, <2>8, <2>9, <2>10
<1>9. CASE pc[h] = "writeWal" /\ Stamp(loc[h].wal, loc[h].id)
  <2>1. Creating(h) /\ loc[h].id \in drawn /\ LogIsNew(h) /\ Exists(loc[h].wal)
    BY <1>9 DEF Creating, LogIsNew, FreshIdentity, FilesThere, HasWal
  <2>2. /\ disk'[loc[h].wal] = [id |-> loc[h].id, changes |-> disk[loc[h].wal].changes]
        /\ \A r \in Path : r # loc[h].wal => disk'[r] = disk[r]
    BY <1>9, <1>3 DEF Stamp, TypeOK, Path
  <2>3. disk[loc[h].wal] \in File /\ disk'[loc[h].wal] \in File
    BY <1>3, <2>1, <2>2 DEF TypeOK, File, Exists, Path
  <2>4. \A r \in Path : Exists(r)' <=> Exists(r)
    BY <2>1, <2>2, <2>3 DEF Exists, File
  <2>5. TypeOK' /\ IdsDrawn'
    BY <1>3, <1>5, <1>9, <2>1, <2>2, <2>3, <2>4 DEF TypeOK, IdsDrawn, Stamp, Path
  <2>6. \A d \in Database : disk'[d] = disk[d]
    BY <1>3, <2>2 DEF Path
  <2>7. OneDatabase' /\ HeaderRead'
    BY <1>2, <1>3, <1>5, <2>4, <2>6 DEF OneDatabase, HeaderRead, Path
  <2>8. FilesThere' /\ NewLog'
    BY <1>2, <1>3, <1>5, <2>1, <2>2, <2>4 DEF FilesThere, HasDb, HasWal, Locked, NewLog, LogIsNew, Path
  <2>9. FreshIdentity'
    <3>1. \A g \in Handle : Creating(g)' => Creating(g) /\ pc'[g] = pc[g] /\ g # h
      BY <1>2, <1>5 DEF Creating
    <3> QED BY <3>1, <1>5, <2>1, <2>2, <2>4 DEF FreshIdentity
  <2>10. \A g \in Handle : Admitted(g)' => pc'[g] = pc[g] /\ loc[g].wal # loc[h].wal
    BY <1>2, <2>1 DEF IdentityMatches, Admitted, NewLog
  <2>11. IdentityMatches' /\ CacheCurrent'
    BY <1>3, <1>5, <2>2, <2>4, <2>6, <2>10 DEF IdentityMatches, CacheCurrent, Admitted, Versions, Path
  <2> QED BY <1>4, <2>5, <2>7, <2>8, <2>9, <2>11
<1> QED BY <1>3, <1>6, <1>7, <1>8, <1>9 DEF Fail, Path

----------------------------------------------------------------------------
(* The theorems                                                             *)

\* The invariant holds initially, over any files without copies.
LEMMA InitOwner == Init => OwnerInv
<1> SUFFICES ASSUME Init PROVE OwnerInv
  OBVIOUS
<1> USE OwnerAssumption
<1>1. \A p \in Path : disk[p] \in {Absent} \cup File /\ (Exists(p) => disk[p].id \in drawn \cup {NoId})
  BY DEF Init, File, Exists
<1>2. TypeOK
  BY <1>1, ClosedType DEF Init, TypeOK, Label, Path
<1>3. IdsDrawn /\ OneDatabase
  BY <1>1 DEF Init, IdsDrawn, OneDatabase
<1> QED BY <1>2, <1>3 DEF OwnerInv, Init, CreateFlag, LockHeld, Locked, FilesThere, HasDb, HasWal,
  FreshIdentity, Creating, NewLog, LogIsNew, HeaderRead, IdentityMatches, Admitted, CacheCurrent

\* Every step keeps the invariant.
LEMMA NextOwner == OwnerInv /\ [Next]_vars => OwnerInv'
<1> SUFFICES ASSUME OwnerInv, [Next]_vars PROVE OwnerInv'
  OBVIOUS
<1>1. ASSUME NEW h \in Handle, NEW m \in Mode, NEW d \in Database, NEW w \in Log, Open(h, m, d, w)
      PROVE  OwnerInv'
  BY <1>1, OpenKeeps
<1>2. ASSUME NEW h \in Handle, Step(h)
      PROVE  OwnerInv'
  BY <1>2, OpenDbKeeps, ProbeKeeps, DrawKeeps, CreateDbKeeps, ReopenDbKeeps, TakeLockKeeps,
     CreateWalKeeps, WriteDbKeeps, WriteWalKeeps, CheckDbKeeps, OpenWalKeeps, ReadDbKeeps,
     ReadWalKeeps, ValidateKeeps, RecoverKeeps, CloseFilesKeeps DEF Step
<1>3. ASSUME NEW h \in Handle, Fail(h) \/ Operate(h) \/ BatchesClose(h) \/ Die(h)
      PROVE  OwnerInv'
  BY <1>3, FailKeeps, OperateKeeps, BatchesCloseKeeps, DieKeeps
<1>4. ASSUME NEW d \in Database, Reap(d)
      PROVE  OwnerInv'
  BY <1>4, ReapKeeps
<1>5. CASE UNCHANGED vars
  BY <1>5 DEF vars, OwnerInv, TypeOK, CreateFlag, LockHeld, FilesThere, IdsDrawn, OneDatabase,
     FreshIdentity, Creating, NewLog, LogIsNew, HeaderRead, IdentityMatches, CacheCurrent,
     Admitted, Versions, Exists
<1> QED BY <1>1, <1>2, <1>3, <1>4, <1>5 DEF Next

\* The invariant always holds.
LEMMA SpecOwner == Spec => []OwnerInv
  BY InitOwner, NextOwner, PTL DEF Spec

\* Two admitted handles with one log have one identity, so one database, so one
\* lock.
LEMMA InvExclusive == OwnerInv => PairExclusive
  BY DEF OwnerInv, PairExclusive, LockHeld, Locked, IdentityMatches, OneDatabase, Admitted, TypeOK, Call

\* However many processes open, create, fail and die, on whatever paths, an
\* admitted handle shares neither its database nor its unlocked log with
\* another one, their two identities agree, and nothing but the handle itself
\* changed the files since timelite_batches_open scanned them.
THEOREM SoleOwner == Spec => [](PairExclusive /\ IdentityMatches /\ CacheCurrent)
<1>1. OwnerInv => PairExclusive /\ IdentityMatches /\ CacheCurrent
  BY InvExclusive DEF OwnerInv
<1> QED BY <1>1, SpecOwner, PTL

\* One step on a log that no database carries the identity of.
LEMMA StepOrphan ==
  ASSUME OwnerInv, [Next]_vars, NEW w \in Log, Exists(w), disk[w].id # NoId,
         \A d \in Database : Exists(d) => disk[d].id # disk[w].id
  PROVE  disk'[w] = disk[w]
<1> USE OwnerAssumption DEF OwnerInv
<1>1. \A h \in Handle : loc[h].db \in Database /\ loc[h].wal \in Log
  BY DEF TypeOK, Call
<1>2. ASSUME NEW h \in Handle, NEW p \in {loc[h].db, loc[h].wal}, Change(h, p), Admitted(h)
      PROVE  disk'[w] = disk[w]
  <2>1. p # w
    BY <1>1, <1>2 DEF IdentityMatches
  <2> QED BY <1>1, <1>2, <2>1 DEF Change, TypeOK, Path
<1>3. ASSUME NEW p \in Path, p # w, NEW i, Create(p) \/ Stamp(p, i)
      PROVE  disk'[w] = disk[w]
  BY <1>3 DEF Create, Stamp, TypeOK, Path
<1>4. \A h \in Handle : pc[h] = "writeWal" => loc[h].wal # w
  BY DEF NewLog, LogIsNew
<1>5. ASSUME NEW h \in Handle, CreateDb(h) \/ CreateWal(h) \/ WriteDb(h) \/ WriteWal(h) \/ Fail(h)
      PROVE  disk'[w] = disk[w]
  <2>1. \/ UNCHANGED disk
        \/ Create(loc[h].db) /\ ~Exists(loc[h].db)
        \/ Create(loc[h].wal) /\ ~Exists(loc[h].wal)
        \/ Stamp(loc[h].db, loc[h].id)
        \/ Stamp(loc[h].wal, loc[h].id) /\ pc[h] = "writeWal"
    BY <1>5 DEF CreateDb, CreateWal, WriteDb, WriteWal, Fail, Goto
  <2>2. loc[h].db # w /\ loc[h].db \in Path /\ loc[h].wal \in Path
    BY <1>1 DEF Path
  <2> QED BY <2>1, <2>2, <1>3, <1>4
<1>6. ASSUME NEW h \in Handle, Recover(h) \/ Operate(h)
      PROVE  disk'[w] = disk[w]
  BY <1>2, <1>6 DEF Recover, Operate, Admitted
<1> QED BY <1>5, <1>6 DEF Next, vars, Step, Open, OpenDb, Probe, Draw, ReopenDb, TakeLock, CheckDb,
  OpenWal, ReadDb, ReadWal, Validate, BatchesClose, CloseFiles, Die, Reap, Released

\* A log that belongs to no database is never changed by any open, create or
\* race: timelite_batches_open refuses it before it could.
THEOREM OrphanSafe == Spec => OrphanLogKept
<1>1. OwnerInv /\ [Next]_vars =>
        [\A w \in Log :
           /\ Exists(w) /\ disk[w].id # NoId
           /\ \A d \in Database : Exists(d) => disk[d].id # disk[w].id
           => disk'[w] = disk[w]]_vars
  BY StepOrphan
<1> QED BY <1>1, SpecOwner, PTL DEF Spec, OrphanLogKept
=============================================================================
