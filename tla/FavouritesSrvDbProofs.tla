----------------------- MODULE FavouritesSrvDbProofs -----------------------
(***************************************************************************)
(* Proofs about the bookmark database: for any number of handles, any rows,  *)
(* names and reference database, a writer is alone and leaves nothing        *)
(* uncommitted behind, files go exactly with their items, the rows are a     *)
(* tree with unique uids and names, and a restore of the factory settings is *)
(* complete and spares the user's own items.                                 *)
(*                                                                         *)
(* The first part (locks and files) does not depend on what the rows hold:   *)
(* a request is there any change of rows.  The second part is about the rows *)
(* and uses of the locks only that a restore runs in a transaction to write. *)
(***************************************************************************)
EXTENDS FavouritesSrvDb, FiniteSetTheorems, WellFoundedInduction, TLAPS

TxType == tx \in [Dbs -> {"closed", "idle", "read", "write", "failed"}]

(* A restore runs in a transaction to write of its client. *)
Restores(d, F, I, M) == [on : BOOLEAN, db : {d}, folders : F, items : I, map : M]
RestoreOf(d, x) == \E F, I, M : x \in Restores(d, F, I, M)
RestoreWrites == rfs = NoRestore \/ \E d \in Dbs : tx[d] = "write" /\ RestoreOf(d, rfs)

(* The inductive invariant of the locks. *)
Locks == TxType /\ RestoreWrites /\ WriterAlone

(* A request on rows that succeeds is a change of the handle's view; what it changes
   does not matter here. *)
RowRequest(d) == /\ Free(d) /\ (\E t : Change(d, t))
                 /\ UNCHANGED <<pending, files, rfs>>

(* A step of a restore changes uncommitted rows only, and ends or gives up. *)
RestoreStep ==
    \E d \in Dbs :
        /\ rfs # NoRestore /\ tx[d] = "write" /\ UNCHANGED <<base, pending, files>>
        /\ \/ RestoreOf(d, rfs') /\ UNCHANGED tx
           \/ rfs' = NoRestore /\ (UNCHANGED tx \/ tx' = [tx EXCEPT ![d] = "failed"])

-----------------------------------------------------------------------------
(* What the requests have in common                                         *)

LEMMA RowRequests ==
  ASSUME NEW d \in Dbs,
         \/ \E item, rename : AddL(d, item, rename)
         \/ \E r, item, rename : UpdateL(d, r, item, rename)
         \/ \E u, item : SetSpecialItemL(d, u, item)
         \/ \E r : DeleteL(d, r) \/ SetReadOnlyL(d, r) \/ SetFactoryItemL(d, r)
  PROVE  RowRequest(d)
<1>1. CASE \E item, rename : AddL(d, item, rename)
  BY <1>1 DEF AddL, RowRequest
<1>2. CASE \E r, item, rename : UpdateL(d, r, item, rename)
  BY <1>2 DEF UpdateL, RowRequest
<1>3. CASE \E u, item : SetSpecialItemL(d, u, item)
  BY <1>3 DEF SetSpecialItemL, RowRequest
<1>4. CASE \E r : DeleteL(d, r) \/ SetReadOnlyL(d, r) \/ SetFactoryItemL(d, r)
  BY <1>4 DEF DeleteL, SetReadOnlyL, SetFactoryItemL, RowRequest
<1>. QED
  BY <1>1, <1>2, <1>3, <1>4

(* What is updated in the record of a restore leaves its handle alone. *)
LEMMA RestoreUpdates ==
  ASSUME NEW d, NEW F, NEW I, NEW M, NEW r \in Restores(d, F, I, M), NEW x, NEW y
  PROVE  /\ RestoreOf(d, [r EXCEPT !.items = x])
         /\ RestoreOf(d, [r EXCEPT !.folders = x, !.map = y])
<1>1. [r EXCEPT !.items = x] \in Restores(d, F, {x}, M)
  BY DEF Restores
<1>2. [r EXCEPT !.folders = x] \in Restores(d, {x}, I, M)
  BY DEF Restores
<1>3. \A s \in Restores(d, {x}, I, M) : [s EXCEPT !.map = y] \in Restores(d, {x}, I, {y})
  BY DEF Restores
<1>4. [r EXCEPT !.folders = x, !.map = y] \in Restores(d, {x}, I, {y})
  BY <1>2, <1>3
<1>. QED
  BY <1>1, <1>4 DEF RestoreOf

LEMMA RestoreSteps ==
  ASSUME RestoreWrites, RestoreFolder \/ RestoreItem \/ RestoreDone
  PROVE  RestoreStep
<1>1. rfs # NoRestore
  <2>1. rfs.on
    BY DEF RestoreFolder, RestoreItem, RestoreDone
  <2>2. ~NoRestore.on
    BY DEF NoRestore
  <2>. QED
    BY <2>1, <2>2
<1>2. PICK d \in Dbs : tx[d] = "write" /\ RestoreOf(d, rfs)
  BY <1>1 DEF RestoreWrites
<1>3. PICK F, I, M : rfs \in Restores(d, F, I, M)
  BY <1>2 DEF RestoreOf
<1>4. rfs.db = d
  BY <1>3 DEF Restores
<1>5. CASE RestoreFolder
  <2>1. UNCHANGED <<base, pending, files>>
    BY <1>5 DEF RestoreFolder
  <2>2. \/ UNCHANGED tx /\ \E x, y : rfs' = [rfs EXCEPT !.folders = x, !.map = y]
        \/ rfs' = NoRestore /\ tx' = [tx EXCEPT ![d] = "failed"]
    BY <1>4, <1>5 DEF RestoreFolder
  <2>3. ASSUME NEW x, NEW y, rfs' = [rfs EXCEPT !.folders = x, !.map = y]
        PROVE  RestoreOf(d, rfs')
    BY <2>3, <1>3, RestoreUpdates
  <2>. QED
    BY <1>1, <1>2, <2>1, <2>2, <2>3 DEF RestoreStep
<1>6. CASE RestoreItem
  <2>1. UNCHANGED <<base, tx, pending, files>> /\ \E x : rfs' = [rfs EXCEPT !.items = x]
    BY <1>6 DEF RestoreItem
  <2>2. ASSUME NEW x, rfs' = [rfs EXCEPT !.items = x]
        PROVE  RestoreOf(d, rfs')
    BY <2>2, <1>3, RestoreUpdates
  <2>. QED
    BY <1>1, <1>2, <2>1, <2>2 DEF RestoreStep
<1>7. CASE RestoreDone
  BY <1>1, <1>2, <1>7 DEF RestoreDone, RestoreStep
<1>. QED
  BY <1>5, <1>6, <1>7

(* The closing of a handle; what it cannot delete are files that are there. *)
Closes(d) == \E whole \in BOOLEAN, stuck \in SUBSET files : Close(d, whole, stuck)

LEMMA ClosingSteps == ASSUME NEW d \in Dbs, CloseSome(d) PROVE Closes(d)
BY DEF CloseSome, Closes

(* The steps, with the requests on rows and the steps of a restore taken together. *)
LEMMA RequestSteps ==
  ASSUME NEW d \in Dbs, Request(d)
  PROVE  \/ Open(d) \/ CommitL(d) \/ Rollback(d) \/ RowRequest(d)
         \/ FileOpenWrite(d) \/ RestoreFactorySettingsL(d)
         \/ \E write \in BOOLEAN : BeginL(d, write)
         \/ \E u : FileOpen(d, u) \/ FileDelete(d, u)
BY RowRequests DEF Request

LEMMA Steps ==
  ASSUME RestoreWrites, [Next]_vars
  PROVE  \/ UNCHANGED vars \/ DeleteDatabase \/ Crash \/ RestoreStep
         \/ \E d \in Dbs : \/ Open(d) \/ Closes(d) \/ CommitL(d) \/ Rollback(d) \/ RowRequest(d)
                           \/ FileOpenWrite(d) \/ RestoreFactorySettingsL(d)
                           \/ \E write \in BOOLEAN : BeginL(d, write)
                           \/ \E u : FileOpen(d, u) \/ FileDelete(d, u)
BY RequestSteps, RestoreSteps, ClosingSteps DEF Next

-----------------------------------------------------------------------------
(* The locks                                                                *)

USE DEF Locks, TxType, RestoreWrites, WriterAlone, Locking, Writing

LEMMA InitLocks == Init => Locks
BY DEF Init

LEMMA OpenLocks == ASSUME Locks, NEW d \in Dbs, Open(d) PROVE Locks'
BY DEF Open, Ready
LEMMA CloseLocks == ASSUME Locks, NEW d \in Dbs, Closes(d) PROVE Locks'
BY DEF Closes, Close, Ready, RolledBack
LEMMA CommitLocks == ASSUME Locks, NEW d \in Dbs, CommitL(d) PROVE Locks'
BY DEF CommitL, Free, Ready, View
LEMMA RollbackLocks == ASSUME Locks, NEW d \in Dbs, Rollback(d) PROVE Locks'
BY DEF Rollback, Ready, RolledBack
LEMMA BeginLocks ==
  ASSUME Locks, NEW d \in Dbs, NEW write \in BOOLEAN, BeginL(d, write) PROVE Locks'
BY DEF BeginL, Free, Ready, CanRead, CanWrite, Others
LEMMA RowLocks == ASSUME Locks, NEW d \in Dbs, RowRequest(d) PROVE Locks'
BY DEF RowRequest, Change, Free, Ready, CanWrite, Others
LEMMA StartLocks == ASSUME Locks, NEW d \in Dbs, RestoreFactorySettingsL(d) PROVE Locks'
<1>1. PICK f, i, m : rfs' = [on |-> TRUE, db |-> d, folders |-> f, items |-> i, map |-> m]
  BY DEF RestoreFactorySettingsL
<1>2. rfs' \in Restores(d, {f}, {i}, {m})
  BY <1>1 DEF Restores
<1>3. RestoreOf(d, rfs')
  BY <1>2 DEF RestoreOf
<1>. QED
  BY <1>3 DEF RestoreFactorySettingsL, Free, Ready
LEMMA RestoreLocks == ASSUME Locks, RestoreStep PROVE Locks'
BY DEF RestoreStep
LEMMA FileLocks ==
  ASSUME Locks, NEW d \in Dbs,
         FileOpenWrite(d) \/ \E u : FileOpen(d, u) \/ FileDelete(d, u)
  PROVE  Locks'
BY DEF FileOpenWrite, FileOpen, FileDelete
LEMMA OtherLocks == ASSUME Locks, DeleteDatabase \/ Crash \/ UNCHANGED vars PROVE Locks'
BY DEF DeleteDatabase, Crash, Ready, vars

LEMMA LocksHold == Spec => []Locks
<1>1. Locks /\ [Next]_vars => Locks'
  BY Steps, OpenLocks, CloseLocks, CommitLocks, RollbackLocks, BeginLocks, RowLocks, StartLocks,
     RestoreLocks, FileLocks, OtherLocks
<1>. QED
  BY InitLocks, <1>1, PTL DEF Spec

(* For any number of handles: while a transaction writes no other one reads or writes, *)
(* and without one nothing is uncommitted (BeginL, ~CFavouritesSrvDb).                 *)
THEOREM WriterIsAlone == Spec => []WriterAlone
<1>1. Locks => WriterAlone
  OBVIOUS
<1>. QED
  BY LocksHold, <1>1, PTL

-----------------------------------------------------------------------------
(* The files                                                                *)

(* Only the closing of a handle and FileDelete remove files. *)
LEMMA FilesShrink ==
  ASSUME RestoreWrites, [Next]_vars
  PROVE  \/ files \subseteq files'
         \/ \E d \in Dbs : Closes(d) \/ \E u : FileDelete(d, u) /\ files' = files \ {u}
<1>1. ASSUME NEW d \in Dbs,
             \/ Open(d) \/ CommitL(d) \/ Rollback(d) \/ RowRequest(d)
             \/ FileOpenWrite(d) \/ RestoreFactorySettingsL(d)
             \/ (\E write \in BOOLEAN : BeginL(d, write))
             \/ \E u : FileOpen(d, u)
      PROVE  files \subseteq files'
  BY <1>1 DEF Open, CommitL, Rollback, RowRequest, FileOpenWrite, RestoreFactorySettingsL,
     BeginL, FileOpen
<1>2. ASSUME UNCHANGED vars \/ DeleteDatabase \/ Crash \/ RestoreStep
      PROVE  files \subseteq files'
  BY <1>2 DEF vars, DeleteDatabase, Crash, RestoreStep
<1>3. ASSUME NEW d \in Dbs, NEW u, FileDelete(d, u)
      PROVE  files' = files \ {u}
  BY <1>3 DEF FileDelete
<1>. QED
  BY <1>1, <1>2, <1>3, Steps

(* The clean-up at the closing of a handle keeps the files of the committed items. *)
LEMMA CloseKeeps ==
  ASSUME NEW d \in Dbs, Closes(d)
  PROVE  files \cap Uids(base') \subseteq files'
<1>1. PICK t \in RolledBack(d), whole \in BOOLEAN, stuck \in SUBSET files :
        base' = t /\ files' = CleanedFiles(d, t, whole, stuck)
  BY DEF Closes, Close
<1>. QED
  BY <1>1 DEF CleanedFiles

(* For any number of handles: the file of an item that is and stays committed goes     *)
(* only at a client's request to delete it, never with a deletion that is rolled back   *)
(* nor with the clean-up of orphaned files (DeleteL, DeleteOrphanedFilesL).            *)
THEOREM FilesStay == Spec => FilesKept
<1>1. ASSUME Locks, [Next]_vars,
             NEW u \in (files \ files') \cap Uids(base) \cap Uids(base')
      PROVE  \E d \in Dbs : FileDelete(d, u)
  <2>1. ASSUME NEW d \in Dbs, Closes(d) PROVE FALSE
    <3>1. files \cap Uids(base') \subseteq files'
      BY <2>1, CloseKeeps
    <3>. QED
      BY <1>1, <3>1
  <2>2. ASSUME NEW d \in Dbs, NEW v, FileDelete(d, v), files' = files \ {v}
        PROVE  FileDelete(d, u)
    BY <1>1, <2>2
  <2>. QED
    BY <1>1, <2>1, <2>2, FilesShrink
<1>2. Locks /\ [Next]_vars =>
        \A u \in (files \ files') \cap Uids(base) \cap Uids(base') : \E d \in Dbs : FileDelete(d, u)
  BY <1>1
<1>. QED
  BY <1>2, LocksHold, PTL DEF Spec, FilesKept

(* A file is only about to be written through a handle that is open. *)
PendingOpen ==
    /\ pending = [d \in Dbs |-> pending[d]]
    /\ \A d \in Dbs : pending[d] # NullUid => tx[d] # "closed"

LEMMA PendingSteps == ASSUME Locks, PendingOpen, [Next]_vars PROVE PendingOpen'
<1>1. ASSUME NEW d \in Dbs,
             \/ Open(d) \/ CommitL(d) \/ Rollback(d) \/ RowRequest(d)
             \/ RestoreFactorySettingsL(d) \/ \E write \in BOOLEAN : BeginL(d, write)
      PROVE  UNCHANGED pending /\ \A e \in Dbs : tx[e] # "closed" => tx'[e] # "closed"
  BY <1>1 DEF Open, CommitL, Rollback, RowRequest, Change, RestoreFactorySettingsL, BeginL
<1>2. ASSUME UNCHANGED vars \/ DeleteDatabase \/ RestoreStep
      PROVE  UNCHANGED pending /\ \A e \in Dbs : tx[e] # "closed" => tx'[e] # "closed"
  BY <1>2 DEF vars, DeleteDatabase, RestoreStep
<1>3. CASE Crash
  BY <1>3 DEF Crash, PendingOpen
<1>4. ASSUME NEW d \in Dbs, Closes(d) PROVE PendingOpen'
  BY <1>4 DEF Closes, Close, PendingOpen
<1>5. ASSUME NEW d \in Dbs, FileOpenWrite(d) \/ \E u : FileOpen(d, u) \/ FileDelete(d, u)
      PROVE  PendingOpen'
  BY <1>5 DEF FileOpenWrite, FileOpen, FileDelete, Free, PendingOpen
<1>6. UNCHANGED pending /\ (\A e \in Dbs : tx[e] # "closed" => tx'[e] # "closed")
        => PendingOpen'
  BY DEF PendingOpen
<1>. QED
  BY <1>1, <1>2, <1>3, <1>4, <1>5, <1>6, Steps

(* The handle that is closed last can read, so that it cleans up. *)
LEMMA CloseCleans ==
  ASSUME TxType, NEW d \in Dbs, Closes(d), \A e \in Dbs : tx'[e] = "closed"
  PROVE  files' \subseteq Uids(base') \cup spared'
<1>1. PICK t \in RolledBack(d), whole \in BOOLEAN, stuck \in SUBSET files :
        /\ base' = t /\ files' = CleanedFiles(d, t, whole, stuck)
        /\ spared' = IF whole THEN stuck ELSE files
        /\ tx' = [tx EXCEPT ![d] = "closed"]
  BY DEF Closes, Close
<1>2. \A e \in Dbs \ {d} : tx[e] = "closed"
  BY <1>1
<1>3. CanRead(d)
  BY <1>2 DEF CanRead
<1>. QED
  BY <1>1, <1>3 DEF CleanedFiles

(* For any number of handles and any events: once all handles are closed, the files   *)
(* without an item are those that the clean-up of the handle that was closed last      *)
(* could not delete or did not see, or that a crash left, whatever was deleted, rolled  *)
(* back or left half-way before (~CFavouritesSrvDb, DeleteOrphanedFilesL).             *)
THEOREM NoOrphans == Spec => []NoOrphanLeft
<1>1. Init => NoOrphanLeft /\ PendingOpen
  BY DEF Init, NoOrphanLeft, PendingOpen
<1>2. ASSUME Locks, PendingOpen, NoOrphanLeft, [Next]_vars PROVE NoOrphanLeft'
  <2>. SUFFICES ASSUME base' # NoDatabase, \A d \in Dbs : tx'[d] = "closed"
                PROVE  files' \subseteq Uids(base') \cup spared'
    BY DEF NoOrphanLeft
  <2>1. CASE UNCHANGED vars
    BY <1>2, <2>1 DEF vars, NoOrphanLeft
  <2>2. CASE DeleteDatabase \/ Crash
    BY <2>2 DEF DeleteDatabase, Crash
  <2>3. ~RestoreStep
    BY <1>2 DEF RestoreStep
  <2>4. ASSUME NEW d \in Dbs, Closes(d) PROVE files' \subseteq Uids(base') \cup spared'
    BY <1>2, <2>4, CloseCleans
  <2>5. ASSUME NEW d \in Dbs,
               \/ Open(d) \/ CommitL(d) \/ Rollback(d) \/ RestoreFactorySettingsL(d)
               \/ \E write \in BOOLEAN : BeginL(d, write)
        PROVE  FALSE
    BY <1>2, <2>5 DEF Open, CommitL, Rollback, RestoreFactorySettingsL, BeginL, Free
  <2>6. ASSUME NEW d \in Dbs, RowRequest(d) PROVE FALSE
    BY <1>2, <2>6 DEF RowRequest, Change, Free
  <2>7. ASSUME NEW d \in Dbs, FileOpenWrite(d) \/ \E u : FileOpen(d, u) \/ FileDelete(d, u)
        PROVE  FALSE
    BY <1>2, <2>7 DEF FileOpenWrite, FileOpen, FileDelete, Free, PendingOpen
  <2>. QED
    BY <1>2, <2>1, <2>2, <2>3, <2>4, <2>5, <2>6, <2>7, Steps
<1>3. Locks /\ PendingOpen /\ NoOrphanLeft /\ [Next]_vars => PendingOpen' /\ NoOrphanLeft'
  BY <1>2, PendingSteps
<1>. QED
  BY <1>1, <1>3, LocksHold, PTL DEF Spec

-----------------------------------------------------------------------------
HIDE DEF Locks, TxType, RestoreWrites, WriterAlone, Locking, Writing

-----------------------------------------------------------------------------
(* The tables                                                               *)

BookmarkRow == {r \in [uid : Int, parent : Int, type : Types, name : Name \cup {NoName},
                       ro : BOOLEAN, fact : BOOLEAN] :
                   /\ r.name = NoName <=> r.uid = Root
                   /\ r.uid = Root => r.parent = NullUid}

(* Every row was inserted with a number from the counter, special items included. *)
Numbered(t) ==
    /\ IsFiniteSet(t.rows) /\ Cardinality(t.rows) <= t.next
    /\ \A r \in t.rows : r.uid \in Special \cup {Root} \/ r.uid \in 1 .. t.next - 1

Db(t) ==
    /\ t.rows \subseteq BookmarkRow /\ t.next \in Nat
    /\ t = [rows |-> t.rows, next |-> t.next]
    /\ Tree(t) /\ UidsUnique(t) /\ Numbered(t)

Table(rows, next) == [rows |-> rows, next |-> next]

(* What a request makes of a table. *)
Keeps(t, u) == Db(u) /\ t.next <= u.next /\ (NamesIn(t) => NamesIn(u))

LEMMA TableFields ==
  ASSUME NEW R, NEW n
  PROVE  /\ Table(R, n).rows = R /\ Table(R, n).next = n
         /\ Table(R, n) = [rows |-> Table(R, n).rows, next |-> Table(R, n).next]
BY DEF Table

LEMMA DbFields ==
  ASSUME NEW t, Db(t), NEW R
  PROVE  [t EXCEPT !.rows = R] = Table(R, t.next)
BY DEF Db, Table

LEMMA RowFields ==
  ASSUME NEW r \in BookmarkRow
  PROVE  /\ r \in [uid : Int, parent : Int, type : Types, name : Name \cup {NoName},
                   ro : BOOLEAN, fact : BOOLEAN]
         /\ r.uid \in Int /\ r.parent \in Int /\ r.type \in Types
         /\ r.name \in Name \cup {NoName} /\ (r.name = NoName <=> r.uid = Root)
         /\ (r.uid = Root => r.parent = NullUid)
         /\ r.ro \in BOOLEAN /\ r.fact \in BOOLEAN
BY DEF BookmarkRow

(* A row with a new uid under a folder that is there. *)
LEMMA AddDb ==
  ASSUME NEW t, Db(t), NEW x \in BookmarkRow, x.uid # Root, x.uid \notin Uids(t),
         x.uid \in Special \/ x.uid \in 1 .. t.next,
         Folder(t, x.parent), x.type = "folder" => x.parent = Root
  PROVE  Db(Table(t.rows \cup {x}, t.next + 1))
<1> DEFINE u == Table(t.rows \cup {x}, t.next + 1)
<1>1. /\ u.rows = t.rows \cup {x} /\ u.next = t.next + 1
      /\ u = [rows |-> u.rows, next |-> u.next]
  BY TableFields
<1> HIDE DEF u
<1>2. u.rows \subseteq BookmarkRow /\ u.next \in Nat /\ t.next \in Nat
  BY <1>1 DEF Db
<1>3. Tree(u)
  BY <1>1 DEF Db, Tree, Folder
<1>4. UidsUnique(u)
  <2>1. \A r \in t.rows : r.uid # x.uid
    BY DEF Uids
  <2>2. \A r, q \in t.rows : r.uid = q.uid => r = q
    BY DEF Db, UidsUnique
  <2>. QED BY <1>1, <2>1, <2>2 DEF UidsUnique
<1>5. x \notin t.rows
  BY DEF Uids
<1>6. IsFiniteSet(t.rows) /\ Cardinality(t.rows) <= t.next
  BY DEF Db, Numbered
<1>7. IsFiniteSet(u.rows) /\ Cardinality(u.rows) = Cardinality(t.rows) + 1
  <2> DEFINE T == t.rows
  <2>1. IsFiniteSet(T) /\ x \notin T
    BY <1>5, <1>6
  <2> HIDE DEF T
  <2>2. IsFiniteSet(T \cup {x}) /\ Cardinality(T \cup {x}) = Cardinality(T) + 1
    BY <2>1, FS_AddElement
  <2>. QED BY <1>1, <2>2 DEF T
<1>8. Cardinality(t.rows) \in Nat
  BY <1>6, FS_CardinalityType
<1>9. Cardinality(u.rows) <= u.next
  BY <1>1, <1>2, <1>6, <1>7, <1>8
<1>10. ASSUME NEW r \in u.rows PROVE r.uid \in Special \cup {Root} \/ r.uid \in 1 .. u.next - 1
  <2>1. u.next - 1 = t.next
    BY <1>1, <1>2
  <2>2. CASE r = x
    BY <2>1, <2>2
  <2>3. CASE r \in t.rows
    <3>1. r.uid \in Special \cup {Root} \/ r.uid \in 1 .. t.next - 1
      BY <2>3 DEF Db, Numbered
    <3>. QED BY <3>1, <2>1, <1>2
  <2>. QED BY <1>1, <2>2, <2>3
<1>. QED
  BY <1>1, <1>2, <1>3, <1>4, <1>7, <1>9, <1>10 DEF Db, Numbered, u

(* A row for another with the same uid and type, under a folder that is there. *)
LEMMA ReplaceDb ==
  ASSUME NEW t, Db(t), NEW r \in t.rows, NEW x \in BookmarkRow,
         x.uid = r.uid, x.type = r.type,
         x.parent = r.parent \/ (Folder(t, x.parent) /\ (x.type = "folder" => x.parent = Root))
  PROVE  Db(Table((t.rows \ {r}) \cup {x}, t.next))
<1> DEFINE u == Table((t.rows \ {r}) \cup {x}, t.next)
<1>1. /\ u.rows = (t.rows \ {r}) \cup {x} /\ u.next = t.next
      /\ u = [rows |-> u.rows, next |-> u.next]
  BY TableFields
<1> HIDE DEF u
<1>2. u.rows \subseteq BookmarkRow /\ u.next \in Nat
  BY <1>1 DEF Db
<1>3. \A v : Folder(t, v) => Folder(u, v)
  BY <1>1 DEF Folder
<1>4. Tree(u)
  BY <1>1, <1>3 DEF Db, Tree
<1>5. UidsUnique(u)
  BY <1>1 DEF Db, UidsUnique
<1>6. IsFiniteSet(t.rows) /\ Cardinality(t.rows) <= t.next
  BY DEF Db, Numbered
<1>7. x \notin t.rows \ {r}
  BY DEF Db, UidsUnique
<1> DEFINE S == t.rows \ {r}
<1>8. IsFiniteSet(S) /\ Cardinality(S) = Cardinality(t.rows) - 1
  BY <1>6, FS_RemoveElement
<1>9. IsFiniteSet(u.rows) /\ Cardinality(u.rows) = Cardinality(S) + 1
  <2>1. u.rows = S \cup {x} /\ x \notin S
    BY <1>1, <1>7
  <2> HIDE DEF S
  <2>. QED BY <2>1, <1>8, FS_AddElement
<1>10. Cardinality(t.rows) \in Nat
  BY <1>6, FS_CardinalityType
<1>11. Cardinality(u.rows) <= u.next
  BY <1>1, <1>2, <1>6, <1>8, <1>9, <1>10
<1>12. \A q \in u.rows : q.uid \in Special \cup {Root} \/ q.uid \in 1 .. u.next - 1
  BY <1>1 DEF Db, Numbered
<1>. QED
  BY <1>1, <1>2, <1>4, <1>5, <1>9, <1>11, <1>12 DEF Db, Numbered, u

(* Rows go; no row stays without its folder. *)
LEMMA RemoveDb ==
  ASSUME NEW t, Db(t), NEW S \in SUBSET t.rows,
         \A c \in S : c.uid # Root,
         \A c \in S, r \in t.rows \ S : c.type = "folder" /\ c.uid = r.parent => r.uid = Root
  PROVE  Db(Table(t.rows \ S, t.next))
<1> DEFINE u == Table(t.rows \ S, t.next)
<1>1. /\ u.rows = t.rows \ S /\ u.next = t.next
      /\ u = [rows |-> u.rows, next |-> u.next]
  BY TableFields
<1> HIDE DEF u
<1>2. u.rows \subseteq BookmarkRow /\ u.next \in Nat
  BY <1>1 DEF Db
<1>3. Folder(u, Root)
  BY <1>1 DEF Db, Tree, Folder
<1>4. ASSUME NEW r \in u.rows, r.uid # Root
      PROVE  Folder(u, r.parent) /\ (r.type = "folder" => r.parent = Root)
  <2>1. Folder(t, r.parent) /\ (r.type = "folder" => r.parent = Root)
    BY <1>1, <1>4 DEF Db, Tree
  <2>2. PICK f \in t.rows : f.uid = r.parent /\ f.type = "folder"
    BY <2>1 DEF Folder
  <2>3. f \in u.rows
    BY <1>1, <1>4, <2>2
  <2>. QED BY <2>1, <2>2, <2>3 DEF Folder
<1>5. Tree(u)
  BY <1>3, <1>4 DEF Tree
<1>6. UidsUnique(u)
  BY <1>1 DEF Db, UidsUnique
<1>7. IsFiniteSet(t.rows) /\ Cardinality(t.rows) <= t.next
  BY DEF Db, Numbered
<1>8. IsFiniteSet(u.rows) /\ Cardinality(u.rows) <= Cardinality(t.rows)
  BY <1>1, <1>7, FS_Subset
<1>9. Cardinality(t.rows) \in Nat /\ Cardinality(u.rows) \in Nat
  BY <1>7, <1>8, FS_CardinalityType
<1>10. Cardinality(u.rows) <= u.next
  BY <1>1, <1>2, <1>7, <1>8, <1>9
<1>11. \A q \in u.rows : q.uid \in Special \cup {Root} \/ q.uid \in 1 .. u.next - 1
  BY <1>1 DEF Db, Numbered
<1>. QED
  BY <1>1, <1>2, <1>5, <1>6, <1>8, <1>10, <1>11 DEF Db, Numbered, u

LEMMA RemoveNames ==
  ASSUME NEW t, NEW S, NamesIn(t), NEW n
  PROVE  NamesIn(Table(t.rows \ S, n))
BY TableFields DEF NamesIn

LEMMA AddNames ==
  ASSUME NEW t, NamesIn(t), NEW x, NEW n,
         \/ x.uid \in Special
         \/ \A q \in t.rows : q.parent = x.parent /\ q.uid \notin Special => q.name # x.name
  PROVE  NamesIn(Table(t.rows \cup {x}, n))
<1>1. Table(t.rows \cup {x}, n).rows = t.rows \cup {x}
  BY TableFields
<1>2. ASSUME NEW r \in t.rows \cup {x}, NEW q \in t.rows \cup {x},
             r.parent = q.parent, r.name = q.name, r # q
      PROVE  {r.uid, q.uid} \cap Special # {}
  <2>1. CASE r \in t.rows /\ q \in t.rows
    BY <1>2, <2>1 DEF NamesIn
  <2>2. CASE r \in t.rows /\ q = x
    BY <1>2, <2>2
  <2>3. CASE r = x /\ q \in t.rows
    BY <1>2, <2>3
  <2>. QED BY <1>2, <2>1, <2>2, <2>3
<1>. QED BY <1>1, <1>2 DEF NamesIn

LEMMA ReplaceNames ==
  ASSUME NEW t, NamesIn(t), NEW r \in t.rows, NEW x, NEW n, x.uid = r.uid,
         \/ x.uid \in Special
         \/ x.parent = r.parent /\ x.name = r.name
         \/ \A q \in t.rows : q.parent = x.parent /\ q.uid \notin Special /\ q # r
                                => q.name # x.name
  PROVE  NamesIn(Table((t.rows \ {r}) \cup {x}, n))
<1> DEFINE S == t.rows \ {r}
<1>1. NamesIn(Table(S, n))
  BY RemoveNames
<1>2. Table(S, n).rows = S
  BY TableFields
<1>3. \/ x.uid \in Special
      \/ \A q \in S : q.parent = x.parent /\ q.uid \notin Special => q.name # x.name
  BY DEF NamesIn
<1> HIDE DEF S
<1>4. NamesIn(Table(Table(S, n).rows \cup {x}, n))
  BY <1>1, <1>2, <1>3, AddNames
<1>. QED BY <1>4, <1>2 DEF S

Unflag(r) == IF r.fact THEN [r EXCEPT !.fact = FALSE, !.ro = FALSE] ELSE r

LEMMA UnflagRow ==
  ASSUME NEW r \in BookmarkRow
  PROVE  /\ Unflag(r) \in BookmarkRow /\ Unflag(r).uid = r.uid /\ Unflag(r).parent = r.parent
         /\ Unflag(r).type = r.type /\ Unflag(r).name = r.name
<1> DEFINE RT == [uid : Int, parent : Int, type : Types, name : Name \cup {NoName},
                  ro : BOOLEAN, fact : BOOLEAN]
<1>1. \A q \in RT : /\ [q EXCEPT !.fact = FALSE] \in RT
                    /\ [q EXCEPT !.fact = FALSE].uid = q.uid
                    /\ [q EXCEPT !.fact = FALSE].parent = q.parent
                    /\ [q EXCEPT !.fact = FALSE].type = q.type
                    /\ [q EXCEPT !.fact = FALSE].name = q.name
  OBVIOUS
<1>2. \A q \in RT : /\ [q EXCEPT !.ro = FALSE] \in RT
                    /\ [q EXCEPT !.ro = FALSE].uid = q.uid
                    /\ [q EXCEPT !.ro = FALSE].parent = q.parent
                    /\ [q EXCEPT !.ro = FALSE].type = q.type
                    /\ [q EXCEPT !.ro = FALSE].name = q.name
  OBVIOUS
<1>3. r \in RT
  BY DEF BookmarkRow
<1> DEFINE s == [r EXCEPT !.fact = FALSE]
<1>4. /\ s \in RT /\ s.uid = r.uid /\ s.parent = r.parent /\ s.type = r.type /\ s.name = r.name
  BY <1>1, <1>3
<1>5. [r EXCEPT !.fact = FALSE, !.ro = FALSE] = [s EXCEPT !.ro = FALSE]
  OBVIOUS
<1> HIDE DEF s
<1> DEFINE w == [s EXCEPT !.ro = FALSE]
<1>6. /\ w \in RT /\ w.uid = s.uid /\ w.parent = s.parent /\ w.type = s.type /\ w.name = s.name
  BY <1>2, <1>4
<1> HIDE DEF w
<1>7. Unflag(r) = r \/ Unflag(r) = w
  BY <1>5 DEF Unflag, w
<1>. QED BY <1>3, <1>4, <1>6, <1>7 DEF BookmarkRow

(* Flags of all rows change. *)
LEMMA UnflagDb ==
  ASSUME NEW t, Db(t)
  PROVE  LET u == Table({Unflag(r) : r \in t.rows}, t.next) IN
         Db(u) /\ (NamesIn(t) => NamesIn(u))
<1> DEFINE u == Table({Unflag(r) : r \in t.rows}, t.next)
<1>1. /\ u.rows = {Unflag(r) : r \in t.rows} /\ u.next = t.next
      /\ u = [rows |-> u.rows, next |-> u.next]
  BY TableFields
<1> HIDE DEF u
<1>2. \A r \in t.rows : /\ Unflag(r) \in BookmarkRow /\ Unflag(r).uid = r.uid
                        /\ Unflag(r).parent = r.parent
                        /\ Unflag(r).type = r.type /\ Unflag(r).name = r.name
  BY UnflagRow DEF Db
<1>3. u.rows \subseteq BookmarkRow /\ u.next \in Nat
  BY <1>1, <1>2 DEF Db
<1>4. \A v : Folder(t, v) => Folder(u, v)
  BY <1>1, <1>2 DEF Folder
<1>5. ASSUME NEW x \in u.rows, x.uid # Root
      PROVE  Folder(u, x.parent) /\ (x.type = "folder" => x.parent = Root)
  <2>1. PICK r \in t.rows : x = Unflag(r)
    BY <1>1
  <2>2. r.uid # Root /\ x.parent = r.parent /\ x.type = r.type
    BY <1>2, <1>5, <2>1
  <2>. QED BY <1>4, <2>2 DEF Db, Tree
<1>6. Tree(u)
  BY <1>4, <1>5 DEF Db, Tree
<1>7. UidsUnique(u)
  BY <1>1, <1>2 DEF Db, UidsUnique
<1>8. \A q \in u.rows : q.uid \in Special \cup {Root} \/ q.uid \in 1 .. u.next - 1
  BY <1>1, <1>2 DEF Db, Numbered
<1>9. IsFiniteSet(t.rows) /\ Cardinality(t.rows) <= t.next /\ Cardinality(t.rows) \in Nat
  BY FS_CardinalityType DEF Db, Numbered
<1> DEFINE f == [r \in t.rows |-> Unflag(r)]
<1>10. f \in Surjection(t.rows, u.rows)
  BY <1>1 DEF Surjection
<1>11. IsFiniteSet(u.rows) /\ Cardinality(u.rows) <= Cardinality(t.rows)
  <2> HIDE DEF f
  <2>. QED BY <1>9, <1>10, FS_Surjection
<1>12. Cardinality(u.rows) \in Nat
  BY <1>11, FS_CardinalityType
<1>13. Cardinality(u.rows) <= u.next
  BY <1>1, <1>3, <1>9, <1>11, <1>12
<1>14. Db(u)
  BY <1>1, <1>3, <1>6, <1>7, <1>8, <1>11, <1>13 DEF Db, Numbered
<1>15. ASSUME NamesIn(t), NEW x \in u.rows, NEW y \in u.rows,
              x.parent = y.parent, x.name = y.name, x # y
       PROVE  {x.uid, y.uid} \cap Special # {}
  <2>1. PICK r \in t.rows : x = Unflag(r)
    BY <1>1
  <2>2. PICK q \in t.rows : y = Unflag(q)
    BY <1>1
  <2>3. /\ r.parent = q.parent /\ r.name = q.name /\ r # q
        /\ x.uid = r.uid /\ y.uid = q.uid
    BY <1>2, <1>15, <2>1, <2>2
  <2>. QED BY <1>15, <2>3 DEF NamesIn
<1>16. NamesIn(t) => NamesIn(u)
  BY <1>15 DEF NamesIn
<1>. QED BY <1>14, <1>16 DEF u

(* The operators that compute rows. *)
LEMMA ReplacedIs ==
  ASSUME NEW t, Db(t), NEW r, NEW x
  PROVE  Replaced(t, r, x) = Table((t.rows \ {r}) \cup {x}, t.next)
BY DbFields DEF Replaced

LEMMA StrippedKeeps ==
  ASSUME NEW t, Db(t)
  PROVE  Keeps(t, Stripped(t))
<1> DEFINE S == {q \in t.rows : q.fact /\ q.type = "item"}
           w == Table(t.rows \ S, t.next)
           u == Table({Unflag(r) : r \in w.rows}, w.next)
<1>1. /\ \A c \in S : c.type = "item" /\ c.uid # Root
      /\ S \in SUBSET t.rows
  <2>1. \A c \in t.rows : c.uid = Root => c.type = "folder"
    BY DEF Db, Tree, Folder, UidsUnique
  <2>. QED BY <2>1
<1>2. w.rows = t.rows \ S /\ w.next = t.next
  BY TableFields
<1>3. {Unflag(r) : r \in w.rows}
        = {IF r.fact THEN [r EXCEPT !.fact = FALSE, !.ro = FALSE] ELSE r :
              r \in {q \in t.rows : ~(q.fact /\ q.type = "item")}}
  <2>1. w.rows = {q \in t.rows : ~(q.fact /\ q.type = "item")}
    BY <1>2
  <2> HIDE DEF w
  <2>. QED BY <2>1 DEF Unflag
<1>4. Stripped(t) = u
  BY <1>2, <1>3, DbFields DEF Stripped
<1> HIDE DEF S
<1>5. Db(w)
  BY <1>1, RemoveDb
<1>6. NamesIn(t) => NamesIn(w)
  BY RemoveNames
<1> HIDE DEF w
<1>7. Db(u) /\ (NamesIn(w) => NamesIn(u))
  BY <1>5, UnflagDb
<1>8. u.next = t.next /\ t.next \in Nat
  BY <1>2, TableFields DEF Db
<1> HIDE DEF u
<1>. QED BY <1>4, <1>6, <1>7, <1>8 DEF Keeps

LEMMA RowUids ==
  ASSUME NEW t, Db(t), NEW r \in t.rows
  PROVE  r.uid \in Int /\ r.uid # NullUid /\ r.uid >= Last
<1>1. r.uid \in Special \cup {Root} \/ r.uid \in 1 .. t.next - 1
  BY DEF Db, Numbered
<1>2. t.next \in Nat
  BY DEF Db
<1>. QED BY <1>1, <1>2 DEF Special, Home, Last, Root, NullUid

(* Every set of numbers, and every set of uids, has a least one. *)
LEMMA LeastNumber ==
  ASSUME NEW S \in SUBSET Nat, S # {}
  PROVE  \E k \in S : \A j \in S : k <= j
<1>1. OpToRel(<, Nat) = {ss \in Nat \X Nat : ss[1] < ss[2]}
  BY Zenon DEF OpToRel
<1> DEFINE R == {ss \in Nat \X Nat : ss[1] < ss[2]}
<1>2. IsWellFoundedOn(R, Nat)
  BY <1>1, NatLessThanWellFounded, Zenon
<1>3. PICK k \in S : \A j \in S : ~(<<j, k>> \in R)
  <2> HIDE DEF R
  <2>. QED BY <1>2, WFMin, Zenon
<1>4. \A j \in S : ~(j < k)
  BY <1>3
<1>. QED BY <1>4

LEMMA LeastUid ==
  ASSUME NEW S \in SUBSET Int, S # {}, \A x \in S : x >= Last
  PROVE  \E k \in S : \A j \in S : k <= j
<1> DEFINE T == {n \in Nat : n + Last \in S}
<1>1. \A x \in S : x - Last \in T
  BY DEF Last
<1>2. T \in SUBSET Nat /\ T # {}
  BY <1>1
<1>3. \E k \in T : \A j \in T : k <= j
  <2> HIDE DEF T
  <2>. QED BY <1>2, LeastNumber
<1>4. PICK n \in Nat : n + Last \in S /\ \A j \in T : n <= j
  BY <1>3
<1>5. \A y \in S : n <= y - Last
  <2> HIDE DEF T, Last
  <2>. QED BY <1>1, <1>4
<1>6. \A y \in S : n + Last <= y
  BY <1>5 DEF Last
<1>. QED BY <1>4, <1>6

LEMMA FirstRow ==
  ASSUME NEW S, S # {}, \A r \in S : r.uid \in Int /\ r.uid >= Last
  PROVE  First(S) \in S /\ \A q \in S : First(S).uid <= q.uid
<1> DEFINE T == {r.uid : r \in S}
<1>1. T \in SUBSET Int /\ T # {} /\ \A x \in T : x >= Last
  OBVIOUS
<1>2. PICK k \in T : \A j \in T : k <= j
  <2> HIDE DEF T
  <2>. QED BY <1>1, LeastUid
<1>3. \E r \in S : \A q \in S : r.uid <= q.uid
  BY <1>2
<1>. QED BY <1>3 DEF First

LEMMA DeletedKeeps ==
  ASSUME NEW t, Db(t), NEW r \in t.rows, r.uid # Root
  PROVE  Keeps(t, Deleted(t, r))
<1>1. \A c \in Contents(t, r) : c \in t.rows /\ c.parent = r.uid /\ r.type = "folder"
  BY DEF Contents
<1>2. \A c \in Contents(t, r) : c.type = "item" /\ c.uid # Root
  <2>1. \A c \in Contents(t, r) : c.uid # Root
    BY <1>1, RowUids, RowFields DEF Db
  <2>2. \A c \in t.rows : c.type \in Types
    BY RowFields DEF Db
  <2>3. \A c \in Contents(t, r) : c.type # "folder"
    BY <1>1, <2>1 DEF Db, Tree
  <2>. QED BY <1>1, <2>1, <2>2, <2>3 DEF Types
<1>3. \A S \in SUBSET t.rows : [t EXCEPT !.rows = t.rows \ S] = Table(t.rows \ S, t.next)
  BY DbFields
<1>4. ASSUME NEW S \in SUBSET t.rows, Db(Table(t.rows \ S, t.next))
      PROVE  Keeps(t, Table(t.rows \ S, t.next))
  <2>1. Table(t.rows \ S, t.next).next = t.next /\ t.next \in Nat
    BY TableFields DEF Db
  <2>2. NamesIn(t) => NamesIn(Table(t.rows \ S, t.next))
    BY RemoveNames
  <2>. QED BY <1>4, <2>1, <2>2 DEF Keeps
<1>5. CASE Stops(t, r) = {}
  <2> DEFINE S == Contents(t, r) \cup {r}
  <2>1. S \in SUBSET t.rows /\ \A c \in S : c.uid # Root
    BY <1>1, <1>2
  <2>2. \A c \in S, x \in t.rows \ S : c.type = "folder" /\ c.uid = x.parent => x.uid = Root
    BY <1>2 DEF Contents
  <2>3. Deleted(t, r) = [t EXCEPT !.rows = t.rows \ S]
    BY <1>5 DEF Deleted
  <2> HIDE DEF S
  <2>4. Db(Table(t.rows \ S, t.next))
    BY <2>1, <2>2, RemoveDb
  <2>. QED BY <1>3, <1>4, <2>1, <2>3, <2>4
<1>6. CASE Stops(t, r) # {}
  <2> DEFINE S == {c \in Contents(t, r) : \A s \in Stops(t, r) : c.uid < s.uid}
  <2>1. S \in SUBSET t.rows /\ (\A c \in S : c.uid # Root) /\ \A c \in S : c.type = "item"
    BY <1>1, <1>2
  <2>2. \A c \in S, x \in t.rows \ S : c.type = "folder" /\ c.uid = x.parent => x.uid = Root
    BY <2>1
  <2>3. Deleted(t, r) = [t EXCEPT !.rows = t.rows \ S]
    BY <1>6 DEF Deleted
  <2> HIDE DEF S
  <2>4. Db(Table(t.rows \ S, t.next))
    BY <2>1, <2>2, RemoveDb
  <2>. QED BY <1>3, <1>4, <2>1, <2>3, <2>4
<1>. QED BY <1>5, <1>6

(* A generated name is one that none of the rivals has: among one more postfixes than
   there are rivals one is free. *)
LEMMA MadeName ==
  ASSUME NEW t, Db(t), NEW m \in Name, NEW folder, NEW accept
  PROVE  LET g == MakeUniqueName(t, m, folder, accept) IN
         /\ g \in Name /\ g.b = Cut[m.b]
         /\ \A q \in Rivals(t, folder, accept) : q.uid # Root => q.name # g
<1> DEFINE prefix == Cut[m.b]
           rows == {q \in Rivals(t, folder, accept) : LikePrefix(prefix, q.name)}
           taken == {GetPostfix(r.name, prefix) : r \in rows}
           first == IF prefix # m.b THEN 1 ELSE 0
           free == {p \in first .. (first + Cardinality(taken)) : p \notin taken}
           n == CHOOSE p \in free : \A q \in free : p <= q
           g == [b |-> prefix, n |-> n]
<1>1. m.b \in Bases /\ prefix \in Bases
  BY DbConstants DEF Name
<1>2. IsFiniteSet(t.rows)
  BY DEF Db, Numbered
<1>3. rows \in SUBSET t.rows
  BY DEF Rivals
<1>4. IsFiniteSet(rows)
  <2> HIDE DEF rows
  <2>. QED BY <1>2, <1>3, FS_Subset
<1> DEFINE h == [r \in rows |-> GetPostfix(r.name, prefix)]
<1>5. h \in Surjection(rows, taken)
  <2> HIDE DEF rows, prefix
  <2>. QED BY DEF Surjection
<1>6. IsFiniteSet(taken)
  <2> HIDE DEF h, rows, taken
  <2>. QED BY <1>4, <1>5, FS_Surjection
<1>7. first \in Nat /\ Cardinality(taken) \in Nat
  <2>1. first \in Nat
    BY <1>1
  <2> HIDE DEF taken
  <2>. QED BY <1>6, <2>1, FS_CardinalityType
<1>8. free # {}
  <2> HIDE DEF taken, first
  <2> SUFFICES ASSUME free = {} PROVE FALSE
    OBVIOUS
  <2> DEFINE R == first .. (first + Cardinality(taken))
  <2>1. IsFiniteSet(R) /\ Cardinality(R) = Cardinality(taken) + 1
    <3>1. first \in Int /\ first + Cardinality(taken) \in Int
      BY <1>7
    <3>2. ~(first > first + Cardinality(taken))
            /\ (first + Cardinality(taken)) - first + 1 = Cardinality(taken) + 1
      BY <1>7
    <3>. QED BY <3>1, <3>2, FS_Interval
  <2>2. R \in SUBSET taken
    OBVIOUS
  <2> HIDE DEF R
  <2>3. Cardinality(R) <= Cardinality(taken)
    BY <1>6, <2>2, FS_Subset
  <2>. QED BY <1>7, <2>1, <2>3
<1>9. n \in free /\ n \in Nat
  <2> HIDE DEF taken, first
  <2>1. free \in SUBSET Int /\ free \subseteq Nat /\ \A x \in free : x >= Last
    BY <1>7 DEF Last
  <2>2. \E p \in free : \A q \in free : p <= q
    <3> HIDE DEF free
    <3>. QED BY <1>8, <2>1, LeastUid
  <2> HIDE DEF free
  <2>. QED BY <2>1, <2>2
<1>10. g \in Name /\ g.b = prefix /\ g.n = n
  <2> HIDE DEF n, prefix
  <2>. QED BY <1>1, <1>9 DEF Name
<1>11. ASSUME NEW q \in Rivals(t, folder, accept), q.uid # Root, q.name = g PROVE FALSE
  <2>1. q \in rows
    <3> HIDE DEF g, prefix
    <3>. QED BY <1>10, <1>11 DEF LikePrefix
  <2>2. GetPostfix(q.name, prefix) = n
    <3> HIDE DEF g, prefix, n
    <3>. QED BY <1>10, <1>11 DEF GetPostfix
  <2>3. n \in taken
    <3> HIDE DEF rows, n, prefix, g
    <3>. QED BY <2>1, <2>2
  <2>. QED
    <3> HIDE DEF n, taken, first
    <3>. QED BY <1>9, <2>3
<1>12. MakeUniqueName(t, m, folder, accept) = g
  BY DEF MakeUniqueName
<1> HIDE DEF g, prefix
<1>. QED BY <1>10, <1>11, <1>12 DEF prefix

(* The name an insertion or update may write: none of its rivals has it. *)
LEMMA FoundName ==
  ASSUME NEW t, Db(t), NEW m \in Name, NEW folder, NEW accept, NEW rename,
         rename # "suppress", NEW g \in NamesFor(t, m, folder, accept, rename)
  PROVE  /\ g \in Name /\ g.b \in {m.b, Cut[m.b]}
         /\ \A q \in Rivals(t, folder, accept) : q.uid # Root => q.name # g
<1>1. CASE IsUniqueName(t, m, folder, accept)
  <2>1. g = m
    BY <1>1 DEF NamesFor
  <2>2. \A q \in Rivals(t, folder, accept) : q.name # m
    BY <1>1 DEF IsUniqueName, Like
  <2>. QED BY <2>1, <2>2
<1>2. CASE ~IsUniqueName(t, m, folder, accept)
  <2>1. g = MakeUniqueName(t, m, folder, accept)
    BY <1>2 DEF NamesFor
  <2>. QED BY <2>1, MadeName
<1>. QED BY <1>1, <1>2

NewItem == [type : Types, parent : Int, name : Name]

LEMMA NoNameNew == NoName \notin Name
BY DbConstants DEF NoName, Name

(* The row that an insertion writes. *)
NewRow(u, item, m, fact, ro) ==
    [uid |-> u, parent |-> item.parent, type |-> item.type, name |-> m, ro |-> ro, fact |-> fact]

LEMMA NewRowFields ==
  ASSUME NEW u, NEW item, NEW m, NEW fact, NEW ro
  PROVE  LET x == NewRow(u, item, m, fact, ro) IN
         /\ x.uid = u /\ x.parent = item.parent /\ x.type = item.type /\ x.name = m
         /\ x.ro = ro /\ x.fact = fact
BY DEF NewRow

LEMMA NewRowType ==
  ASSUME NEW u \in Int, u # Root, NEW item, item.parent \in Int, item.type \in Types,
         NEW m \in Name, NEW fact \in BOOLEAN, NEW ro \in BOOLEAN
  PROVE  NewRow(u, item, m, fact, ro) \in BookmarkRow
BY NoNameNew DEF NewRow, BookmarkRow

LEMMA AddedIs ==
  ASSUME NEW t, NEW item, NEW m, NEW fact, NEW ro
  PROVE  Added(t, item, m, fact, ro)
           = Table(t.rows \cup {NewRow(t.next, item, m, fact, ro)}, t.next + 1)
BY DEF Added, Table, NewRow

(* The uid that the counter gives is a new one. *)
LEMMA NextIsNew ==
  ASSUME NEW t, Db(t)
  PROVE  t.next \in Nat \ {0} /\ t.next \notin Uids(t)
<1>1. t.next \in Nat /\ IsFiniteSet(t.rows) /\ Cardinality(t.rows) <= t.next
  BY DEF Db, Numbered
<1>2. t.rows # {}
  BY DEF Db, Tree, Folder
<1>3. Cardinality(t.rows) \in Nat /\ Cardinality(t.rows) # 0
  BY <1>1, <1>2, FS_CardinalityType, FS_EmptySet
<1>4. \A r \in t.rows : r.uid # t.next
  BY <1>1 DEF Db, Numbered, Special, Home, Last, Root
<1>. QED BY <1>1, <1>3, <1>4 DEF Uids

(* An inserted row, whether it keeps the counter's uid or gets an explicit one. *)
LEMMA InsertKeeps ==
  ASSUME NEW t, Db(t), NEW x \in BookmarkRow, x.uid # Root, x.uid \notin Uids(t),
         x.uid \in Special \/ x.uid \in 1 .. t.next,
         Folder(t, x.parent), x.type = "folder" => x.parent = Root,
         \/ x.uid \in Special
         \/ \A q \in t.rows : q.parent = x.parent /\ q.uid \notin Special => q.name # x.name
  PROVE  Keeps(t, Table(t.rows \cup {x}, t.next + 1))
<1>1. Db(Table(t.rows \cup {x}, t.next + 1))
  BY AddDb
<1>2. Table(t.rows \cup {x}, t.next + 1).next = t.next + 1 /\ t.next \in Nat
  BY TableFields DEF Db
<1>3. NamesIn(t) => NamesIn(Table(t.rows \cup {x}, t.next + 1))
  BY AddNames
<1>4. t.next <= Table(t.rows \cup {x}, t.next + 1).next
  BY <1>2
<1>. QED BY <1>1, <1>3, <1>4 DEF Keeps

(* x may take the place of row r. *)
Fits(t, r, x) ==
    /\ x.uid = r.uid /\ x.type = r.type
    /\ x.parent = r.parent \/ (Folder(t, x.parent) /\ (x.type = "folder" => x.parent = Root))
    /\ \/ x.uid \in Special
       \/ x.parent = r.parent /\ x.name = r.name
       \/ \A q \in t.rows : q.parent = x.parent /\ q.uid \notin Special /\ q # r
                                => q.name # x.name

LEMMA ReplaceKeeps ==
  ASSUME NEW t, Db(t), NEW r \in t.rows, NEW x \in BookmarkRow, Fits(t, r, x)
  PROVE  Keeps(t, Replaced(t, r, x))
<1> DEFINE u == Table((t.rows \ {r}) \cup {x}, t.next)
<1>1. Db(u)
  BY ReplaceDb DEF Fits
<1>2. u.next = t.next /\ t.next \in Nat
  BY TableFields DEF Db
<1>3. NamesIn(t) => NamesIn(u)
  BY ReplaceNames DEF Fits
<1>4. Replaced(t, r, x) = u
  BY ReplacedIs
<1> HIDE DEF u
<1>. QED BY <1>1, <1>2, <1>3, <1>4 DEF Keeps

(* A name none of the rivals has is not the name of an ordinary row of the folder. *)
LEMMA NotTaken ==
  ASSUME NEW t, Db(t), NEW g \in Name, NEW folder, NEW accept,
         \A q \in Rivals(t, folder, accept) : q.uid # Root => q.name # g,
         NEW q \in t.rows, q.parent = folder, q.uid \notin Special, q.uid # accept
  PROVE  q.name # g
<1>1. CASE q.uid = Root
  BY <1>1, NoNameNew DEF Db, BookmarkRow
<1>2. CASE q.uid # Root
  BY <1>2 DEF Rivals
<1>. QED BY <1>1, <1>2

LEMMA AddedKeeps ==
  ASSUME NEW t, Db(t), NEW item, item.parent \in Int, item.type \in Types, item.name \in Name,
         PlaceOk(t, item.type, item.parent), NEW rename, rename # "suppress",
         NEW m \in NamesFor(t, item.name, item.parent, NullUid, rename),
         NEW fact \in BOOLEAN, NEW ro \in BOOLEAN
  PROVE  Keeps(t, Added(t, item, m, fact, ro))
<1> DEFINE x == NewRow(t.next, item, m, fact, ro)
<1>1. t.next \in Nat \ {0} /\ t.next \notin Uids(t)
  BY NextIsNew
<1>2. m \in Name /\ \A q \in Rivals(t, item.parent, NullUid) : q.uid # Root => q.name # m
  BY FoundName
<1>3. x \in BookmarkRow
  BY <1>1, <1>2, NewRowType DEF Root
<1>4. /\ x.uid = t.next /\ x.parent = item.parent /\ x.type = item.type /\ x.name = m
  BY NewRowFields
<1>5. \A q \in t.rows : q.parent = x.parent /\ q.uid \notin Special => q.name # x.name
  BY <1>2, <1>4, NotTaken, RowUids
<1> HIDE DEF x
<1>6. Folder(t, x.parent) /\ (x.type = "folder" => x.parent = Root)
  BY <1>4 DEF PlaceOk
<1>7. x.uid # Root /\ x.uid \notin Uids(t) /\ x.uid \in 1 .. t.next
  BY <1>1, <1>4 DEF Root
<1>8. Keeps(t, Table(t.rows \cup {x}, t.next + 1))
  BY <1>3, <1>5, <1>6, <1>7, InsertKeeps
<1>. QED BY <1>8, AddedIs DEF x

Edited(r, p, m) == [r EXCEPT !.parent = p, !.name = m, !.fact = FALSE]

LEMMA EditedRow ==
  ASSUME NEW r \in BookmarkRow, r.uid # Root, NEW p \in Int, NEW m \in Name
  PROVE  /\ Edited(r, p, m) \in BookmarkRow
         /\ Edited(r, p, m).uid = r.uid /\ Edited(r, p, m).type = r.type
         /\ Edited(r, p, m).parent = p /\ Edited(r, p, m).name = m
<1> DEFINE RT == [uid : Int, parent : Int, type : Types, name : Name \cup {NoName},
                  ro : BOOLEAN, fact : BOOLEAN]
           s == [r EXCEPT !.parent = p]
           v == [s EXCEPT !.name = m]
           x == [v EXCEPT !.fact = FALSE]
<1>1. r \in RT
  BY RowFields
<1>2. s \in RT /\ s.uid = r.uid /\ s.type = r.type /\ s.parent = p
  BY <1>1
<1>3. Edited(r, p, m) = x
  BY DEF Edited
<1> HIDE DEF s
<1>4. v \in RT /\ v.uid = s.uid /\ v.type = s.type /\ v.parent = s.parent /\ v.name = m
  BY <1>2
<1> HIDE DEF v
<1>5. x \in RT /\ x.uid = v.uid /\ x.type = v.type /\ x.parent = v.parent /\ x.name = v.name
  BY <1>4
<1> HIDE DEF x
<1>6. x \in BookmarkRow
  BY <1>2, <1>4, <1>5, NoNameNew DEF BookmarkRow
<1>. QED BY <1>2, <1>3, <1>4, <1>5, <1>6

LEMMA UpdatedKeeps ==
  ASSUME NEW t, Db(t), NEW r \in t.rows, r.uid # Root, NEW item \in NewItem,
         Updatable(t, r, item), NEW m \in Name,
         \/ r.uid \in Special
         \/ \A q \in Rivals(t, item.parent, r.uid) : q.uid # Root => q.name # m
  PROVE  Keeps(t, Updated(t, r, item, m))
<1> DEFINE x == Edited(r, item.parent, m)
<1>1. r \in BookmarkRow
  BY DEF Db
<1>2. item.parent \in Int
  BY DEF NewItem
<1>3. /\ x \in BookmarkRow /\ x.uid = r.uid /\ x.type = r.type /\ x.parent = item.parent
      /\ x.name = m
  BY <1>1, <1>2, EditedRow
<1>4. Updated(t, r, item, m) = Replaced(t, r, x)
  BY DEF Updated, Edited
<1> HIDE DEF x
<1>5. r.type = item.type /\ (item.type = "folder" => item.parent = Root)
        /\ (r.parent = item.parent \/ Folder(t, item.parent))
  BY DEF Updatable
<1>6. x.parent = r.parent \/ (Folder(t, x.parent) /\ (x.type = "folder" => x.parent = Root))
  BY <1>3, <1>5
<1>7. ASSUME r.uid \notin Special, NEW q \in t.rows, q.parent = x.parent, q.uid \notin Special, q # r
      PROVE  q.name # x.name
  <2>1. q.uid # r.uid
    BY <1>7 DEF Db, UidsUnique
  <2>. QED BY <1>3, <1>7, <2>1, NotTaken
<1>8. \/ x.uid \in Special
      \/ \A q \in t.rows : q.parent = x.parent /\ q.uid \notin Special /\ q # r => q.name # x.name
  BY <1>3, <1>7
<1>9. x \in BookmarkRow /\ Fits(t, r, x)
  BY <1>3, <1>6, <1>8 DEF Fits
<1>10. Keeps(t, Replaced(t, r, x))
  BY <1>9, ReplaceKeeps
<1>. QED BY <1>4, <1>10, Zenon

(* x is row r with other flags. *)
SameRow(r, x) ==
    /\ x \in BookmarkRow /\ x.uid = r.uid /\ x.type = r.type /\ x.parent = r.parent
    /\ x.name = r.name

LEMMA FlagRow ==
  ASSUME NEW r \in BookmarkRow, NEW v \in BOOLEAN
  PROVE  SameRow(r, [r EXCEPT !.ro = v]) /\ SameRow(r, [r EXCEPT !.fact = v])
<1> DEFINE RT == [uid : Int, parent : Int, type : Types, name : Name \cup {NoName},
                  ro : BOOLEAN, fact : BOOLEAN]
           x == [r EXCEPT !.ro = v]
           y == [r EXCEPT !.fact = v]
<1>1. r \in RT
  BY RowFields
<1>2. x \in RT /\ x.uid = r.uid /\ x.type = r.type /\ x.parent = r.parent /\ x.name = r.name
  BY <1>1
<1>3. y \in RT /\ y.uid = r.uid /\ y.type = r.type /\ y.parent = r.parent /\ y.name = r.name
  BY <1>1
<1> HIDE DEF x, y
<1>4. x \in BookmarkRow /\ y \in BookmarkRow
  BY <1>2, <1>3 DEF BookmarkRow
<1>5. SameRow(r, x) /\ SameRow(r, y)
  BY <1>2, <1>3, <1>4 DEF SameRow
<1>. QED BY <1>5 DEF x, y

LEMMA FlagsRow ==
  ASSUME NEW r \in BookmarkRow, NEW v \in BOOLEAN, NEW w \in BOOLEAN
  PROVE  SameRow(r, [r EXCEPT !.ro = v, !.fact = w])
<1> DEFINE x == [r EXCEPT !.ro = v]
           y == [x EXCEPT !.fact = w]
<1>1. SameRow(r, x)
  BY FlagRow
<1>2. [r EXCEPT !.ro = v, !.fact = w] = y
  OBVIOUS
<1> HIDE DEF x
<1>3. SameRow(x, y)
  BY <1>1, FlagRow DEF SameRow
<1> HIDE DEF y
<1>4. SameRow(r, y)
  BY <1>1, <1>3 DEF SameRow
<1>. QED BY <1>2, <1>4

LEMMA FlagKeeps ==
  ASSUME NEW t, Db(t), NEW r \in t.rows, NEW x, SameRow(r, x)
  PROVE  Keeps(t, Replaced(t, r, x))
<1>1. x \in BookmarkRow /\ Fits(t, r, x)
  BY DEF SameRow, Fits
<1>. QED BY <1>1, ReplaceKeeps

(* A request turns the view of its handle into a table that is as sound. *)
RowsKept(d) == \E u : Change(d, u) /\ Keeps(View(d), u)

LEMMA AddKept ==
  ASSUME NEW d, Db(View(d)), NEW item \in NewItem, NEW rename, rename # "suppress",
         AddL(d, item, rename)
  PROVE  RowsKept(d)
<1> DEFINE t == View(d)
<1>1. PICK m \in NamesFor(t, item.name, item.parent, NullUid, rename) :
        Change(d, Added(t, item, m, FALSE, FALSE))
  BY DEF AddL
<1>2. PlaceOk(t, item.type, item.parent)
  BY DEF AddL
<1>3. item.parent \in Int /\ item.type \in Types /\ item.name \in Name
  BY DEF NewItem
<1>4. Db(t)
  OBVIOUS
<1> HIDE DEF t
<1>5. Keeps(t, Added(t, item, m, FALSE, FALSE))
  BY <1>2, <1>3, <1>4, AddedKeeps
<1>. QED BY <1>1, <1>5 DEF RowsKept, t

LEMMA UpdateKept ==
  ASSUME NEW d, Db(View(d)), NEW item \in NewItem, NEW rename, rename # "suppress",
         NEW r, UpdateL(d, r, item, rename)
  PROVE  RowsKept(d)
<1> DEFINE t == View(d)
<1>1. PICK m \in NamesFor(t, item.name, item.parent, r.uid, rename) :
        Change(d, Updated(t, r, item, m))
  BY DEF UpdateL
<1>2. r \in t.rows /\ r.uid # Root /\ Updatable(t, r, item)
  BY DEF UpdateL
<1>3. item.name \in Name
  BY DEF NewItem
<1>4. Db(t)
  OBVIOUS
<1> HIDE DEF t
<1>5. m \in Name /\ \A q \in Rivals(t, item.parent, r.uid) : q.uid # Root => q.name # m
  BY <1>3, <1>4, FoundName
<1>6. Keeps(t, Updated(t, r, item, m))
  BY <1>2, <1>4, <1>5, UpdatedKeeps
<1>. QED BY <1>1, <1>6 DEF RowsKept, t

(* The row that was just added, found by its uid, with another uid. *)
Renumbered(t, item, m, fact, ro, v) ==
    LET x == NewRow(t.next, item, m, fact, ro)
        new == Added(t, item, m, fact, ro)
    IN  /\ new.rows = t.rows \cup {x} /\ x.uid = t.next /\ x \notin t.rows
        /\ \A q \in new.rows : q.uid = t.next <=> q = x
        /\ Replaced(new, x, [x EXCEPT !.uid = v])
             = Table(t.rows \cup {NewRow(v, item, m, fact, ro)}, t.next + 1)

LEMMA RenumberedIs ==
  ASSUME NEW t, Db(t), NEW item, NEW m, NEW fact, NEW ro, NEW v
  PROVE  Renumbered(t, item, m, fact, ro, v)
<1> DEFINE x == NewRow(t.next, item, m, fact, ro)
           y == NewRow(v, item, m, fact, ro)
           new == Added(t, item, m, fact, ro)
<1>1. new = Table(t.rows \cup {x}, t.next + 1)
  BY AddedIs
<1>2. [x EXCEPT !.uid = v] = y
  BY DEF NewRow
<1>3. x.uid = t.next
  BY NewRowFields
<1>4. \A q \in t.rows : q.uid # t.next
  BY NextIsNew DEF Uids
<1> HIDE DEF x, y, new
<1>5. new.rows = t.rows \cup {x} /\ x \notin t.rows
  BY <1>1, <1>3, <1>4, TableFields
<1>6. Replaced(new, x, y) = Table(t.rows \cup {y}, t.next + 1)
  <2>1. (new.rows \ {x}) \cup {y} = t.rows \cup {y}
    BY <1>5
  <2>2. \A R : [new EXCEPT !.rows = R] = Table(R, t.next + 1)
    BY <1>1 DEF Table
  <2>3. Replaced(new, x, y) = [new EXCEPT !.rows = (new.rows \ {x}) \cup {y}]
    BY DEF Replaced
  <2>. QED BY <2>1, <2>2, <2>3
<1>7. \A q \in new.rows : q.uid = t.next <=> q = x
  BY <1>3, <1>4, <1>5
<1>8. Replaced(new, x, [x EXCEPT !.uid = v]) = Table(t.rows \cup {y}, t.next + 1)
  BY <1>2, <1>6
<1>. QED BY <1>3, <1>5, <1>7, <1>8 DEF x, y, new, Renumbered

LEMMA SpecialKept ==
  ASSUME NEW d, Db(View(d)), NEW u \in Special, NEW item \in NewItem,
         SetSpecialItemL(d, u, item)
  PROVE  RowsKept(d)
<1> DEFINE t == View(d)
<1>1. item.name \in Name /\ item.parent \in Int /\ item.type \in Types
  BY DEF NewItem
<1>2. Db(t)
  OBVIOUS
<1>3. u # Root /\ u \in Int
  BY DEF Special, Home, Last, Root
<1>4. CASE u \in Uids(t)
  <2>1. PICK r \in t.rows : /\ r.uid = u /\ Updatable(t, r, item)
                            /\ Change(d, Updated(t, r, item, item.name))
    BY <1>4 DEF SetSpecialItemL
  <2> HIDE DEF t
  <2>2. Keeps(t, Updated(t, r, item, item.name))
    BY <1>1, <1>2, <1>3, <2>1, UpdatedKeeps
  <2>. QED BY <2>1, <2>2 DEF RowsKept, t
<1>5. CASE u \notin Uids(t)
  <2> DEFINE new == Added(t, item, item.name, FALSE, FALSE)
             x == NewRow(t.next, item, item.name, FALSE, FALSE)
             y == NewRow(u, item, item.name, FALSE, FALSE)
             r == CHOOSE q \in new.rows : q.uid = t.next
  <2>1. PlaceOk(t, item.type, item.parent) /\ Change(d, Replaced(new, r, [r EXCEPT !.uid = u]))
    BY <1>5 DEF SetSpecialItemL
  <2> HIDE DEF t
  <2>2. /\ x \in new.rows /\ x.uid = t.next /\ \A q \in new.rows : q.uid = t.next <=> q = x
        /\ Replaced(new, x, [x EXCEPT !.uid = u]) = Table(t.rows \cup {y}, t.next + 1)
    <3>1. Renumbered(t, item, item.name, FALSE, FALSE, u)
      BY <1>2, RenumberedIs, Zenon
    <3>. QED BY <3>1 DEF Renumbered
  <2>3. r = x
    <3> HIDE DEF new, x
    <3>. QED BY <2>2
  <2>4. y \in BookmarkRow
    BY <1>1, <1>3, NoNameNew DEF NewRow, BookmarkRow
  <2>5. y.uid = u /\ y.parent = item.parent /\ y.type = item.type
    BY DEF NewRow
  <2> HIDE DEF new, x, y, r
  <2>6. Folder(t, y.parent) /\ (y.type = "folder" => y.parent = Root)
    BY <2>1, <2>5 DEF PlaceOk
  <2>7. Keeps(t, Table(t.rows \cup {y}, t.next + 1))
    BY <1>2, <1>3, <1>5, <2>4, <2>5, <2>6, InsertKeeps
  <2>8. Replaced(new, r, [r EXCEPT !.uid = u]) = Table(t.rows \cup {y}, t.next + 1)
    BY <2>2, <2>3
  <2>. QED BY <2>1, <2>7, <2>8 DEF RowsKept, t
<1>. QED BY <1>4, <1>5

LEMMA DeleteKept ==
  ASSUME NEW d, Db(View(d)), NEW r, DeleteL(d, r)
  PROVE  RowsKept(d)
<1>1. r \in View(d).rows /\ r.uid # Root /\ Change(d, Deleted(View(d), r))
  BY DEF DeleteL
<1>. QED BY <1>1, DeletedKeeps DEF RowsKept

LEMMA FlagKept ==
  ASSUME NEW d, Db(View(d)), NEW r, SetReadOnlyL(d, r) \/ SetFactoryItemL(d, r)
  PROVE  RowsKept(d)
<1> DEFINE t == View(d)
<1>1. r \in t.rows
  BY DEF SetReadOnlyL, SetFactoryItemL
<1>2. r \in BookmarkRow /\ (~r.ro) \in BOOLEAN /\ (~r.fact) \in BOOLEAN
  BY <1>1 DEF Db
<1>3. SameRow(r, [r EXCEPT !.ro = ~r.ro]) /\ SameRow(r, [r EXCEPT !.fact = ~r.fact])
  BY <1>2, FlagRow
<1>4. PICK x : SameRow(r, x) /\ Change(d, Replaced(t, r, x))
  BY <1>3 DEF SetReadOnlyL, SetFactoryItemL
<1>5. Db(t)
  OBVIOUS
<1> HIDE DEF t
<1>6. Keeps(t, Replaced(t, r, x))
  BY <1>1, <1>4, <1>5, FlagKeeps
<1>. QED BY <1>4, <1>6 DEF RowsKept, t

-----------------------------------------------------------------------------
(* The restore                                                              *)

(* The folder under uid u stands for folder f of the reference database. *)
FolderAt(t, f, u) ==
    \E r \in t.rows : r.uid = u /\ r.type = "folder" /\ r.parent = Root /\ r.name = f.name

(* Item i of the reference database is in folder p. *)
ItemAt(t, i, p) ==
    \E r \in t.rows : /\ r.type = "item" /\ r.fact /\ r.parent = p
                      /\ r.name.b \in {i.name.b, Cut[i.name.b]}

Mapped ==
    /\ DOMAIN rfs.map = {Root} \cup {f.uid : f \in RefFolders \ rfs.folders}
    /\ rfs.map[Root] = Root
    /\ \A f \in RefFolders \ rfs.folders : FolderAt(work, f, rfs.map[f.uid])

(* The items go in the order of their uids, each one with a tick of the counter. *)
InOrder ==
    /\ rfs.folders # {} => rfs.items = RefItems
    /\ \A i \in RefItems \ rfs.items, j \in rfs.items : i.uid < j.uid
    /\ rfs.items # RefItems =>
         1 + Cardinality(RefFolders) + Cardinality(RefItems \ rfs.items) <= work.next

Back == \A i \in RefItems \ rfs.items : ItemAt(work, i, rfs.map[i.parent])

Restoring ==
    /\ rfs.on = TRUE /\ rfs.db \in Dbs
    /\ rfs.folders \subseteq RefFolders /\ rfs.items \subseteq RefItems
    /\ Mapped /\ InOrder /\ Back

LEMMA RefRows ==
  ASSUME RefSound
  PROVE  /\ RefFolders \subseteq RefTable /\ RefItems \subseteq RefTable /\ RefTable \subseteq Row
         /\ IsFiniteSet(RefFolders) /\ IsFiniteSet(RefItems)
         /\ \A r \in RefFolders \cup RefItems : r.uid \in Int /\ r.uid >= 1
         /\ \A r, q \in RefFolders \cup RefItems : r.uid = q.uid => r = q
         /\ \A i \in RefItems : i.parent = Root \/ \E f \in RefFolders : f.uid = i.parent
<1>1. RefFolders \subseteq RefTable /\ RefItems \subseteq RefTable /\ RefTable \subseteq Row
  BY DbConstants DEF RefFolders, RefItems
<1>2. IsFiniteSet(RefTable)
  BY DbConstants
<1>3. IsFiniteSet(RefFolders) /\ IsFiniteSet(RefItems)
  BY <1>1, <1>2, FS_Subset
<1>4. \A r \in RefFolders \cup RefItems : r.uid \in Int
  BY <1>1 DEF Row
<1>5. \A r \in RefFolders \cup RefItems : r.uid >= 1
  <2>1. ASSUME NEW i \in RefItems PROVE i.uid >= 1
    <3> DEFINE J == {j \in RefItems : j.uid <= i.uid}
    <3>1. J \in SUBSET RefItems
      OBVIOUS
    <3>2. i.uid \in 1 .. (Cardinality(RefFolders) + Cardinality(J))
      BY DEF RefSound
    <3> HIDE DEF J
    <3>3. Cardinality(J) \in Nat /\ Cardinality(RefFolders) \in Nat
      BY <1>3, <3>1, FS_Subset, FS_CardinalityType
    <3>. QED BY <3>2, <3>3
  <2>2. \A f \in RefFolders : f.uid >= 1
    BY DEF RefSound
  <2>. QED BY <2>1, <2>2
<1>6. \A r, q \in RefFolders \cup RefItems : r.uid = q.uid => r = q
  BY <1>1 DEF RefSound, UidsUnique
<1>7. ASSUME NEW i \in RefItems, i.parent # Root PROVE \E f \in RefFolders : f.uid = i.parent
  <2>1. Folder([rows |-> RefTable], i.parent)
    BY <1>1, <1>7, DbConstants
  <2>2. PICK f \in RefTable : f.uid = i.parent /\ f.type = "folder"
    BY <2>1 DEF Folder
  <2>3. f \in RefFolders
    BY <2>2, DbConstants DEF RefFolders
  <2>. QED BY <2>2, <2>3
<1>. QED BY <1>1, <1>3, <1>4, <1>5, <1>6, <1>7

(* The fields of the record of a restore after a step. *)
LEMMA RestoreFields ==
  ASSUME NEW d, NEW r, RestoreOf(d, r), NEW x, NEW y
  PROVE  /\ LET s == [r EXCEPT !.items = x] IN
              s.on = r.on /\ s.db = r.db /\ s.folders = r.folders /\ s.items = x /\ s.map = r.map
         /\ LET s == [r EXCEPT !.folders = x, !.map = y] IN
              s.on = r.on /\ s.db = r.db /\ s.folders = x /\ s.items = r.items /\ s.map = y
<1>1. PICK F, I, M : r \in Restores(d, F, I, M)
  BY DEF RestoreOf
<1>2. LET s == [r EXCEPT !.items = x] IN
        s.on = r.on /\ s.db = r.db /\ s.folders = r.folders /\ s.items = x /\ s.map = r.map
  BY <1>1 DEF Restores
<1> DEFINE s == [r EXCEPT !.folders = x]
           w == [s EXCEPT !.map = y]
<1>3. /\ s \in Restores(d, {x}, I, M)
      /\ s.on = r.on /\ s.db = r.db /\ s.folders = x /\ s.items = r.items
  BY <1>1 DEF Restores
<1>4. [r EXCEPT !.folders = x, !.map = y] = w
  OBVIOUS
<1> HIDE DEF s
<1>5. w.on = s.on /\ w.db = s.db /\ w.folders = s.folders /\ w.items = s.items /\ w.map = y
  BY <1>3 DEF Restores
<1> HIDE DEF w
<1>6. LET z == [r EXCEPT !.folders = x, !.map = y] IN
        z.on = r.on /\ z.db = r.db /\ z.folders = x /\ z.items = r.items /\ z.map = y
  BY <1>3, <1>4, <1>5
<1>. QED BY <1>2, <1>6

(* What a restore does to the table: nothing it has already put back is disturbed, and
   no item that is there. *)
Undisturbed(t, u) ==
    /\ \A f, v : FolderAt(t, f, v) => FolderAt(u, f, v)
    /\ \A r \in t.rows : r.type = "item" => r \in u.rows

LEMMA FlagFolder ==
  ASSUME NEW t, Db(t), NEW r \in t.rows, r.type = "folder", NEW x, SameRow(r, x)
  PROVE  Undisturbed(t, Replaced(t, r, x))
<1> DEFINE u == Replaced(t, r, x)
<1>1. u.rows = (t.rows \ {r}) \cup {x}
  <2> DEFINE R == (t.rows \ {r}) \cup {x}
  <2>1. u = Table(R, t.next)
    BY ReplacedIs
  <2> HIDE DEF R, u
  <2>2. u.rows = R
    BY <2>1, TableFields
  <2>. QED BY <2>2 DEF R
<1> HIDE DEF u
<1>2. ASSUME NEW f, NEW v, FolderAt(t, f, v) PROVE FolderAt(u, f, v)
  <2>1. PICK q \in t.rows : q.uid = v /\ q.type = "folder" /\ q.parent = Root /\ q.name = f.name
    BY <1>2 DEF FolderAt
  <2>2. CASE q = r
    <3>1. x \in u.rows /\ x.uid = v /\ x.type = "folder" /\ x.parent = Root /\ x.name = f.name
      BY <1>1, <2>1, <2>2 DEF SameRow
    <3>. QED BY <3>1 DEF FolderAt
  <2>3. CASE q # r
    <3>1. q \in u.rows
      BY <1>1, <2>3
    <3>. QED BY <2>1, <3>1 DEF FolderAt
  <2>. QED BY <2>2, <2>3
<1>3. \A q \in t.rows : q.type = "item" => q \in u.rows
  BY <1>1
<1>. QED BY <1>2, <1>3 DEF Undisturbed, u

LEMMA InsertUndisturbed ==
  ASSUME NEW t, NEW x, NEW n
  PROVE  Undisturbed(t, Table(t.rows \cup {x}, n))
<1>1. Table(t.rows \cup {x}, n).rows = t.rows \cup {x}
  BY TableFields
<1>. QED BY <1>1 DEF Undisturbed, FolderAt

(* The folder f of the reference database gets the uid u. *)
FolderDone(f, u) ==
    /\ Keeps(work, work') /\ Undisturbed(work, work') /\ FolderAt(work', f, u)
    /\ rfs' = [rfs EXCEPT !.folders = rfs.folders \ {f},
                          !.map = [v \in DOMAIN rfs.map \cup {f.uid} |->
                                      IF v = f.uid THEN u ELSE rfs.map[v]]]

LEMMA FolderStep ==
  ASSUME RefSound, Db(work), Restoring, RestoreFolder
  PROVE  \/ rfs' = NoRestore /\ UNCHANGED work
         \/ \E f \in rfs.folders : \E u : FolderDone(f, u)
<1> DEFINE f == First(rfs.folders)
           mapped(u) == [rfs EXCEPT !.folders = @ \ {f},
                                    !.map = [v \in DOMAIN @ \cup {f.uid} |->
                                                IF v = f.uid THEN u ELSE @[v]]]
           addable == NamesFor(work, f.name, Root, NullUid, "dont") # {}
<1>1. f \in rfs.folders
  <2>1. rfs.folders # {}
    BY DEF RestoreFolder
  <2>2. \A r \in rfs.folders : r.uid \in Int /\ r.uid >= Last
    BY RefRows DEF Restoring, Last
  <2>. QED BY <2>1, <2>2, FirstRow
<1>2. f \in RefFolders /\ f \in Row /\ f.type = "folder" /\ f.parent = Root
  BY <1>1, RefRows DEF Restoring, RefFolders
<1>3. f.ro \in BOOLEAN /\ f.fact \in BOOLEAN /\ f.name \in Name
  BY <1>2 DEF Row
<1>4. \A u : mapped(u) = [rfs EXCEPT !.folders = rfs.folders \ {f},
                                     !.map = [v \in DOMAIN rfs.map \cup {f.uid} |->
                                                IF v = f.uid THEN u ELSE rfs.map[v]]]
  OBVIOUS
<1>5. CASE Namesakes(f) # {}
  <2> DEFINE r == First(Namesakes(f))
             x == [r EXCEPT !.ro = f.ro, !.fact = f.fact]
  <2>1. work' = Replaced(work, r, x) /\ rfs' = mapped(r.uid)
    BY <1>5 DEF RestoreFolder
  <2>2. \A q \in Namesakes(f) : q.uid \in Int /\ q.uid >= Last
    BY RowUids DEF Namesakes
  <2>3. r \in Namesakes(f)
    BY <1>5, <2>2, FirstRow
  <2>4. r \in work.rows /\ r.parent = Root /\ r.type = "folder" /\ r.name = f.name
    BY <1>2, <2>3 DEF Namesakes, Like, RefSound
  <2>5. SameRow(r, x)
    <3>1. r \in BookmarkRow
      BY <2>4 DEF Db
    <3> HIDE DEF r, f
    <3>. QED BY <1>3, <3>1, FlagsRow
  <2> HIDE DEF x, r, mapped, f
  <2>6. Keeps(work, work') /\ Undisturbed(work, work')
    BY <2>1, <2>4, <2>5, FlagKeeps, FlagFolder
  <2>7. FolderAt(work, f, r.uid)
    BY <2>4 DEF FolderAt
  <2>8. FolderAt(work', f, r.uid)
    BY <2>6, <2>7 DEF Undisturbed
  <2>9. FolderDone(f, r.uid)
    BY <1>4, <2>1, <2>6, <2>8 DEF FolderDone
  <2>. QED BY <1>1, <2>9
<1>6. CASE Namesakes(f) = {} /\ addable
  <2>1. work' = Added(work, f, f.name, f.fact, f.ro) /\ rfs' = mapped(work.next)
    BY <1>6 DEF RestoreFolder
  <2>2. f.name \in NamesFor(work, f.name, Root, NullUid, "dont")
    BY <1>6 DEF NamesFor
  <2>3. PlaceOk(work, f.type, f.parent)
    BY <1>2 DEF PlaceOk, Db, Tree
  <2>4. f.parent \in Int /\ f.type \in Types
    BY <1>2 DEF Row
  <2> HIDE DEF mapped, f
  <2>5. Keeps(work, Added(work, f, f.name, f.fact, f.ro))
    BY <1>2, <1>3, <2>2, <2>3, <2>4, AddedKeeps
  <2> DEFINE x == NewRow(work.next, f, f.name, f.fact, f.ro)
  <2>6. Added(work, f, f.name, f.fact, f.ro) = Table(work.rows \cup {x}, work.next + 1)
    BY AddedIs
  <2>7. x.uid = work.next /\ x.type = "folder" /\ x.parent = Root /\ x.name = f.name
    BY <1>2 DEF NewRow
  <2> HIDE DEF x
  <2>8. Undisturbed(work, work') /\ work'.rows = work.rows \cup {x}
    <3> DEFINE R == work.rows \cup {x}
    <3>1. Undisturbed(work, Table(R, work.next + 1))
      BY InsertUndisturbed
    <3>2. work' = Table(R, work.next + 1)
      BY <2>1, <2>6
    <3> HIDE DEF R
    <3>3. work'.rows = R
      BY <3>2, TableFields
    <3>. QED BY <3>1, <3>2, <3>3 DEF R
  <2>9. FolderAt(work', f, work.next)
    BY <2>7, <2>8 DEF FolderAt
  <2>10. FolderDone(f, work.next)
    BY <1>4, <2>1, <2>5, <2>8, <2>9 DEF FolderDone
  <2>. QED BY <1>1, <2>10
<1>7. CASE Namesakes(f) = {} /\ ~addable
  BY <1>7 DEF RestoreFolder
<1>. QED BY <1>5, <1>6, <1>7

LEMMA FolderRestoring ==
  ASSUME RefSound, Restoring, NEW d, RestoreOf(d, rfs), RestoreFolder,
         NEW f \in rfs.folders, NEW u, FolderDone(f, u)
  PROVE  Restoring'
<1> DEFINE newmap == [v \in DOMAIN rfs.map \cup {f.uid} |->
                        IF v = f.uid THEN u ELSE rfs.map[v]]
           rest == rfs.folders \ {f}
<1>1. rfs' = [rfs EXCEPT !.folders = rest, !.map = newmap]
  BY DEF FolderDone
<1>2. /\ f \in RefFolders /\ rfs.folders \subseteq RefFolders /\ rfs.items \subseteq RefItems
      /\ rfs.on = TRUE /\ rfs.db \in Dbs
  BY DEF Restoring
<1>3. f.uid # Root /\ \A g \in RefFolders : g.uid = f.uid => g = f
  <2>1. f.uid >= 1 /\ f.uid \in Int
    BY <1>2, RefRows
  <2>. QED BY <1>2, <2>1, RefRows DEF Root
<1>4. /\ DOMAIN newmap = DOMAIN rfs.map \cup {f.uid}
      /\ newmap[f.uid] = u
      /\ \A v \in DOMAIN rfs.map : v # f.uid => newmap[v] = rfs.map[v]
  OBVIOUS
<1>5. RefFolders \ rest = (RefFolders \ rfs.folders) \cup {f}
  BY <1>2
<1> HIDE DEF newmap, rest
<1>6. /\ rfs'.on = rfs.on /\ rfs'.db = rfs.db /\ rfs'.folders = rest
      /\ rfs'.items = rfs.items /\ rfs'.map = newmap
  BY <1>1, RestoreFields
<1>7. Mapped'
  <2>1. DOMAIN rfs.map = {Root} \cup {g.uid : g \in RefFolders \ rfs.folders} /\ rfs.map[Root] = Root
    BY DEF Restoring, Mapped
  <2>2. DOMAIN newmap = {Root} \cup {g.uid : g \in RefFolders \ rest}
    BY <1>4, <1>5, <2>1
  <2>3. newmap[Root] = Root
    BY <1>3, <1>4, <2>1
  <2>4. ASSUME NEW g \in RefFolders \ rest PROVE FolderAt(work', g, newmap[g.uid])
    <3>1. CASE g = f
      BY <1>4, <3>1 DEF FolderDone
    <3>2. CASE g # f
      <4>1. g \in RefFolders \ rfs.folders /\ g.uid # f.uid
        BY <1>3, <1>5, <2>4, <3>2
      <4>2. g.uid \in DOMAIN rfs.map /\ FolderAt(work, g, rfs.map[g.uid])
        BY <2>1, <4>1 DEF Restoring, Mapped
      <4>3. newmap[g.uid] = rfs.map[g.uid]
        BY <1>4, <4>1, <4>2
      <4>. QED BY <4>2, <4>3 DEF FolderDone, Undisturbed
    <3>. QED BY <3>1, <3>2
  <2>. QED BY <1>6, <2>2, <2>3, <2>4 DEF Mapped
<1>8. rfs.items = RefItems
  BY DEF Restoring, InOrder
<1>9. InOrder' /\ Back'
  BY <1>6, <1>8 DEF InOrder, Back
<1>10. rest \subseteq RefFolders
  BY <1>2 DEF rest
<1>. QED BY <1>2, <1>6, <1>7, <1>9, <1>10 DEF Restoring

(* The folders of the reference database have different rows of the table, none of them
   the root: the counter has passed their number. *)
LEMMA FoldersCounted ==
  ASSUME RefSound, Db(work), Restoring, rfs.folders = {}
  PROVE  1 + Cardinality(RefFolders) <= work.next
<1> DEFINE at(f) == CHOOSE r \in work.rows : r.uid # Root /\ r.name = f.name
           g == [f \in RefFolders |-> at(f)]
<1>1. ASSUME NEW f \in RefFolders
      PROVE  at(f) \in work.rows /\ at(f).uid # Root /\ at(f).name = f.name
  <2>1. FolderAt(work, f, rfs.map[f.uid])
    BY <1>1 DEF Restoring, Mapped
  <2>2. PICK r \in work.rows : r.name = f.name
    BY <2>1 DEF FolderAt
  <2>3. f.name \in Name
    BY <1>1, RefRows DEF Row
  <2>4. r.uid # Root
    BY <2>2, <2>3, NoNameNew DEF Db, BookmarkRow
  <2>5. \E q \in work.rows : q.uid # Root /\ q.name = f.name
    BY <2>2, <2>4
  <2>. QED BY <2>5
<1>2. PICK root \in work.rows : root.uid = Root
  BY DEF Db, Tree, Folder
<1> DEFINE S == work.rows \ {root}
<1>3. IsFiniteSet(work.rows) /\ Cardinality(work.rows) <= work.next /\ work.next \in Nat
  BY DEF Db, Numbered
<1>4. IsFiniteSet(S) /\ Cardinality(S) = Cardinality(work.rows) - 1
  BY <1>2, <1>3, FS_RemoveElement
<1>5. g \in Injection(RefFolders, S)
  <2>1. \A f \in RefFolders : g[f] = at(f)
    OBVIOUS
  <2>2. \A f \in RefFolders : at(f) \in S
    BY <1>1, <1>2
  <2>3. g \in [RefFolders -> S]
    <3> HIDE DEF at, S
    <3>. QED BY <2>2
  <2>4. ASSUME NEW a \in RefFolders, NEW b \in RefFolders, g[a] = g[b] PROVE a = b
    <3>1. a.name = b.name
      <4> HIDE DEF at, g
      <4>. QED BY <1>1, <2>1, <2>4
    <3>. QED BY <3>1 DEF RefSound
  <2> HIDE DEF g, S, at
  <2>5. \A a, b \in RefFolders : g[a] = g[b] => a = b
    BY <2>4
  <2>. QED BY <2>3, <2>5 DEF Injection, IsInjective
<1>6. Cardinality(RefFolders) <= Cardinality(S)
  <2> HIDE DEF g, S
  <2>. QED BY <1>4, <1>5, FS_Injection
<1>7. Cardinality(RefFolders) \in Nat /\ Cardinality(work.rows) \in Nat
  BY <1>3, RefRows, FS_CardinalityType
<1> HIDE DEF S
<1>. QED BY <1>3, <1>4, <1>6, <1>7

(* The uid that the next item of the reference database asks for is not one that the
   counter still has to give. *)
LEMMA ItemCounted ==
  ASSUME RefSound, Db(work), Restoring, rfs.folders = {}, NEW i \in rfs.items,
         \A j \in rfs.items : i.uid <= j.uid
  PROVE  /\ i.uid \in 1 .. work.next
         /\ 1 + Cardinality(RefFolders) + Cardinality(RefItems \ (rfs.items \ {i})) <= work.next + 1
<1> DEFINE done == RefItems \ rfs.items
           J == {j \in RefItems : j.uid <= i.uid}
<1>1. i \in RefItems /\ rfs.items \subseteq RefItems
  BY DEF Restoring
<1>2. IsFiniteSet(done)
  <2>1. done \in SUBSET RefItems
    OBVIOUS
  <2> HIDE DEF done
  <2>. QED BY <2>1, RefRows, FS_Subset
<1>3. RefItems \ (rfs.items \ {i}) = done \cup {i} /\ i \notin done
  BY <1>1
<1>4. J = done \cup {i}
  <2>1. \A j \in done : j.uid < i.uid
    BY <1>1 DEF Restoring, InOrder
  <2>2. \A j \in RefItems : j.uid \in Int
    BY RefRows
  <2>3. \A j \in rfs.items : j.uid <= i.uid => j = i
    <3>1. \A j \in rfs.items : j.uid <= i.uid => j.uid = i.uid
      BY <1>1, <2>2
    <3>. QED BY <1>1, <3>1, RefRows
  <2>4. J \subseteq done \cup {i}
    BY <2>3
  <2>5. done \cup {i} \subseteq J
    BY <1>1, <2>1, <2>2
  <2>. QED BY <2>4, <2>5
<1>5. work.next \in Nat
  BY DEF Db
<1>6. i.uid \in 1 .. (Cardinality(RefFolders) + Cardinality(J))
  BY <1>1 DEF RefSound
<1> HIDE DEF J
<1>7. Cardinality(J) = Cardinality(done) + 1
  <2> HIDE DEF done
  <2>. QED BY <1>2, <1>3, <1>4, FS_AddElement
<1>8. Cardinality(done) \in Nat /\ Cardinality(RefFolders) \in Nat
  <2> HIDE DEF done
  <2>. QED BY <1>2, RefRows, FS_CardinalityType
<1>9. 1 + Cardinality(RefFolders) + Cardinality(done) <= work.next
  <2>1. CASE rfs.items # RefItems
    BY <2>1 DEF Restoring, InOrder
  <2>2. CASE rfs.items = RefItems
    <3>1. done = {}
      BY <2>2
    <3>2. Cardinality(done) = 0
      BY <3>1, FS_EmptySet
    <3> HIDE DEF done
    <3>. QED BY <1>8, <3>2, FoldersCounted
  <2>. QED BY <2>1, <2>2
<1> HIDE DEF done
<1>10. Cardinality(RefItems \ (rfs.items \ {i})) = Cardinality(done) + 1
  BY <1>3, <1>4, <1>7
<1>. QED BY <1>5, <1>6, <1>7, <1>8, <1>9, <1>10

(* Item i of the reference database has got a row. *)
ItemDone(i) ==
    /\ Keeps(work, work') /\ work'.next = work.next + 1
    /\ work.rows \subseteq work'.rows /\ ItemAt(work', i, rfs.map[i.parent])
    /\ rfs' = [rfs EXCEPT !.items = rfs.items \ {i}]

LEMMA ItemStep ==
  ASSUME RefSound, Db(work), Restoring, RestoreItem
  PROVE  \E i \in rfs.items : /\ \A j \in rfs.items : i.uid <= j.uid
                              /\ ItemDone(i)
<1> DEFINE i == First(rfs.items)
           item == [i EXCEPT !.parent = NewParent(@)]
<1>1. rfs.folders = {} /\ rfs.items # {} /\ rfs.items \subseteq RefItems
  BY DEF RestoreItem, Restoring
<1>2. i \in rfs.items /\ \A j \in rfs.items : i.uid <= j.uid
  <2>1. \A r \in rfs.items : r.uid \in Int /\ r.uid >= Last
    BY <1>1, RefRows DEF Last
  <2>. QED BY <1>1, <2>1, FirstRow
<1>3. i \in RefItems /\ i \in Row /\ i.type = "item"
  BY <1>1, <1>2, RefRows DEF RefItems
<1>4. i.ro \in BOOLEAN /\ i.name \in Name /\ i.uid \in Int
  BY <1>3 DEF Row
<1>5. NewParent(i.parent) = rfs.map[i.parent]
  <2>1. i.parent = Root \/ \E f \in RefFolders : f.uid = i.parent
    BY <1>3, RefRows
  <2>2. i.parent \in DOMAIN rfs.map
    BY <1>1, <2>1 DEF Restoring, Mapped
  <2>. QED BY <2>2 DEF NewParent
<1>6. item.parent = rfs.map[i.parent] /\ item.type = "item" /\ item.name = i.name
  <2> HIDE DEF i
  <2>. QED BY <1>3, <1>5 DEF Row
<1>7. PICK m \in NamesFor(work, item.name, item.parent, NullUid, "auto") :
        LET new == Added(work, item, m, TRUE, i.ro)
            r == CHOOSE q \in new.rows : q.uid = work.next /\ q \notin work.rows
        IN  work' = IF i.uid \in Uids(new) THEN new ELSE Replaced(new, r, [r EXCEPT !.uid = i.uid])
  BY DEF RestoreItem
<1>8. /\ PlaceOk(work, "item", item.parent)
      /\ rfs' = [rfs EXCEPT !.items = rfs.items \ {i}]
  BY DEF RestoreItem
<1>9. /\ i.uid \in 1 .. work.next
      /\ 1 + Cardinality(RefFolders) + Cardinality(RefItems \ (rfs.items \ {i})) <= work.next + 1
  <2> HIDE DEF i
  <2>. QED BY <1>1, <1>2, ItemCounted
<1> HIDE DEF i, item
<1>10. /\ m \in Name /\ m.b \in {i.name.b, Cut[i.name.b]}
       /\ \A q \in Rivals(work, item.parent, NullUid) : q.uid # Root => q.name # m
  <2>1. item.name \in Name
    BY <1>4, <1>6
  <2>. QED BY <1>6, <1>7, <2>1, FoundName
<1> DEFINE new == Added(work, item, m, TRUE, i.ro)
           r == CHOOSE q \in new.rows : q.uid = work.next /\ q \notin work.rows
           y == NewRow(i.uid, item, m, TRUE, i.ro)
           x == NewRow(work.next, item, m, TRUE, i.ro)
<1>11. /\ new.rows = work.rows \cup {x} /\ x.uid = work.next /\ x \notin work.rows
       /\ \A q \in new.rows : q.uid = work.next <=> q = x
       /\ Replaced(new, x, [x EXCEPT !.uid = i.uid]) = Table(work.rows \cup {y}, work.next + 1)
  <2>1. Renumbered(work, item, m, TRUE, i.ro, i.uid)
    BY RenumberedIs, Zenon
  <2>. QED BY <2>1 DEF Renumbered
<1>12. new = Table(work.rows \cup {x}, work.next + 1)
  BY AddedIs
<1>13. work' = IF i.uid \in Uids(new) THEN new ELSE Replaced(new, r, [r EXCEPT !.uid = i.uid])
  BY <1>7
<1>14. r = x
  <2> HIDE DEF new, x
  <2>. QED BY <1>11
<1> DEFINE z == IF i.uid \in Uids(new) THEN x ELSE y
<1>15. work' = Table(work.rows \cup {z}, work.next + 1)
  <2> HIDE DEF new, r, x, y
  <2>. QED BY <1>11, <1>12, <1>13, <1>14
<1>16. item.parent \in Int /\ Folder(work, item.parent)
  <2>1. Folder(work, item.parent)
    BY <1>8 DEF PlaceOk
  <2>2. \A q \in work.rows : q.uid \in Int
    BY RowUids
  <2>. QED BY <2>1, <2>2 DEF Folder
<1>17. /\ z.parent = item.parent /\ z.type = "item" /\ z.name = m /\ z.fact = TRUE
       /\ z.uid \in {work.next, i.uid}
  BY <1>6 DEF NewRow
<1>18. z.uid \notin Uids(work) /\ z.uid \in 1 .. work.next
  <2>1. work.next \notin Uids(work) /\ work.next \in 1 .. work.next
    BY NextIsNew
  <2>2. Uids(work) \subseteq Uids(new)
    <3> HIDE DEF new
    <3>. QED BY <1>11 DEF Uids
  <2>3. z.uid = IF i.uid \in Uids(new) THEN work.next ELSE i.uid
    BY DEF NewRow
  <2> HIDE DEF z, new
  <2>. QED BY <1>9, <2>1, <2>2, <2>3
<1>19. z \in BookmarkRow
  <2>1. item.type \in Types
    BY <1>6 DEF Types
  <2>2. work.next \in Int /\ work.next # Root
    BY NextIsNew DEF Root
  <2>3. i.uid # Root
    BY <1>4, <1>9 DEF Root
  <2>4. x \in BookmarkRow
    BY <1>4, <1>10, <1>16, <2>1, <2>2, NoNameNew DEF NewRow, BookmarkRow
  <2>5. y \in BookmarkRow
    BY <1>4, <1>10, <1>16, <2>1, <2>3, NoNameNew DEF NewRow, BookmarkRow
  <2>. QED BY <2>4, <2>5
<1> HIDE DEF z
<1>20. \A q \in work.rows : q.parent = z.parent /\ q.uid \notin Special => q.name # z.name
  BY <1>10, <1>17, NotTaken, RowUids
<1>21. z.uid # Root /\ Folder(work, z.parent) /\ z.type # "folder"
  BY <1>16, <1>17, <1>18 DEF Root
<1>22. Keeps(work, Table(work.rows \cup {z}, work.next + 1))
  BY <1>18, <1>19, <1>20, <1>21, InsertKeeps
<1> DEFINE R == work.rows \cup {z}
<1>23. work'.rows = R /\ work'.next = work.next + 1
  <2>1. work' = Table(R, work.next + 1)
    BY <1>15
  <2> HIDE DEF R
  <2>. QED BY <2>1, TableFields
<1>24. ItemAt(work', i, rfs.map[i.parent])
  BY <1>6, <1>10, <1>17, <1>23 DEF ItemAt
<1>25. ItemDone(i)
  BY <1>8, <1>15, <1>22, <1>23, <1>24 DEF ItemDone
<1>. QED BY <1>2, <1>25

LEMMA ItemRestoring ==
  ASSUME RefSound, Db(work), Restoring, NEW d, RestoreOf(d, rfs), RestoreItem,
         NEW i \in rfs.items, \A j \in rfs.items : i.uid <= j.uid, ItemDone(i)
  PROVE  Restoring'
<1> DEFINE rest == rfs.items \ {i}
<1>1. rfs' = [rfs EXCEPT !.items = rest]
  BY DEF ItemDone
<1>2. /\ rfs.folders = {} /\ i \in RefItems /\ rfs.items \subseteq RefItems
      /\ rfs.on = TRUE /\ rfs.db \in Dbs
  BY DEF Restoring, RestoreItem
<1>3. RefItems \ rest = (RefItems \ rfs.items) \cup {i} /\ rest \subseteq rfs.items /\ i \notin rest
  BY <1>2
<1>4. 1 + Cardinality(RefFolders) + Cardinality(RefItems \ rest) <= work.next + 1
  BY <1>2, ItemCounted
<1> HIDE DEF rest
<1>5. /\ rfs'.on = rfs.on /\ rfs'.db = rfs.db /\ rfs'.folders = rfs.folders
      /\ rfs'.items = rest /\ rfs'.map = rfs.map
  BY <1>1, RestoreFields
<1>6. work.rows \subseteq work'.rows /\ work'.next = work.next + 1
  BY DEF ItemDone
<1>7. Mapped'
  <2>1. \A f, v : FolderAt(work, f, v) => FolderAt(work', f, v)
    BY <1>6 DEF FolderAt
  <2>. QED BY <1>5, <2>1 DEF Mapped, Restoring
<1>8. InOrder'
  <2>1. ASSUME NEW j \in RefItems \ rest, NEW k \in rest PROVE j.uid < k.uid
    <3>1. CASE j \in RefItems \ rfs.items
      BY <1>3, <2>1, <3>1 DEF Restoring, InOrder
    <3>2. CASE j = i
      <4>1. i.uid <= k.uid /\ i # k /\ k \in RefItems
        BY <1>2, <1>3, <2>1
      <4>2. i.uid \in Int /\ k.uid \in Int /\ i.uid # k.uid
        BY <1>2, <4>1, RefRows
      <4>. QED BY <3>2, <4>1, <4>2
    <3>. QED BY <1>3, <2>1, <3>1, <3>2
  <2>. QED BY <1>2, <1>4, <1>5, <1>6, <2>1 DEF InOrder
<1>9. Back'
  <2>1. \A j, p : ItemAt(work, j, p) => ItemAt(work', j, p)
    BY <1>6 DEF ItemAt
  <2>2. ItemAt(work', i, rfs.map[i.parent])
    BY DEF ItemDone
  <2>. QED BY <1>3, <1>5, <2>1, <2>2 DEF Restoring, Back
<1>. QED BY <1>2, <1>3, <1>5, <1>7, <1>8, <1>9 DEF Restoring

-----------------------------------------------------------------------------
(* The whole                                                                *)

NoneYet == base = NoDatabase /\ work = NoDatabase /\ \A d \in Dbs : tx[d] = "closed"
BothDb == Db(base) /\ Db(work) /\ base.next <= work.next

(* The inductive invariant of the rows. *)
RowsOk ==
    /\ NoneYet \/ BothDb
    /\ rfs = NoRestore \/ Restoring
    /\ pending \in [Dbs -> Int] /\ files \subseteq Int

(* The names stay unique with the rows. *)
Names == NamesIn(base) /\ NamesIn(work)
RowsStep == RowsOk' /\ (Names => Names')

LEMMA NoDb == ~Db(NoDatabase) /\ NamesIn(NoDatabase)
BY DEF NoDatabase, Db, Tree, Folder, NamesIn

LEMMA RootIs == RootRow \in BookmarkRow /\ RootRow.uid = Root /\ RootRow.type = "folder"
<1>1. Root \in Int /\ NullUid \in Int /\ "folder" \in Types
  BY DEF Root, NullUid, Types
<1>. QED BY <1>1 DEF RootRow, BookmarkRow

LEMMA EmptyDb == Db([rows |-> {RootRow}, next |-> 1]) /\ NamesIn([rows |-> {RootRow}, next |-> 1])
<1> DEFINE t == Table({RootRow}, 1)
<1>1. t.rows = {RootRow} /\ t.next = 1 /\ t = [rows |-> t.rows, next |-> t.next]
  BY TableFields
<1> HIDE DEF t
<1>2. Tree(t) /\ UidsUnique(t) /\ NamesIn(t)
  BY <1>1, RootIs DEF Tree, Folder, UidsUnique, NamesIn
<1>3. IsFiniteSet({RootRow}) /\ Cardinality({RootRow}) = 1
  BY FS_Singleton
<1>4. Numbered(t)
  BY <1>1, <1>3, RootIs DEF Numbered
<1>5. Db(t)
  BY <1>1, <1>2, <1>4, RootIs DEF Db
<1>. QED BY <1>2, <1>5 DEF t, Table

LEMMA ImportedDb ==
  ASSUME ImportSound
  PROVE  LET t == [rows |-> {RootRow} \cup Import, next |-> Cardinality(Import) + 1] IN
         Db(t) /\ NamesIn(t)
<1> DEFINE t == Table({RootRow} \cup Import, Cardinality(Import) + 1)
<1>1. /\ t.rows = {RootRow} \cup Import /\ t.next = Cardinality(Import) + 1
      /\ t = [rows |-> t.rows, next |-> t.next]
  BY TableFields
<1> HIDE DEF t
<1>2. IsFiniteSet(Import) /\ Import \subseteq Row
  BY DbConstants
<1>3. Cardinality(Import) \in Nat
  BY <1>2, FS_CardinalityType
<1>4. \A r \in Import : r.uid \in Int /\ r.uid # Root /\ r.uid # NullUid /\ r.uid \in 1 .. t.next - 1
  BY <1>1, <1>3 DEF ImportSound, Root, NullUid
<1>5. Import \subseteq BookmarkRow
  BY <1>2, <1>4, NoNameNew DEF Row, BookmarkRow
<1>6. Tree(t)
  BY <1>1 DEF ImportSound, Tree, Folder
<1>7. UidsUnique(t)
  BY <1>1, <1>4, RootIs DEF ImportSound, UidsUnique
<1>8. RootRow \notin Import
  BY <1>4, RootIs
<1>9. IsFiniteSet(t.rows) /\ Cardinality(t.rows) = Cardinality(Import) + 1
  <2>1. t.rows = Import \cup {RootRow}
    BY <1>1
  <2>. QED BY <1>2, <1>8, <2>1, FS_AddElement
<1>10. Numbered(t)
  <2>1. Cardinality(t.rows) <= t.next
    BY <1>1, <1>3, <1>9
  <2>2. \A r \in t.rows : r.uid \in Special \cup {Root} \/ r.uid \in 1 .. t.next - 1
    BY <1>1, <1>4, RootIs
  <2>. QED BY <1>9, <2>1, <2>2 DEF Numbered
<1>11. Db(t)
  BY <1>1, <1>3, <1>5, <1>6, <1>7, <1>10, RootIs DEF Db
<1>12. NamesIn(t)
  <2>1. \A r \in Import : r.name \in Name /\ r.name # RootRow.name
    BY <1>2, NoNameNew DEF Row, RootRow
  <2>. QED BY <1>1, <2>1 DEF ImportSound, NamesIn
<1>. QED BY <1>11, <1>12 DEF t, Table

(* Whatever the counter: a rollback may take it back or not. *)
LEMMA CounterDb ==
  ASSUME NEW t, Db(t), NEW n \in Nat, t.next <= n
  PROVE  Db([t EXCEPT !.next = n]) /\ (NamesIn(t) => NamesIn([t EXCEPT !.next = n]))
         /\ [t EXCEPT !.next = n].next = n
<1> DEFINE u == [t EXCEPT !.next = n]
<1>1. u.rows = t.rows /\ u.next = n /\ u = [rows |-> u.rows, next |-> u.next]
  BY DEF Db
<1> HIDE DEF u
<1>2. t.next \in Nat /\ t.rows \subseteq BookmarkRow /\ Tree(t) /\ UidsUnique(t) /\ Numbered(t)
  BY DEF Db
<1>3. Tree(u) /\ UidsUnique(u) /\ (NamesIn(t) => NamesIn(u))
  BY <1>1, <1>2 DEF Tree, Folder, UidsUnique, NamesIn
<1>4. IsFiniteSet(u.rows) /\ Cardinality(u.rows) <= t.next /\ Cardinality(u.rows) \in Nat
  BY <1>1, <1>2, FS_CardinalityType DEF Numbered
<1>5. Cardinality(u.rows) <= u.next
  BY <1>1, <1>2, <1>4
<1>6. \A r \in u.rows : r.uid \in Special \cup {Root} \/ r.uid \in 1 .. u.next - 1
  BY <1>1, <1>2 DEF Numbered
<1>7. Db(u)
  BY <1>1, <1>2, <1>3, <1>4, <1>5, <1>6 DEF Db, Numbered
<1>. QED BY <1>1, <1>3, <1>7 DEF u

LEMMA InitRows == Init => RowsOk /\ Names
<1>1. ASSUME Init PROVE RowsOk /\ Names
  <2>1. NoneYet /\ rfs = NoRestore /\ base = NoDatabase /\ work = NoDatabase
    BY <1>1 DEF Init, NoneYet
  <2>2. pending \in [Dbs -> Int] /\ files \subseteq Int
    BY <1>1 DEF Init, NullUid
  <2>. QED BY <2>1, <2>2, NoDb DEF RowsOk, Names
<1>. QED BY <1>1

LEMMA OpenDb == ASSUME RowsOk, NEW d \in Dbs, tx[d] # "closed" PROVE BothDb
BY DEF RowsOk, NoneYet

LEMMA ViewDb == ASSUME RowsOk, NEW d \in Dbs, tx[d] # "closed" PROVE Db(View(d))
BY OpenDb DEF BothDb, View

LEMMA OpenRows ==
  ASSUME ImportSound, RowsOk, NEW d \in Dbs, Open(d)
  PROVE  RowsStep
<1>1. UNCHANGED <<pending, files, rfs>> /\ rfs = NoRestore
  BY DEF Open, Ready
<1>2. CASE base = NoDatabase
  <2>1. base' \in Created /\ work' = base'
    BY <1>2 DEF Open
  <2>2. Db(base') /\ NamesIn(base')
    BY <2>1, EmptyDb, ImportedDb DEF Created
  <2>3. base'.next \in Nat
    BY <2>2 DEF Db
  <2>4. BothDb'
    BY <2>1, <2>2, <2>3 DEF BothDb
  <2>5. Names'
    BY <2>1, <2>2 DEF Names
  <2>. QED BY <1>1, <2>4, <2>5 DEF RowsOk, RowsStep
<1>3. CASE base # NoDatabase
  <2>1. UNCHANGED <<base, work>> /\ BothDb
    BY <1>3 DEF Open, RowsOk, NoneYet
  <2>2. BothDb' /\ (Names => Names')
    BY <2>1 DEF BothDb, Names
  <2>. QED BY <1>1, <2>2 DEF RowsOk, RowsStep
<1>. QED BY <1>2, <1>3

LEMMA RowRows ==
  ASSUME RowsOk, NEW d \in Dbs, Free(d), RowsKept(d), UNCHANGED <<pending, files, rfs>>
  PROVE  RowsStep
<1>1. rfs = NoRestore /\ tx[d] \in {"idle", "read", "write"} /\ BothDb
  BY OpenDb DEF Free, Ready
<1>2. PICK u : Change(d, u) /\ Keeps(View(d), u)
  BY DEF RowsKept
<1>3. Db(u) /\ View(d).next <= u.next /\ u.next \in Nat /\ (NamesIn(View(d)) => NamesIn(u))
  BY <1>2 DEF Keeps, Db
<1>4. base.next \in Nat /\ work.next \in Nat /\ base.next <= work.next /\ Db(base)
  BY <1>1 DEF BothDb, Db
<1>5. View(d) = base \/ View(d) = work
  BY DEF View
<1>6. base.next <= View(d).next /\ View(d).next \in Nat
  BY <1>4, <1>5
<1>7. work' = u /\ (base' = u \/ base' = base)
  BY <1>2 DEF Change
<1>8. BothDb'
  <2>1. base.next <= u.next /\ u.next <= u.next
    BY <1>3, <1>4, <1>6
  <2>. QED BY <1>3, <1>4, <1>7, <2>1 DEF BothDb
<1>9. Names => Names'
  BY <1>3, <1>5, <1>7 DEF Names
<1>. QED BY <1>1, <1>8, <1>9 DEF RowsOk, RowsStep

(* What a rollback leaves. *)
LEMMA RolledBackDb ==
  ASSUME BothDb, NEW d, NEW t \in RolledBack(d)
  PROVE  /\ Db(t) /\ (NamesIn(base) => NamesIn(t))
         /\ ~Writing(d) => t.next <= work.next
<1>1. base.next \in Nat /\ work.next \in Nat /\ base.next <= work.next /\ Db(base)
  BY DEF BothDb, Db
<1>2. CASE Writing(d)
  <2>1. PICK n \in {base.next, work.next} : t = [base EXCEPT !.next = n]
    BY <1>2 DEF RolledBack
  <2>2. n \in Nat /\ base.next <= n
    BY <1>1, <2>1
  <2>. QED BY <1>1, <1>2, <2>1, <2>2, CounterDb
<1>3. CASE ~Writing(d)
  BY <1>1, <1>3 DEF RolledBack
<1>. QED BY <1>2, <1>3

LEMMA RollbackRows ==
  ASSUME BothDb, NEW d, NEW t \in RolledBack(d), base' = t,
         work' = IF Writing(d) THEN t ELSE work
  PROVE  BothDb' /\ (Names => Names')
<1>1. Db(t) /\ (NamesIn(base) => NamesIn(t)) /\ (~Writing(d) => t.next <= work.next)
  BY RolledBackDb
<1>2. Db(work) /\ t.next \in Nat
  BY <1>1 DEF BothDb, Db
<1>3. BothDb'
  BY <1>1, <1>2 DEF BothDb
<1>. QED BY <1>1, <1>3 DEF Names

LEMMA CloseRows ==
  ASSUME RowsOk, NEW d \in Dbs, Closes(d) \/ Rollback(d)
  PROVE  RowsStep
<1>1. BothDb /\ rfs = NoRestore /\ UNCHANGED rfs
  BY OpenDb DEF Closes, Close, Rollback, Ready, Locking
<1>2. PICK t \in RolledBack(d) : base' = t /\ work' = IF Writing(d) THEN t ELSE work
  BY DEF Closes, Close, Rollback
<1>3. BothDb' /\ (Names => Names')
  BY <1>1, <1>2, RollbackRows
<1>4. pending' \in [Dbs -> Int]
  BY DEF Closes, Close, Rollback, RowsOk, NullUid
<1>5. files' \subseteq files
  BY DEF Closes, Close, Rollback, CleanedFiles
<1>. QED BY <1>1, <1>3, <1>4, <1>5 DEF RowsOk, RowsStep

LEMMA CommitRows ==
  ASSUME RowsOk, NEW d \in Dbs, CommitL(d)
  PROVE  RowsStep
<1>1. BothDb /\ rfs = NoRestore /\ UNCHANGED <<work, pending, files, rfs>> /\ base' = View(d)
  BY OpenDb DEF CommitL, Free, Ready
<1>2. View(d) = base \/ View(d) = work
  BY DEF View
<1>3. work.next \in Nat
  BY <1>1 DEF BothDb, Db
<1>4. BothDb' /\ (Names => Names')
  BY <1>1, <1>2, <1>3 DEF BothDb, Names
<1>. QED BY <1>1, <1>4 DEF RowsOk, RowsStep

LEMMA FileRows ==
  ASSUME RowsOk, NEW d \in Dbs,
         \/ \E write \in BOOLEAN : BeginL(d, write)
         \/ FileOpenWrite(d) \/ \E u : FileOpen(d, u) \/ FileDelete(d, u)
  PROVE  RowsStep
<1>1. UNCHANGED <<base, work, rfs>> /\ rfs = NoRestore
  BY DEF BeginL, FileOpenWrite, FileOpen, FileDelete, Free, Ready
<1>2. Names => Names'
  BY <1>1 DEF Names
<1>3. \A u \in Uids(View(d)) : tx[d] # "closed" => u \in Int
  <2>1. tx[d] # "closed" => \A r \in View(d).rows : r.uid \in Int
    BY ViewDb, RowUids
  <2>. QED BY <2>1 DEF Uids
<1>4. files' \subseteq Int /\ pending' \in [Dbs -> Int]
  <2>1. files \subseteq Int /\ pending \in [Dbs -> Int] /\ NullUid \in Int
    BY DEF RowsOk, NullUid
  <2>2. CASE \E write \in BOOLEAN : BeginL(d, write)
    BY <2>1, <2>2 DEF BeginL
  <2>3. CASE FileOpenWrite(d)
    BY <2>1, <2>3 DEF FileOpenWrite
  <2>4. CASE \E u : FileOpen(d, u)
    BY <1>3, <2>1, <2>4 DEF FileOpen, Free
  <2>5. CASE \E u : FileDelete(d, u)
    BY <2>1, <2>5 DEF FileDelete
  <2>. QED BY <2>2, <2>3, <2>4, <2>5
<1>5. (NoneYet \/ BothDb)'
  <2>1. CASE BothDb
    BY <1>1, <2>1 DEF BothDb
  <2>2. CASE NoneYet
    <3>1. UNCHANGED tx
      BY <2>2 DEF NoneYet, BeginL, FileOpenWrite, FileOpen, FileDelete, Free
    <3>. QED BY <1>1, <2>2, <3>1 DEF NoneYet
  <2>. QED BY <2>1, <2>2 DEF RowsOk
<1>. QED BY <1>1, <1>2, <1>4, <1>5 DEF RowsOk, RowsStep

LEMMA StartRows ==
  ASSUME RefSound, RowsOk, NEW d \in Dbs, RestoreFactorySettingsL(d)
  PROVE  RowsStep
<1>1. BothDb /\ work' = Stripped(work) /\ UNCHANGED <<base, tx, pending, files>>
  BY OpenDb DEF RestoreFactorySettingsL
<1>2. Keeps(work, work')
  BY <1>1, StrippedKeeps DEF BothDb
<1>3. BothDb'
  <2>1. base.next \in Nat /\ work.next \in Nat /\ work'.next \in Nat
    BY <1>1, <1>2 DEF BothDb, Keeps, Db
  <2>. QED BY <1>1, <1>2, <2>1 DEF BothDb, Keeps
<1>4. Names => Names'
  BY <1>1, <1>2 DEF Names, Keeps
<1>5. rfs' = [on |-> TRUE, db |-> d, folders |-> RefFolders, items |-> RefItems,
              map |-> [u \in {Root} |-> Root]]
  BY DEF RestoreFactorySettingsL
<1>6. /\ rfs'.on = TRUE /\ rfs'.db = d /\ rfs'.folders = RefFolders /\ rfs'.items = RefItems
      /\ rfs'.map = [u \in {Root} |-> Root]
  BY <1>5
<1>7. Restoring'
  BY <1>6 DEF Restoring, Mapped, InOrder, Back
<1>. QED BY <1>1, <1>3, <1>4, <1>7 DEF RowsOk, RowsStep

LEMMA RestoreRows ==
  ASSUME RefSound, Locks, RowsOk, RestoreFolder \/ RestoreItem \/ RestoreDone
  PROVE  RowsStep
<1>1. rfs # NoRestore
  <2>1. rfs.on
    BY DEF RestoreFolder, RestoreItem, RestoreDone
  <2>2. ~NoRestore.on
    BY DEF NoRestore
  <2>. QED BY <2>1, <2>2
<1>2. PICK d \in Dbs : tx[d] = "write" /\ RestoreOf(d, rfs)
  BY <1>1 DEF Locks, RestoreWrites
<1>3. BothDb /\ Restoring /\ Db(work)
  BY <1>1, <1>2, OpenDb DEF RowsOk, BothDb
<1>4. UNCHANGED <<base, pending, files>>
  BY DEF RestoreFolder, RestoreItem, RestoreDone
<1>5. ASSUME Keeps(work, work') PROVE BothDb' /\ (Names => Names')
  <2>1. base.next \in Nat /\ work.next \in Nat /\ work'.next \in Nat
    BY <1>3, <1>5 DEF BothDb, Keeps, Db
  <2>. QED BY <1>3, <1>4, <1>5, <2>1 DEF BothDb, Keeps, Names
<1>6. ASSUME UNCHANGED work PROVE BothDb' /\ (Names => Names')
  BY <1>3, <1>4, <1>6 DEF BothDb, Names
<1>7. CASE RestoreFolder
  <2>1. CASE rfs' = NoRestore /\ UNCHANGED work
    BY <1>4, <1>6, <2>1 DEF RowsOk, RowsStep
  <2>2. ASSUME NEW f \in rfs.folders, NEW u, FolderDone(f, u) PROVE RowsStep
    <3>1. Restoring'
      BY <1>2, <1>3, <1>7, <2>2, FolderRestoring
    <3>2. Keeps(work, work')
      BY <2>2 DEF FolderDone
    <3>. QED BY <1>4, <1>5, <3>1, <3>2 DEF RowsOk, RowsStep
  <2>. QED BY <1>3, <1>7, <2>1, <2>2, FolderStep
<1>8. CASE RestoreItem
  <2>1. PICK i \in rfs.items : (\A j \in rfs.items : i.uid <= j.uid) /\ ItemDone(i)
    BY <1>3, <1>8, ItemStep
  <2>2. Restoring'
    BY <1>2, <1>3, <1>8, <2>1, ItemRestoring
  <2>3. Keeps(work, work')
    BY <2>1 DEF ItemDone
  <2>. QED BY <1>4, <1>5, <2>2, <2>3 DEF RowsOk, RowsStep
<1>9. CASE RestoreDone
  BY <1>4, <1>6, <1>9 DEF RestoreDone, RowsOk, RowsStep
<1>. QED BY <1>7, <1>8, <1>9

LEMMA OtherRows ==
  ASSUME RowsOk, DeleteDatabase \/ Crash \/ UNCHANGED vars
  PROVE  RowsStep
<1>1. CASE UNCHANGED vars
  BY <1>1 DEF vars, RowsOk, RowsStep, NoneYet, BothDb, Names, Restoring, Mapped, InOrder, Back
<1>2. CASE DeleteDatabase
  <2>1. NoneYet' /\ base' = NoDatabase /\ work' = NoDatabase /\ rfs' = NoRestore
    BY <1>2 DEF DeleteDatabase, NoneYet, Ready
  <2>2. UNCHANGED <<pending, files>>
    BY <1>2 DEF DeleteDatabase
  <2>. QED BY <2>1, <2>2, NoDb DEF RowsOk, RowsStep, Names
<1>3. CASE Crash
  <2>1. /\ base' = base /\ work' = base /\ rfs' = NoRestore /\ files' = files
        /\ tx' = [d \in Dbs |-> "closed"] /\ pending' = [d \in Dbs |-> NullUid]
    BY <1>3 DEF Crash
  <2>2. pending' \in [Dbs -> Int]
    BY <2>1 DEF NullUid
  <2>3. Names => Names'
    BY <2>1 DEF Names
  <2>4. CASE NoneYet
    BY <2>1, <2>2, <2>3, <2>4 DEF NoneYet, RowsOk, RowsStep
  <2>5. CASE BothDb
    <3>1. base.next \in Nat
      BY <2>5 DEF BothDb, Db
    <3>2. BothDb'
      BY <2>1, <2>5, <3>1 DEF BothDb
    <3>. QED BY <2>1, <2>2, <2>3, <3>2 DEF RowsOk, RowsStep
  <2>. QED BY <2>4, <2>5 DEF RowsOk
<1>. QED BY <1>1, <1>2, <1>3

(* The requests that change rows, with what Request lets a client put into a row. *)
LEMMA RequestRows ==
  ASSUME RowsOk, NEW d \in Dbs,
         \/ \E type \in Types, parent \in Parents(View(d)), b \in NewBases, n \in NewPostfix :
              \E item \in {Item(type, parent, b, n)} :
              \/ \E rename \in {"auto", "dont"} :
                   \/ AddL(d, item, rename)
                   \/ \E r \in View(d).rows : UpdateL(d, r, item, rename)
              \/ \E u \in Special : "special" \in Events /\ SetSpecialItemL(d, u, item)
         \/ \E r : DeleteL(d, r) \/ SetReadOnlyL(d, r) \/ SetFactoryItemL(d, r)
  PROVE  RowsStep
<1>1. Free(d) /\ UNCHANGED <<pending, files, rfs>>
  BY ZenonT(60) DEF AddL, UpdateL, SetSpecialItemL, DeleteL, SetReadOnlyL, SetFactoryItemL
<1>2. Db(View(d))
  BY <1>1, ViewDb DEF Free
<1>3. \A type \in Types, parent \in Parents(View(d)), b \in NewBases, n \in NewPostfix :
        Item(type, parent, b, n) \in NewItem
  <2>1. Parents(View(d)) \subseteq Int
    BY <1>2, RowUids DEF Parents, Uids, Root
  <2>2. NewBases \subseteq Bases /\ NewPostfix \subseteq Nat
    BY DbConstants
  <2>. QED BY <2>1, <2>2 DEF Item, NewItem, Name
<1>4. \/ \E item \in NewItem, rename \in {"auto", "dont"} :
           AddL(d, item, rename) \/ \E r : UpdateL(d, r, item, rename)
      \/ \E item \in NewItem, u \in Special : SetSpecialItemL(d, u, item)
      \/ \E r : DeleteL(d, r) \/ SetReadOnlyL(d, r) \/ SetFactoryItemL(d, r)
  BY <1>3
<1>5. RowsKept(d)
  BY <1>2, <1>4, AddKept, UpdateKept, SpecialKept, DeleteKept, FlagKept
<1>. QED BY <1>1, <1>5, RowRows

LEMMA RowsSteps ==
  ASSUME RefSound, ImportSound, Locks, RowsOk, [Next]_vars
  PROVE  RowsOk' /\ (Names => Names')
<1>1. CASE UNCHANGED vars
  BY <1>1, OtherRows DEF RowsStep
<1>2. CASE Next
  <2>1. CASE RestoreFolder \/ RestoreItem \/ RestoreDone
    BY <2>1, RestoreRows DEF RowsStep
  <2>2. CASE DeleteDatabase \/ Crash
    BY <2>2, OtherRows DEF RowsStep
  <2>3. ASSUME NEW d \in Dbs, Request(d)
        PROVE  RowsOk' /\ (Names => Names')
    <3>1. CASE Open(d)
      BY <3>1, OpenRows DEF RowsStep
    <3>2. CASE Rollback(d)
      BY <3>2, CloseRows DEF RowsStep
    <3>3. CASE CommitL(d)
      BY <3>3, CommitRows DEF RowsStep
    <3>4. CASE \/ \E write \in BOOLEAN : BeginL(d, write)
               \/ FileOpenWrite(d) \/ \E u : FileOpen(d, u) \/ FileDelete(d, u)
      BY <3>4, FileRows DEF RowsStep
    <3>5. CASE RestoreFactorySettingsL(d)
      BY <3>5, StartRows DEF RowsStep
    <3>6. CASE \/ \E type \in Types, parent \in Parents(View(d)), b \in NewBases, n \in NewPostfix :
                    \E item \in {Item(type, parent, b, n)} :
                    \/ \E rename \in {"auto", "dont"} :
                         \/ AddL(d, item, rename)
                         \/ \E r \in View(d).rows : UpdateL(d, r, item, rename)
                    \/ \E u \in Special : "special" \in Events /\ SetSpecialItemL(d, u, item)
               \/ \E r : DeleteL(d, r) \/ SetReadOnlyL(d, r) \/ SetFactoryItemL(d, r)
      BY <3>6, RequestRows, Zenon DEF RowsStep
    <3>. QED
      BY <2>3, <3>1, <3>2, <3>3, <3>4, <3>5, <3>6 DEF Request
  <2>4. ASSUME NEW d \in Dbs, CloseSome(d)
        PROVE  RowsOk' /\ (Names => Names')
    BY <2>4, ClosingSteps, CloseRows DEF RowsStep
  <2>. QED
    BY <1>2, <2>1, <2>2, <2>3, <2>4 DEF Next
<1>. QED
  BY <1>1, <1>2

LEMMA RowsHold ==
  ASSUME RefSound, ImportSound
  PROVE  Spec => [](Locks /\ RowsOk)
<1>1. Locks /\ RowsOk /\ [Next]_vars => RowsOk'
  BY RowsSteps
<1>2. Init => RowsOk
  BY InitRows
<1>. QED
  BY LocksHold, <1>1, <1>2, PTL DEF Spec

LEMMA RowTypes == ASSUME NEW t, Db(t) \/ t = NoDatabase PROVE t \in DatabaseType
<1>1. ASSUME Db(t) PROVE t \in DatabaseType
  <2>1. t.rows \subseteq BookmarkRow /\ t.next \in Nat /\ t = [rows |-> t.rows, next |-> t.next]
    BY <1>1 DEF Db
  <2>2. BookmarkRow \subseteq {r \in [uid : Int, parent : Int, type : Types,
                                      name : Name \cup {NoName}, ro : BOOLEAN, fact : BOOLEAN] :
                                  r.name = NoName <=> r.uid = Root}
    BY DEF BookmarkRow
  <2>. QED BY <2>1, <2>2 DEF DatabaseType
<1>2. NoDatabase \in DatabaseType
  BY DEF NoDatabase, DatabaseType
<1>. QED BY <1>1, <1>2

(* What a clean-up could not remove were files of uids. *)
LEMMA SparedHold ==
  ASSUME RefSound, ImportSound
  PROVE  Spec => [](spared \subseteq Int)
<1>1. Init => spared \subseteq Int
  BY DEF Init
<1>2. ASSUME RowsOk, spared \subseteq Int, [Next]_vars PROVE spared' \subseteq Int
  <2>1. ASSUME NEW d \in Dbs, CloseSome(d) PROVE spared' \subseteq files
    BY <2>1 DEF CloseSome, Close
  <2>2. CASE Crash
    BY <1>2, <2>2 DEF Crash, RowsOk
  <2>. QED
    BY <1>2, <2>1, <2>2 DEF Next, RowsOk, vars
<1>3. RowsOk /\ spared \subseteq Int /\ [Next]_vars => (spared \subseteq Int)'
  BY <1>2
<1>. QED
  BY <1>1, <1>3, RowsHold, PTL DEF Spec

(* For any number of handles, any names and rows: whatever the requests add, move,     *)
(* delete, roll back or leave half-way, and wherever a restore is interrupted, the      *)
(* bookmarks are a tree of depth two and a uid names one row, also where a row gets an  *)
(* explicit uid.  The reference database and the rows of a new database are assumed to  *)
(* have come about through the same checks.                                            *)
THEOREM TreeIsSound ==
  ASSUME RefSound, ImportSound
  PROVE  Spec => []TreeSound
<1>1. ASSUME Locks, RowsOk, spared \subseteq Int PROVE TreeSound
  <2>1. (base = NoDatabase /\ work = NoDatabase) \/ (Db(base) /\ Db(work))
    BY <1>1 DEF RowsOk, NoneYet, BothDb
  <2>2. base \in DatabaseType /\ work \in DatabaseType
    BY <2>1, RowTypes
  <2>3. TypeOK
    BY <1>1, <2>2 DEF Locks, TxType, RowsOk, Restoring, TypeOK
  <2>. QED BY <2>1, <2>3 DEF Db, TreeSound
<1>2. Locks /\ RowsOk /\ spared \subseteq Int => TreeSound
  BY <1>1
<1>. QED
  BY RowsHold, SparedHold, <1>2, PTL

(* For any number of handles, any names and rows: no two rows of a folder have the same *)
(* name, be they added, moved, renamed, restored or rolled back, the special items      *)
(* excepted: the name that MakeUniqueNameL generates is free, and where it is asked     *)
(* not to rename, a request for a name that is taken is refused.                        *)
THEOREM NamesAreUnique ==
  ASSUME RefSound, ImportSound
  PROVE  Spec => []NamesUnique
<1>1. Locks /\ RowsOk /\ Names /\ [Next]_vars => Names'
  BY RowsSteps
<1>2. Init => Names
  BY InitRows
<1>3. Names => NamesUnique
  BY DEF Names, NamesIn, NamesUnique
<1>. QED
  BY RowsHold, <1>1, <1>2, <1>3, PTL DEF Spec

(* For any reference database: a restore of the factory settings that gets to its end   *)
(* has put back every item of the reference database, unmodified, under the folder that *)
(* took the place of its own (RestoreFactorySettingsL).                                 *)
THEOREM RestoreIsComplete ==
  ASSUME RefSound, ImportSound
  PROVE  Spec => []RestoreComplete
<1>1. ASSUME RowsOk PROVE RestoreComplete
  <2>1. ~NoRestore.on
    BY DEF NoRestore
  <2>. QED BY <1>1, <2>1 DEF RowsOk, Restoring, Back, ItemAt, RestoreComplete
<1>2. Locks /\ RowsOk => RestoreComplete
  BY <1>1
<1>. QED
  BY RowsHold, <1>2, PTL

(* For any reference database: no step of a restore of the factory settings touches an  *)
(* item that the user made or edited, whatever names and uids it has.                   *)
THEOREM UserItemsStay ==
  ASSUME RefSound, ImportSound
  PROVE  Spec => UserItemsKept
<1> DEFINE Mine == {r \in work.rows : r.type = "item" /\ ~r.fact}
<1>1. ASSUME Locks, RowsOk, [Next]_vars, rfs'.on
      PROVE  Mine \subseteq work'.rows
  <2>1. ~NoRestore.on
    BY DEF NoRestore
  <2>2. CASE UNCHANGED work
    BY <2>2
  <2>3. ASSUME NEW d \in Dbs, RestoreFactorySettingsL(d) PROVE Mine \subseteq work'.rows
    <3>1. Db(work) /\ work' = Stripped(work)
      BY <1>1, <2>3, OpenDb DEF RestoreFactorySettingsL, BothDb
    <3>2. work'.rows = {IF r.fact THEN [r EXCEPT !.fact = FALSE, !.ro = FALSE] ELSE r :
                          r \in {q \in work.rows : ~(q.fact /\ q.type = "item")}}
      BY <3>1 DEF Stripped, Db
    <3>. QED BY <3>2
  <2>4. CASE RestoreFolder \/ RestoreItem \/ RestoreDone
    <3>1. rfs # NoRestore
      BY <2>1, <2>4 DEF RestoreFolder, RestoreItem, RestoreDone
    <3>2. PICK d \in Dbs : tx[d] = "write"
      BY <1>1, <3>1 DEF Locks, RestoreWrites
    <3>3. Db(work) /\ Restoring
      BY <1>1, <3>1, <3>2, OpenDb DEF RowsOk, BothDb
    <3>4. CASE RestoreFolder
      BY <1>1, <2>2, <3>3, <3>4, FolderStep DEF FolderDone, Undisturbed
    <3>5. CASE RestoreItem
      BY <3>3, <3>5, ItemStep DEF ItemDone
    <3>6. CASE RestoreDone
      BY <2>2, <3>6 DEF RestoreDone
    <3>. QED BY <2>4, <3>4, <3>5, <3>6
  <2>5. CASE rfs' = NoRestore
    BY <1>1, <2>1, <2>5
  <2>6. ASSUME NEW d \in Dbs, Request(d), ~RestoreFactorySettingsL(d)
        PROVE  rfs' = NoRestore
    <3>1. CASE RowRequest(d)
      BY <3>1 DEF RowRequest, Free, Ready
    <3>2. CASE Open(d) \/ CommitL(d) \/ Rollback(d)
      BY <3>2 DEF Open, CommitL, Rollback, Free, Ready
    <3>3. CASE FileOpenWrite(d) \/ \E write \in BOOLEAN : BeginL(d, write)
      BY <3>3 DEF FileOpenWrite, BeginL, Free, Ready
    <3>4. CASE \E u : FileOpen(d, u) \/ FileDelete(d, u)
      BY <3>4 DEF FileOpen, FileDelete, Free, Ready
    <3>. QED BY <2>6, <3>1, <3>2, <3>3, <3>4, RequestSteps
  <2>7. CASE UNCHANGED vars
    BY <2>2, <2>7 DEF vars
  <2>8. CASE DeleteDatabase \/ Crash
    BY <2>5, <2>8 DEF DeleteDatabase, Crash, Ready
  <2>9. CASE \E d \in Dbs : Request(d)
    BY <2>3, <2>5, <2>6, <2>9
  <2>10. ASSUME NEW d \in Dbs, CloseSome(d) PROVE rfs' = NoRestore
    BY <2>10 DEF CloseSome, Close, Ready
  <2>. QED BY <1>1, <2>4, <2>5, <2>7, <2>8, <2>9, <2>10 DEF Next
<1>2. Locks /\ RowsOk /\ [Next]_vars =>
        (rfs'.on => {r \in work.rows : r.type = "item" /\ ~r.fact} \subseteq work'.rows)
  BY <1>1
<1>. QED
  BY RowsHold, <1>2, PTL DEF Spec, UserItemsKept
=============================================================================
