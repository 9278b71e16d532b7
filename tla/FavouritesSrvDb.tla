--------------------------- MODULE FavouritesSrvDb ---------------------------
(***************************************************************************)
(* The bookmark database of the Favourites engine                          *)
(* (browserutilities/favouritesengine/ClientServer): CFavouritesSrvDb and   *)
(* RFavouritesSrvTable, as the clients' requests drive them through         *)
(* CFavouritesSession::ServiceL.                                            *)
(*                                                                         *)
(* Every open database handle d has a CFavouritesSrvDb of its own on the    *)
(* one named database.  The server has one thread, so a request runs to its *)
(* end before the next one; what interleaves are the requests of the        *)
(* handles, and a client's transaction spans several of them.  The database *)
(* server (DBMS) is external: Begin takes a shared lock, the first write    *)
(* (PutWriteLockL, UpdateL, DeleteL) an exclusive one, and both fail at     *)
(* once with KErrLocked when another handle is in the way.                  *)
(*                                                                         *)
(* A request that fails before it writes changes nothing here, so only the  *)
(* requests that change something are actions.  A row keeps the columns the *)
(* control depends on; url, access point, user data, context id and         *)
(* modification time are left out.                                          *)
(***************************************************************************)
EXTENDS Integers, FiniteSets

CONSTANTS
    Dbs,        \* open handles: one client each
    Bases,      \* names without their "(nn)" postfix
    Cut,        \* Cut[b]: b shortened to leave room for a postfix (b if short)
    Wild,       \* the bases that the query language reads as "matches all"
    Import,     \* rows a new database is filled with (BookmarkImportSample.txt)
    RefTable,   \* rows of the reference database of "restore factory settings"
    NewBases,   \* the bases clients put into names
    NewPostfix, \* the postfixes clients themselves put into names
    FlagUids,   \* bound: the uids clients set the read-only and factory flags of
    MaxUid,     \* bound: no insertion takes the counter beyond it
    Events      \* which of the optional events may happen

NullUid == 0
Root == -1
Home == -2
Last == -3
Special == {Home, Last}

Types == {"item", "folder"}
Name == [b : Bases, n : Nat]
NoName == [b |-> "", n |-> 0]
Row == [uid : Int, parent : Int, type : Types, name : Name, ro : BOOLEAN, fact : BOOLEAN]
RootRow == [uid |-> Root, parent |-> NullUid, type |-> "folder", name |-> NoName,
            ro |-> FALSE, fact |-> FALSE]

\* A database: its rows and the value the next inserted row gets as its uid.
\* The first insertion, the root's, used up the 0.
NoDatabase == [rows |-> {}, next |-> 0]
Uids(t) == {r.uid : r \in t.rows}
Folder(t, u) == \E r \in t.rows : r.uid = u /\ r.type = "folder"

ASSUME DbConstants ==
    /\ Cut \in [Bases -> Bases] /\ Wild \subseteq Bases
    /\ \A b \in Bases : Cut[Cut[b]] = Cut[b] /\ (b \in Wild => Cut[b] = b)
    /\ "" \notin Bases
    /\ NewBases \subseteq Bases /\ NewPostfix \subseteq Nat /\ MaxUid \in Nat
    /\ Import \subseteq Row /\ RefTable \subseteq Row
    /\ IsFiniteSet(Import) /\ IsFiniteSet(RefTable)
    /\ \A r \in RefTable : /\ r.parent = Root \/ Folder([rows |-> RefTable], r.parent)
                           /\ r.type = "folder" => r.parent = Root

VARIABLES
    base,    \* the committed database
    work,    \* the database as the handle with the write lock sees it
    tx,      \* tx[d]: "closed", "idle", "read", "write", or "failed" (see Rollback)
    pending, \* pending[d]: uid whose file name FilenameL has given out, or NullUid
    files,   \* the uids that have a file in iSavedFilePath
    rfs,     \* the restore in progress on the server thread
    spared   \* history: the files the clean-up that has just ended could not remove

vars == <<base, work, tx, pending, files, rfs, spared>>

-----------------------------------------------------------------------------
(* Locks and transactions *)

Locking(d) == tx[d] \in {"read", "write", "failed"}
Writing(d) == tx[d] \in {"write", "failed"}
Others(d) == {e \in Dbs \ {d} : Locking(e)}
CanRead(d) == \A e \in Dbs \ {d} : ~Writing(e)
CanWrite(d) == Others(d) = {}

NoRestore == [on |-> FALSE]
Ready == rfs = NoRestore

\* A client can make a request on its handle: the server thread is free, the
\* client is not in the middle of RFavouritesFile::DoOpen and not leaving.
Free(d) == Ready /\ tx[d] \in {"idle", "read", "write"} /\ pending[d] = NullUid

\* What d reads: its own changes, or the committed rows.
View(d) == IF Writing(d) THEN work ELSE base

\* BeginIfNeededL(write) ... CommitIfNeededL around a change that turns d's view
\* into t.  In a transaction of the client the change stays uncommitted.
Change(d, t) ==
    /\ CanWrite(d)
    /\ work' = t
    /\ IF tx[d] = "idle"
         THEN base' = t /\ UNCHANGED tx
         ELSE tx' = [tx EXCEPT ![d] = "write"] /\ UNCHANGED base

-----------------------------------------------------------------------------
(* Names *)

\* SetFiltersL: "name like p".  A pattern that is one wildcard matches all names,
\* one with a postfix all names with that postfix.
Like(p, m) == \/ p = m
              \/ p.b \in Wild /\ p.n \in {0, m.n}

\* "name like b*"
LikePrefix(b, m) == m.b = b \/ Cut[m.b] = b \/ b \in Wild

\* Mutant: folders do not count.
RivalsMutant(t, folder, accept) ==
    {r \in t.rows : r.parent = folder /\ r.type = "item" /\ r.uid \notin Special \cup {accept}}

\* The rows of a folder whose names count: all but the accepted one and the
\* special items.
Rivals(t, folder, accept) ==
    {r \in t.rows : r.parent = folder /\ r.uid \notin Special \cup {accept}}

IsUniqueName(t, m, folder, accept) ==
    \A r \in Rivals(t, folder, accept) : ~Like(m, r.name)

\* GetPostfix: -1 unless the name is the prefix itself (0) or has a postfix to it.
GetPostfix(m, prefix) == IF m.b = prefix THEN m.n ELSE -1

\* MakeUniqueNameL: the first free postfix after the prefix (0: none at all), from
\* 1 when the prefix had to be cut.
MakeUniqueName(t, m, folder, accept) ==
    LET prefix == Cut[m.b]
        taken == {GetPostfix(r.name, prefix) :
                    r \in {q \in Rivals(t, folder, accept) : LikePrefix(prefix, q.name)}}
        first == IF prefix # m.b THEN 1 ELSE 0
        free == {p \in first .. (first + Cardinality(taken)) : p \notin taken}
    IN [b |-> prefix, n |-> CHOOSE p \in free : \A q \in free : p <= q]

\* The name an insertion or update writes; the set is empty where it leaves with
\* KErrAlreadyExists.  rename: "auto", "dont" or "suppress" (TRenameType).
NamesFor(t, m, folder, accept, rename) ==
    IF rename = "suppress" \/ IsUniqueName(t, m, folder, accept) THEN {m}
    ELSE IF rename = "auto" THEN {MakeUniqueName(t, m, folder, accept)}
    ELSE {}

-----------------------------------------------------------------------------
(* Changes to the rows *)

\* What DoAddL and UpdateCurrentL demand of the place an item goes to.
PlaceOk(t, type, parent) ==
    /\ type = "folder" => parent = Root
    /\ Folder(t, parent)

\* DoAddL: insert the row under the uid from the counter.
Added(t, item, m, fact, ro) ==
    [rows |-> t.rows \cup {[uid |-> t.next, parent |-> item.parent, type |-> item.type,
                            name |-> m, ro |-> ro, fact |-> fact]},
     next |-> t.next + 1]

\* UpdateLC ... PutL on one row.
Replaced(t, old, new) == [t EXCEPT !.rows = (@ \ {old}) \cup {new}]

\* DeleteCurrentL: the contents of a folder go one by one in uid order until a
\* read-only one stops it; the folder goes only when nothing stopped it.
Contents(t, r) == IF r.type = "folder" THEN {c \in t.rows : c.parent = r.uid} ELSE {}
Stops(t, r) == {c \in Contents(t, r) : c.ro}

\* Mutant: the contents of a folder stay.
DeletedMutant(t, r) == [t EXCEPT !.rows = @ \ {r}]

Deleted(t, r) ==
    IF Stops(t, r) = {}
      THEN [t EXCEPT !.rows = @ \ (Contents(t, r) \cup {r})]
      ELSE [t EXCEPT !.rows =
                @ \ {c \in Contents(t, r) : \A s \in Stops(t, r) : c.uid < s.uid}]

-----------------------------------------------------------------------------
(* Opening and closing *)

Init ==
    /\ base = NoDatabase /\ work = NoDatabase
    /\ tx = [d \in Dbs |-> "closed"]
    /\ pending = [d \in Dbs |-> NullUid]
    /\ files = {} /\ spared = {}
    /\ rfs = NoRestore

\* CreateDatabaseL: the root folder, and the imported rows unless the import left.
Created == {[rows |-> {RootRow}, next |-> 1],
            [rows |-> {RootRow} \cup Import, next |-> Cardinality(Import) + 1]}

\* EFavengOpenDatabase, ConstructL: create the database if there is none.
Open(d) ==
    /\ Ready /\ tx[d] = "closed"
    /\ IF base = NoDatabase
         THEN base' \in Created /\ work' = base'
         ELSE UNCHANGED <<base, work>>
    /\ tx' = [tx EXCEPT ![d] = "idle"]
    /\ UNCHANGED <<pending, files, rfs>>

\* What d's rollback leaves: the committed rows.  Whether the counter goes back
\* with them is the database server's business ("reuse": it may).
RolledBack(d) ==
    IF Writing(d)
      THEN {[base EXCEPT !.next = n] :
              n \in {work.next} \cup (IF "reuse" \in Events THEN {base.next} ELSE {})}
      ELSE {base}

\* Mutant: the cleanup goes before the rollback.
CleanedFilesMutant(d, t, whole, stuck) ==
    IF whole THEN files \cap (Uids(View(d)) \cup stuck) ELSE files

\* DeleteOrphanedFilesL on t: needs a read lock, and removes nothing unless one
\* RDir::Read returns the whole directory; what is stuck cannot be deleted.
CleanedFiles(d, t, whole, stuck) ==
    IF whole /\ CanRead(d) THEN files \cap (Uids(t) \cup stuck) ELSE files

\* EFavengClose of the database, and the end of a session with its open file first:
\* ~CFavouritesSrvDb rolls back, removes orphaned files, closes.
Close(d, whole, stuck) ==
    /\ Ready /\ tx[d] # "closed"
    /\ \E t \in RolledBack(d) :
         /\ base' = t
         /\ work' = IF Writing(d) THEN t ELSE work
         /\ files' = CleanedFiles(d, t, whole, stuck)
    /\ tx' = [tx EXCEPT ![d] = "closed"]
    /\ pending' = [pending EXCEPT ![d] = NullUid]
    /\ spared' = IF whole THEN stuck ELSE files
    /\ UNCHANGED rfs

\* "listing": there are more files than one RDir::Read returns.  "inuse": some are
\* open elsewhere.
CloseSome(d) ==
    \E whole \in {TRUE, "listing" \notin Events},
       stuck \in (IF "inuse" \in Events THEN SUBSET files ELSE {{}}) : Close(d, whole, stuck)

\* EFavengDeleteDatabase, DeleteDirL: refused while anybody has it open; the
\* directory of files is not touched.
DeleteDatabase ==
    /\ "delete" \in Events
    /\ Ready /\ base # NoDatabase
    /\ \A d \in Dbs : tx[d] = "closed"
    /\ base' = NoDatabase /\ work' = NoDatabase
    /\ UNCHANGED <<tx, pending, files, rfs>>

\* Power off: the database server recovers the committed rows, nothing is cleaned.
Crash ==
    /\ "crash" \in Events
    /\ tx' = [d \in Dbs |-> "closed"] /\ pending' = [d \in Dbs |-> NullUid]
    /\ work' = base /\ rfs' = NoRestore /\ spared' = files
    /\ UNCHANGED <<base, files>>

-----------------------------------------------------------------------------
(* Transactions of the client *)

\* Mutant: a transaction to write takes no lock to write.
BeginLMutant(d, write) ==
    /\ Free(d) /\ tx[d] = "idle" /\ CanRead(d)
    /\ tx' = [tx EXCEPT ![d] = IF write THEN "write" ELSE "read"]
    /\ UNCHANGED <<base, work, pending, files, rfs>>

BeginL(d, write) ==
    /\ Free(d) /\ tx[d] = "idle"
    /\ IF write THEN CanWrite(d) ELSE CanRead(d)
    /\ tx' = [tx EXCEPT ![d] = IF write THEN "write" ELSE "read"]
    /\ UNCHANGED <<base, work, pending, files, rfs>>

CommitL(d) ==
    /\ Free(d) /\ tx[d] \in {"read", "write"}
    /\ base' = View(d)
    /\ tx' = [tx EXCEPT ![d] = "idle"]
    /\ UNCHANGED <<work, pending, files, rfs>>

\* Also what a client does that left RestoreFactorySettingsL ("failed").
Rollback(d) ==
    /\ Ready /\ pending[d] = NullUid /\ Locking(d)
    /\ \E t \in RolledBack(d) :
         /\ base' = t
         /\ work' = IF Writing(d) THEN t ELSE work
    /\ tx' = [tx EXCEPT ![d] = "idle"]
    /\ UNCHANGED <<pending, files, rfs>>

-----------------------------------------------------------------------------
(* Requests that change rows *)

Item(type, parent, b, n) == [type |-> type, parent |-> parent, name |-> [b |-> b, n |-> n]]
Parents(t) == Uids(t) \cup {Root}

AddL(d, item, rename) ==
    LET t == View(d) IN
    /\ Free(d) /\ t.next <= MaxUid
    /\ PlaceOk(t, item.type, item.parent)
    /\ \E m \in NamesFor(t, item.name, item.parent, NullUid, rename) :
         Change(d, Added(t, item, m, FALSE, FALSE))
    /\ UNCHANGED <<pending, files, rfs>>

\* UpdateCurrentL on row r: type and read-only flag are kept, the factory flag goes.
Updated(t, r, item, m) ==
    Replaced(t, r, [r EXCEPT !.parent = item.parent, !.name = m, !.fact = FALSE])

Updatable(t, r, item) ==
    /\ r.type = item.type /\ ~r.ro
    /\ item.type = "folder" => item.parent = Root
    /\ r.parent = item.parent \/ Folder(t, item.parent)

UpdateL(d, r, item, rename) ==
    LET t == View(d) IN
    /\ Free(d) /\ r \in t.rows /\ r.uid \notin {Root} \cup Special
    /\ Updatable(t, r, item)
    /\ \E m \in NamesFor(t, item.name, item.parent, r.uid, rename) :
         Change(d, Updated(t, r, item, m))
    /\ UNCHANGED <<pending, files, rfs>>

\* SetHomepage, SetLastVisited: update the special item, or add one and give it
\* its fixed uid.
SetSpecialItemL(d, u, item) ==
    LET t == View(d) IN
    /\ Free(d) /\ item.parent = Root
    /\ IF u \in Uids(t)
         THEN \E r \in t.rows : /\ r.uid = u /\ Updatable(t, r, item)
                                /\ Change(d, Updated(t, r, item, item.name))
         ELSE /\ t.next <= MaxUid /\ PlaceOk(t, item.type, item.parent)
              /\ Change(d, LET new == Added(t, item, item.name, FALSE, FALSE)
                               r == CHOOSE q \in new.rows : q.uid = t.next
                           IN Replaced(new, r, [r EXCEPT !.uid = u]))
    /\ UNCHANGED <<pending, files, rfs>>

\* Mutant: the files of the deleted rows go at once.
DeleteLMutant(d, r) ==
    LET t == View(d) IN
    /\ Free(d) /\ r \in t.rows /\ r.uid \notin {Root, Home} /\ ~r.ro
    /\ tx[d] = "idle" => Stops(t, r) = {}
    /\ Change(d, Deleted(t, r))
    /\ files' = files \ (Uids(t) \ Uids(Deleted(t, r)))
    /\ UNCHANGED <<pending, rfs>>

\* DeleteL.  Without a transaction of the client a leave rolls everything back; in
\* one, what DeleteCurrentL deleted before it left stays deleted.  The associated
\* files are deleted under iPath, where there are none.
DeleteL(d, r) ==
    LET t == View(d) IN
    /\ Free(d) /\ r \in t.rows /\ r.uid \notin {Root, Home} /\ ~r.ro
    /\ tx[d] = "idle" => Stops(t, r) = {}
    /\ Deleted(t, r) # t
    /\ Change(d, Deleted(t, r))
    /\ UNCHANGED <<pending, files, rfs>>

\* No check of the row either flag is set on.
SetReadOnlyL(d, r) ==
    /\ "readonly" \in Events
    /\ Free(d) /\ r \in View(d).rows
    /\ Change(d, Replaced(View(d), r, [r EXCEPT !.ro = ~@]))
    /\ UNCHANGED <<pending, files, rfs>>

SetFactoryItemL(d, r) ==
    /\ "factory" \in Events
    /\ Free(d) /\ r \in View(d).rows
    /\ Change(d, Replaced(View(d), r, [r EXCEPT !.fact = ~@]))
    /\ UNCHANGED <<pending, files, rfs>>

-----------------------------------------------------------------------------
(* Files *)

\* EFavengFileOpen: FilenameL checks that the item is there.
FileOpen(d, u) ==
    /\ "files" \in Events
    /\ Free(d) /\ CanRead(d) /\ u \in Uids(View(d))
    /\ pending' = [pending EXCEPT ![d] = u]
    /\ UNCHANGED <<base, work, tx, files, rfs>>

\* EFavengFileOpenWrite: replaces the file under the name given out before.
FileOpenWrite(d) ==
    /\ Ready /\ pending[d] # NullUid
    /\ files' = files \cup {pending[d]}
    /\ pending' = [pending EXCEPT ![d] = NullUid]
    /\ UNCHANGED <<base, work, tx, rfs>>

FileDelete(d, u) ==
    /\ Free(d) /\ CanRead(d) /\ u \in Uids(View(d)) \cap files
    /\ files' = files \ {u}
    /\ UNCHANGED <<base, work, tx, pending, rfs>>

-----------------------------------------------------------------------------
(* Restore factory settings: one request, its rows one after the other *)

RefFolders == {r \in RefTable : r.type = "folder" /\ r.parent = Root}
RefItems == {r \in RefTable : r.type = "item"}
First(rows) == CHOOSE r \in rows : \A q \in rows : r.uid <= q.uid

\* Mutant: items go whether the user has modified them or not.
StrippedMutant(t) ==
    [t EXCEPT !.rows =
        {IF r.fact THEN [r EXCEPT !.fact = FALSE, !.ro = FALSE] ELSE r :
            r \in {q \in @ : q.type # "item"}}]

\* Step 2: unmodified factory items go, factory folders lose their flags.
Stripped(t) ==
    [t EXCEPT !.rows =
        {IF r.fact THEN [r EXCEPT !.fact = FALSE, !.ro = FALSE] ELSE r :
            r \in {q \in @ : ~(q.fact /\ q.type = "item")}}]

RestoreFactorySettingsL(d) ==
    /\ "restore" \in Events
    /\ Free(d) /\ tx[d] = "write"
    /\ work.next + Cardinality(RefTable) <= MaxUid + 1
    /\ work' = Stripped(work)
    /\ rfs' = [on |-> TRUE, db |-> d, folders |-> RefFolders, items |-> RefItems,
               map |-> [u \in {Root} |-> Root]]
    /\ UNCHANGED <<base, tx, pending, files>>

\* The existing folders of that name (the filter takes the name as a pattern).
Namesakes(f) == {r \in work.rows : /\ r.parent = Root /\ r.type = "folder"
                                   /\ Like(f.name, r.name)}

\* Step 3: a folder of the reference database takes over the first folder of its
\* name, or is added.  DoAddL is told not to rename: it leaves on a clash.
RestoreFolder ==
    /\ rfs.on /\ rfs.folders # {}
    /\ LET f == First(rfs.folders)
           mapped(u) == [rfs EXCEPT !.folders = @ \ {f},
                                    !.map = [v \in DOMAIN @ \cup {f.uid} |->
                                                IF v = f.uid THEN u ELSE @[v]]]
           addable == NamesFor(work, f.name, Root, NullUid, "dont") # {}
       IN \/ /\ Namesakes(f) # {}
             /\ LET r == First(Namesakes(f)) IN
                  /\ work' = Replaced(work, r, [r EXCEPT !.ro = f.ro, !.fact = f.fact])
                  /\ rfs' = mapped(r.uid)
             /\ UNCHANGED tx
          \/ /\ Namesakes(f) = {} /\ addable
             /\ work' = Added(work, f, f.name, f.fact, f.ro)
             /\ rfs' = mapped(work.next)
             /\ UNCHANGED tx
          \/ /\ Namesakes(f) = {} /\ ~addable
             /\ rfs' = NoRestore
             /\ tx' = [tx EXCEPT ![rfs.db] = "failed"]
             /\ UNCHANGED work
    /\ UNCHANGED <<base, pending, files>>

\* Mutant: the folder is not looked up.
NewParentMutant(p) == Root

\* uidMapper: where the contents of a folder of the reference database go.
NewParent(p) == IF p \in DOMAIN rfs.map THEN rfs.map[p] ELSE p

\* Step 4: an item of the reference database is added under its folder's new uid,
\* renamed if need be, and gets back its old uid if that is free.
RestoreItem ==
    /\ rfs.on /\ rfs.folders = {} /\ rfs.items # {}
    /\ LET i == First(rfs.items)
           item == [i EXCEPT !.parent = NewParent(@)]
       IN /\ PlaceOk(work, "item", item.parent)
          /\ \E m \in NamesFor(work, item.name, item.parent, NullUid, "auto") :
               LET new == Added(work, item, m, TRUE, i.ro)
                   r == CHOOSE q \in new.rows : q.uid = work.next /\ q \notin work.rows
               IN work' = IF i.uid \in Uids(new) THEN new
                          ELSE Replaced(new, r, [r EXCEPT !.uid = i.uid])
          /\ rfs' = [rfs EXCEPT !.items = @ \ {i}]
    /\ UNCHANGED tx
    /\ UNCHANGED <<base, pending, files>>

RestoreDone ==
    /\ rfs.on /\ rfs.folders = {} /\ rfs.items = {}
    /\ rfs' = NoRestore
    /\ UNCHANGED <<base, work, tx, pending, files>>

-----------------------------------------------------------------------------

Request(d) ==
    \/ Open(d) \/ CommitL(d) \/ Rollback(d)
    \/ \E write \in BOOLEAN : BeginL(d, write)
    \/ \E type \in Types, parent \in Parents(View(d)), b \in NewBases, n \in NewPostfix :
         \E item \in {Item(type, parent, b, n)} :
         \/ \E rename \in {"auto", "dont"} :
              \/ AddL(d, item, rename)
              \/ \E r \in View(d).rows : UpdateL(d, r, item, rename)
         \/ \E u \in Special : "special" \in Events /\ SetSpecialItemL(d, u, item)
    \/ \E r \in View(d).rows :
         \/ DeleteL(d, r)
         \/ r.uid \in FlagUids /\ (SetReadOnlyL(d, r) \/ SetFactoryItemL(d, r))
    \/ \E u \in Uids(View(d)) : FileOpen(d, u) \/ FileDelete(d, u)
    \/ FileOpenWrite(d)
    \/ RestoreFactorySettingsL(d)

Next ==
    \/ /\ (\E d \in Dbs : Request(d)) \/ RestoreFolder \/ RestoreItem \/ RestoreDone
          \/ DeleteDatabase
       /\ spared' = {}
    \/ \E d \in Dbs : CloseSome(d)
    \/ Crash

Spec == Init /\ [][Next]_vars

-----------------------------------------------------------------------------
(* What the two databases that the server is given are like: they came about through *)
(* the same requests, so their rows and names were checked when they were added.      *)

\* Every row but the root is in a folder, every folder in the root.
Tree(t) ==
    /\ Folder(t, Root)
    /\ \A r \in t.rows : \/ r.uid = Root
                         \/ /\ Folder(t, r.parent)
                            /\ r.type = "folder" => r.parent = Root

UidsUnique(t) == \A r, q \in t.rows : r.uid = q.uid => r = q

\* Names are unique within a folder, special items excepted.
NamesIn(t) ==
    \A r, q \in t.rows :
        r.parent = q.parent /\ r.name = q.name /\ r # q => {r.uid, q.uid} \cap Special # {}

\* The reference database: a row has at most the number of the insertions up to its
\* own, and no factory folder has a name that is a wildcard.
RefSound ==
    /\ UidsUnique([rows |-> RefTable])
    /\ \A f, g \in RefFolders : f.name = g.name => f = g
    /\ \A f \in RefFolders : f.uid >= 1 /\ f.name.b \notin Wild
    /\ \A i \in RefItems :
          i.uid \in 1 .. (Cardinality(RefFolders)
                            + Cardinality({j \in RefItems : j.uid <= i.uid}))

\* The rows that a new database is filled with.
ImportSound ==
    /\ Tree([rows |-> {RootRow} \cup Import]) /\ UidsUnique([rows |-> Import])
    /\ NamesIn([rows |-> Import])
    /\ \A r \in Import : r.uid \in 1 .. Cardinality(Import)

-----------------------------------------------------------------------------
(* Properties *)

DatabaseType == [rows : SUBSET {r \in [uid : Int, parent : Int, type : Types,
                                       name : Name \cup {NoName}, ro : BOOLEAN, fact : BOOLEAN] :
                                    r.name = NoName <=> r.uid = Root},
                 next : Nat]

(* Every variable has its type.                                                     *)
TypeOK ==
    /\ base \in DatabaseType /\ work \in DatabaseType
    /\ tx \in [Dbs -> {"closed", "idle", "read", "write", "failed"}]
    /\ pending \in [Dbs -> Int]
    /\ files \subseteq Int /\ spared \subseteq Int
    /\ rfs = NoRestore \/ (rfs.on /\ rfs.db \in Dbs /\ rfs.folders \subseteq RefFolders
                            /\ rfs.items \subseteq RefItems)

(* The bookmarks form a tree of depth two: every row but the root sits in a folder  *)
(* that exists, and folders sit in the root (DoAddL, UpdateCurrentL: "folder        *)
(* hierarchy is only one-level deep").  A uid names one row, although its index is   *)
(* not unique and rows are given explicit uids (SetSpecialItemL,                    *)
(* RestoreFactorySettingsL).  Holds for what is committed and for what a            *)
(* transaction works on, whatever requests fail half-way.                           *)
TreeSound ==
    /\ TypeOK
    /\ \A t \in {base, work} : t = NoDatabase \/ (Tree(t) /\ UidsUnique(t))

(* Names are unique within a folder, special items excepted, after any mix of       *)
(* additions, moves, automatic renames and restores.                                *)
NamesUnique == \A t \in {base, work} : NamesIn(t)

(* One writer at a time, nobody reads beside it, and without a writer there is      *)
(* nothing uncommitted (~CFavouritesSrvDb, StaticRollback): no change of a client   *)
(* that went away is left for the next one to commit.                               *)
WriterAlone ==
    /\ \A d, e \in Dbs : Writing(d) /\ d # e => ~Locking(e)
    /\ (\A d \in Dbs : ~Writing(d)) => work = base

(* The file of an item that stays in the database goes only when the client asks    *)
(* for it: not with a deletion that is rolled back (DeleteL, ~CFavouritesSrvDb) nor  *)
(* with the orphan cleanup of another handle.                                       *)
FilesKept ==
    [][\A u \in (files \ files') \cap Uids(base) \cap Uids(base') :
         \E d \in Dbs : FileDelete(d, u)]_vars

(* "Orphaned file cleanup will remove them eventually" (DeleteL): once every handle *)
(* is closed, the only files without an item are those that the last clean-up could  *)
(* not remove, since they were open or the directory was read in part, or those      *)
(* that a crash left.  Whatever was deleted, rolled back, or written for an item      *)
(* that another handle deleted, and although a handle that closes beside a writer     *)
(* cannot clean up.                                                                   *)
NoOrphanLeft ==
    base # NoDatabase /\ (\A d \in Dbs : tx[d] = "closed") => files \subseteq Uids(base) \cup spared

(* While a restore runs, the items the user made or edited stay as they are.        *)
UserItemsKept ==
    [][rfs'.on => {r \in work.rows : r.type = "item" /\ ~r.fact} \subseteq work'.rows]_vars

(* A restore that gets to its end has put back every item of the reference          *)
(* database, as an unmodified one, in the folder that took its folder's place.      *)
RestoreComplete ==
    rfs.on /\ rfs.folders = {} =>
        \A i \in RefItems \ rfs.items : \E r \in work.rows :
            /\ r.type = "item" /\ r.fact /\ r.parent = rfs.map[i.parent]
            /\ r.name.b \in {i.name.b, Cut[i.name.b]}

-----------------------------------------------------------------------------
(* Claims that do not hold *)

(* "In case of name conflicts, new names are generated" (RestoreFactorySettingsL):   *)
(* a restore is never refused.                                                      *)
RestoreNeverRefused == \A d \in Dbs : tx[d] # "failed"

(* "The generated name should really be unique" (the assertion that ends            *)
(* MakeUniqueNameL).                                                                *)
GeneratedUnique ==
    \A t \in {base, work} : \A r \in t.rows, b \in Bases :
        r.type = "folder" =>
            LET m == [b |-> b, n |-> 0] IN
            IsUniqueName(t, m, r.uid, NullUid)
                \/ IsUniqueName(t, MakeUniqueName(t, m, r.uid, NullUid), r.uid, NullUid)

(* The clean-up leaves no file without its item.                                    *)
AllOrphansGo ==
    base # NoDatabase /\ (\A d \in Dbs : tx[d] = "closed") => files \subseteq Uids(base)

(* A uid that is still to be given out has no file: a new item starts without one.  *)
NewItemsHaveNoFile == base # NoDatabase => \A u \in files : u < work.next

(* A deletion that fails deletes nothing (DeleteCurrentL: "keep the folder as       *)
(* well").                                                                          *)
DeleteIsAtomic ==
    \A d \in Dbs : tx[d] \in {"read", "write"} =>
        \A r \in View(d).rows : Stops(View(d), r) # {} /\ ~r.ro => Deleted(View(d), r) = View(d)
=============================================================================
