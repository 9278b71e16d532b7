# Verification of the Symbian web middleware

This directory holds TLA+ models of parts of the Symbian web middleware (`src/`),
the TLC configurations that check them and TLAPS proofs about them.

## 1. The system

The repository is the web middleware layer of the Symbian platform: the WebKit port
(`webengine/osswebengine`) with its own HTTP cache and memory manager, the browser
utilities around it (download manager, favourites, feeds, connection manager, scheme
handler, ...), content object delivery (`codhandler`) and the widget runtime
(`webengine/widget*`, `widgets`).  WebCore, JavaScriptCore, JavaScriptGlue, sqlite and
the expat and wbxml based parsers are third-party code in the tree.

All components are single-threaded C++ classes driven by an active scheduler: an
*active object* issues an asynchronous request, and its `RunL` is called by the
scheduler when the request completes.  There is no preemption between two `RunL`s of
one thread, but every request leaves a window in which any other handler may run.
Components in different processes talk through client/server sessions (download
manager, favourites, feeds, widget registry, COD) or through shared files (the HTTP
cache's `index.dat`).

### Inventory

| Part | State it keeps | Operations | Interacts with | Hard behaviour | What makes it correct |
|---|---|---|---|---|---|
| Postponed writer (`cache/src/HttpCacheFileWriteHandler.cpp`, `...StreamHandler.cpp`, `...PostponeWriteUtilities.cpp`) | queue of entry pointers, entry being flushed, timer, own request status; per entry: memory buffer, body file, flags | AddEntry, RemoveEntry, RemoveAll, Collect, BeginWriting, RunL, DumpAllObjects; helper's RunL; Flush, FlushAsync, SaveBodyData, NextChunkL | entries' delete observer, memory manager's collector, lookup table | entries deleted, read, rewritten while a write is pending; timers, low memory, disk full, shutdown | no dangling queue entries, no forgotten entry, one writer, the body served is the body received |
| Cache handler (`HttpCacheHandler.cpp`) | open transactions, content size, directory, observer | RequestL, ReceivedResponseHeadersL, ReceivedResponseBodyDataL, ResponseComplete, RequestClosed, RemoveL, RemoveAllL, SaveL, CacheNeedsSpaceL | all of the others | a transaction outlives its entry; space accounting across updates, evictions and merges | a transaction's entry is alive; content size is the sum of the bodies |
| Transactions (`WebCore/platform/network/symbian/HttpCacheSupply.cpp`, one per `HttpConnection`) | pointer to the entry it reads or fills, what was received, whether the answer was a 304 | StartRequestL, HeadersReceivedL, BodyReceivedL, ResponseCompleteL, supply of a hit by a timer, CloseRequest | cache handler, HTTP stack | several transactions of one URL, evictions and removals between two of their events, cancellation at any time | a hit is served, a body is that of one response, an entry in use is released |
| Lookup table (`HttpCacheLookupTable.cpp`) | open-addressing hash table of entries, count of entries | InsertL, Remove, RemoveAll, Find, Probe, ReHashL, InternalizeL, ExternalizeL, MergeL | handler, eviction handler, observer | tombstones, rehash at the load limit, merge of two indexes | a stored entry is found, and only an operation that means it takes it away |
| Eviction handler (`HttpCacheEvictionHandler.cpp`) | five buckets of entries | Insert, Accessed, Remove, EvictL | lookup table, write handler | eviction while entries are active or being written | every complete entry in one bucket, the right one; evicts enough or everything it may |
| Cache manager and observer (`HttpCacheManager.cpp`, `HttpCacheObserver.cpp`) | open handlers, marked files, crash markers; file-change notification | RequestL..., RemoveAllL, RemoveOrphanedFilesL, CrashCheckL; RunL, Queue | handlers, other processes | two processes share one cache directory | after a crash only consistent entries are kept |
| Memory manager (`osswebengine/MemoryManager`) | pools, stoppers, collectors, rescue buffer | Alloc, Free, Collect, PreCheck | every collector | out-of-memory while collecting | - |
| Connection manager (`browserutilities/connectionmanager`) | stage machine of one connection | SetConnectionL, StartConnectionL, AskIap, Stop, RunL | comms server, dialogs | user cancels, bearer changes, errors mid-stage | reports one outcome per request |
| Download (`browserutilities/downloadmgr/DownloadMgrServEng/Src/HttpDownload.cpp`, `HttpStorage.cpp`, `BuffStorage.cpp`, `HttpConnHandler.cpp`) | client state and progress state, transaction, connection, two buffers, content file and information file | StartL, PauseL, Reset, MoveL, the HTTP events, RunL, MediaRemoved, MediaInserted, loading after a restart | HTTP stack, connection, file system, memory card, sessions | pause and errors while a write is pending, nested scheduler, removed card, changed content, crash between a write and the saved information | the file is a beginning of one version; nothing goes on in a download that is not in progress |
| Download manager server and user interface (`browserutilities/downloadmgr/DownloadMgrClntSrv`, `DownloadMgrUiLib`) | sessions, event queues, downloads list | sub-session requests, events | downloads, clients | a client that dies or is slow | a client sees the states of its downloads in order |
| Favourites database (`browserutilities/favouritesengine/ClientServer/srvsrc/FavouritesSrvDb.cpp`, `...Table.cpp`, `...File.cpp`) | rows of folders and items with uid, parent, name and flags; the transaction of each handle; one file per item | AddL, UpdateL, DeleteL, SetSpecialItemL, BeginL, CommitL, Rollback, RestoreFactorySettingsL, file requests | sessions, the database server, the file server | transactions of several sessions, a deletion that fails half-way, crash between two requests, names that clash after shortening | one tree, unique names, files go with their items, a restore keeps what the user made |
| Favourites server (`.../FavouritesSrv.cpp`, `FavouritesSrvSession.cpp`, `FavouritesSrvDbNotifier.cpp`, `BackupObserver.cpp`, `Timeout.cpp`, `src/FavouritesSession.cpp`) | sessions, exit timer, backup observer, pending notify requests | Connect, NewSessionL, SessionClosed, Notify, NotifyCancel, RunL of timer, observer and notifier | clients, the kernel, the backup | two clients starting the server, a session that comes when the exit timer has expired, a request pending when its session ends | never stops under a client, leaves when unused, answers each request once |
| Feeds engine (`browserutilities/feedsengine`) | server, feeds, task pool, update timers | FetchFeed, Update, AutoUpdate | HTTP, database | cancellation of leased tasks | - |
| Widget registry, installer, engine, app | registry entries, installer's state machine | install, upgrade, restore, uninstall, launch | file system, registry server | installation interrupted between two states | registry and files agree |
| COD handler (`codhandler`) | download state machine, OMA DD handling | fetch, suspend, resume, notify | HTTP, DRM | resume after the network drops | - |

The HTTP cache is the part of the web engine that is the repository's own work, is not a
user interface and has the hardest ordering problems; it was modelled first.  The
favourites server and a download of the download manager come next: both are servers that
keep data of the user through crashes, in tens of small steps.  The other rows are the plan
for what comes after them.

### The HTTP cache and how its parts interact

`HttpConnection` (one per request of the browser) owns a `CHttpCacheSupply`, which asks
`CHttpCacheHandler` for a stored response, or reports the headers, the body parts and
the end of one that comes from the network.  The handler keeps one `CHttpCacheEntry` per
URL in the lookup table.  An entry is *responding* while it is filled, *requesting*
while it is read, *complete* otherwise, and *destroyed* when it was removed while in use.
Nobody counts who points to an entry: what a call does depends on that state alone.
Complete entries are linked into the buckets of the eviction handler; before data is
saved the handler compares the content size with the capacity and deletes what the
eviction handler chooses.  A body is collected in memory; at the end of the response it
is either written at once or queued in the postponed writer, an idle-priority active
object that writes one body at a time through a helper active object.  A failed
allocation anywhere in the process makes the memory manager call `Collect`, which writes
queued bodies synchronously.  A second process that uses the same directory rewrites
`index.dat`; the observer then makes the handler merge the two indexes.

### The favourites engine and how its parts interact

A client's `RFavouritesSession` starts the server process when there is none and opens
handles on databases in it.  Each handle has a `CFavouritesSrvDb` of its own in the server;
several of them share one database of the system's database server, which is what keeps
them apart: a transaction of one handle locks the others out, and they are refused at once.
A client may put several requests into one transaction; a request outside of one is
a transaction by itself.  Items may have a file, named by their uid, that the client reads
and replaces through the server.  A `CFavouritesSrvDbNotifier` keeps a client's request
until the database changes.  The server leaves ten seconds after its last session was
closed, or when a backup starts.

### A download and how its parts interact

`CHttpDownload` follows a client's requests (start, pause, reset, move) and drives an HTTP
transaction, a connection (`CHttpConnHandler`) and a content file (`CHttpStorage`).
`CBuffStorage` collects the content in two buffers and writes the full one
asynchronously while the other fills; if that one is full too before the write ends, the
handler waits in a nested scheduler, in which everything else goes on.  After every change
of its state the download saves an information file, from which the server makes the
downloads again when it starts; a resumed download asks for the rest with a `Range` request
and a condition on the version it has.

## 2. Modules

| Module | Models | EXTENDS / INSTANCE |
|---|---|---|
| `HttpCacheFileWriteHandler` | the postponed writer, the bodies in memory and on disk, the saved index, restart | |
| `HttpCacheFileWriteHandlerProofs` | theorems about it | extends it, `QueueLemmas` |
| `QueueLemmas` | lemmas on sequences without repetition, used for the writer's queue and the eviction lists | |
| `HttpCacheIndex` | abstract: the set of stored entries and what each operation of the cache does to it | |
| `HttpCacheLookupTable` | the hash table, its rehash, load and merge | `HttpCacheIndex` through the refinement mapping `IndexEntries` |
| `HttpCacheLookupTableProofs` | theorems about it, its refinement included | extends it |
| `HttpCacheEvictionHandler` | buckets, counts, choice of a victim, content size and capacity | |
| `HttpCacheEvictionHandlerProofs` | theorems about it | extends it, `QueueLemmas` |
| `HttpCacheSupply` | the transactions of one URL and the entries they share | |
| `HttpCacheSupplyProofs` | theorems about it | extends it |
| `FavouritesSrvDb` | the bookmark database: its rows, handles, transactions and item files, name generation, restoring the factory settings | |
| `FavouritesSrvDbProofs` | theorems about it | extends it |
| `FavouritesSrv` | the server process, its exit timer and backup observer, connecting clients, requests to be notified | |
| `FavouritesSrvProofs` | theorems about it | extends it |
| `HttpDownload` | one download: states, transaction, connection, buffers and files, card, restart | |
| `HttpDownloadProofs` | theorems about it | extends it |
| `MC...` | each component with its symmetry set and its reference data, for TLC | the component |

Every component takes a constant `Events`, the set of environment events that may happen
(`"disk"`, `"heap"`, `"crash"`, ...).  The events are switched by configuration because the
code does not survive all of them: a run states a property with exactly the events under
which the code keeps it.

One thread runs everything, so an action is one call from the HTTP framework or one
`RunL`, with everything it does.  Where one call loops (rehash, load, merge, eviction)
the rounds of the loop are steps, under a program counter that lets nothing else happen
in between.

### HttpCacheFileWriteHandler

`queue`, `flushing`, `wh`, `timer` are `iObjectQueue`, `iObjectFlushing`, `iStatus` and
`iWaitTimer` of the writer; `writer`, `part`, `werr` are the active helper, its
`iBodyPart` and its status.  `entry` holds for every entry its state, body in memory, body
file, the response its headers are from (`hdr`) and the flags `BodyFileDeleteNeeded`
(`delNeeded`), partially written (`partial`) and "reports its deletion to the writer"
(`obs`).  `mode` is `"up"`, `"closed"`, or names how the process came to grief: `"freed"` (a
deleted entry is used), `"bounds"` (an array is indexed past its end), `"hang"` (`Cancel`
waits for ever).  Those three are ends of a behaviour, which is why these runs do not
check for deadlock.

| Action | Code |
|---|---|
| `NewResponse`, `UpdatedResponse`, `ReceivedResponseBodyDataL` | headers of a new or an already stored URL; a part of the body, stored in memory or, without memory, in the file |
| `ResponsePostponed`, `SortReadsFreed` | `ResponseComplete` and `AddEntry` with its insertion by size |
| `ResponseWritten`, `SaveL` | the synchronous flush |
| `RequestL`, `RequestClosed`, `RemoveL`, `Evict`, `RemoveAllL`, `QueueWalkFreed`, `CancelHangs` | use, removal, eviction, clearing |
| `ObserverRunL` | the part of a merge that concerns the writer: an entry is dropped |
| `Collect`, `CollectOutOfRange` | `CollectMemory` |
| `TimerRunL`, `HelperRunL`, `RunL` | the three active objects |
| `Shutdown`, `Restart` | destructor with `DumpAllObjects`; opening of the cache, after a crash too |

Abstractions: an element of `Entry` is an object, its URL and its file; a body is a
sequence of blocks tagged with the response they came from, and a block is one buffer
segment.  A block is written whole or not at all; `lost` records that the write of one
of an entry's blocks has failed.  A body that `SaveBodyData` puts into the file at once stays
in the buffer as far as it was there, so that a later flush writes that part alone.  A file
that another handle has open
cannot be opened or replaced, as `EFileShareExclusive` demands.  An eviction that
`SaveBuffer` starts is an `Evict` step before it.  `Shutdown` happens when no transaction
is open.  With `"reuse"` an address may be given out again while the writer still holds it.

### HttpCacheLookupTable

`slot`, `size`, `count` are the array, its length and `iCount`; `hash` is any function from
URLs to numbers, chosen initially (the string hash itself does not matter to any
property), and so is `fold`, the form of a URL without case: entries are compared without
case (`CompareF`), while `HashUrl` looks at it, so that two URLs that are taken for the same may
have different probe sequences, and one may meet the entry of the other.  Probing is quadratic, `(hash + c^2) mod size` for `c` up to half the size.
`obj` holds the entries with their URL, state and where their body is, `held` the entries
transactions point to, `disk` the URLs with a body file.  An entry whose response had no body
is stored, but `Find` hides it.  `InsertL` is `Start`, then `Place`
or `NoSlot`, and `ReHashL` is `RehashMove` for one slot after another, then `RehashDone`;
`MergeL` is `MergeDrop`, `MergeDropped`, `MergeAdopt`, `MergeDone`; loading is `Reload`,
`LoadEntry`, `LoadDone`.  An allocation that fails in `ReHashL` ends the behaviour
(`"dangling"`: the entry is deleted but stored; `"noslots"`: the table is left without
slots).

### HttpCacheEvictionHandler

`bucket`, `content`, `clock` are the five lists, `iContentSize` and the home time; `ent`
holds size, headers, count, last access, membership (`cand`) of every entry.  `job` is the
save in progress and `need`, `evicted` the variables of `EvictL`'s loop.  `RefModulus` and
`Word` are the widths of the count and of the product `DeltaT * Size / Ref`.
`CacheNeedsSpaceL` is `SaveBuffer`, `EvictL` per victim, and `Saved`, `NotSaved`,
`BodyNotSaved` or `SavesFreed`.  `SaveL` makes the same calls as a new response with its
body and end, `RemoveAllL` those of repeated removals.  `Restart` inserts the entries in any
order, as the hash table decides it.  `MergeL` sets the content size to that of another
index, anything up to the capacity, and takes over the later access of one entry.

### HttpCacheSupply

One URL.  `conn` holds the connections: phase, pointer to the entry (`ptr`), parts
received, whether a conditional request was sent, whether the answer was a 304, whether
the cache was already told of the end (`closed`).  `tab` are the entries in the table and
`first` the one the lookup meets first; there is more than one only after an entry was
complete without a body, which the history variable `emptied` remembers: a response without one
(`"empty"`), or a 304 whose entry went while it was on its way, for which the handler inserts a
new entry like for any other response (`HeadersInsert`).  With `"leave"` headers are left in
the middle, after the entry was set to responding and before the connection gets its pointer
(`HeadersLeave`).  A body records which connection delivered each part.
Requests for other URLs appear as evictions, with `"evict"` at any time, else between two
connections.  An address a connection still points to is
not given out again: using such a pointer ends the behaviour anyway.  What headers say
about caching and freshness is a choice (`HeadersIgnored`, the conditional request).
`ERequestComplete` never comes in from the HTTP stack, so a connection closes its supply
when it ends or is cancelled.  Pausing the supply only delays its timer.

### FavouritesSrvDb

`base` are the committed rows with the counter of the database, `work` the rows as the
handle with the write lock sees them, `tx` the transaction of every handle, `files` the
uids that have a file, `spared` those that the clean-up which has just ended could not remove, `pending` the item a handle has been given the file name of, and
`rfs` the progress of a restore.  A name is a base and the number of its `(nn)` postfix,
`Cut` shortens a base so that a postfix fits, and a base in `Wild` matches every name when
used as a pattern.

| Action | Code |
|---|---|
| `Open`, `Close`, `DeleteDatabase` | `ConstructL` with the first filling of a new database; the destructor with its rollback and the removal of orphaned files, which does nothing when the directory is not read whole at once (`"listing"`) or another handle writes, and skips files that are open (`"inuse"`); `DeleteDirL` |
| `BeginL`, `CommitL`, `Rollback` | a client's transaction |
| `AddL`, `UpdateL`, `SetSpecialItemL`, `DeleteL`, `SetReadOnlyL`, `SetFactoryItemL` | the requests on items, in the client's transaction or, through `Change`, in one of their own |
| `FileOpen`, `FileOpenWrite`, `FileDelete` | the requests on an item's file |
| `RestoreFactorySettingsL`, `RestoreFolder`, `RestoreItem`, `RestoreDone` | the four steps of the restore; steps 3 and 4 take one row of the reference database after another |
| `Crash` | the process ends; the database server recovers what was committed |

A request that is refused before it writes changes nothing and is no action.  One that is
refused after it has written is: its own transaction is rolled back, a client's is left as
it is (`DeleteL` at a read-only item; a restore that fails leaves `tx = "failed"`).

### FavouritesSrv

Each client may start one process, so processes are named by clients.  `pc` is where a
client is in `Connect` (first attempt, start, rendezvous with the process, second attempt,
waiting for the server); `proc`, `timer`, `observer`, `sessions` are a process with its
active objects; `notifier` and `answers` are a client's notifier and how often its last
request was completed.  The name of the server admits one process; another that is
launched meanwhile ends with `KErrAlreadyExists`.

### HttpDownload

`dl` is the object with its files: client state and progress state, whether its active object
has a step to do, transaction, stage of the connection and whether its handler is
kept (`held`), buffers and the write in flight, content file, information file and, after a crash, the file alone (`mode`).
Blocks of the content carry the version they come from; `version` is what the web server
has.  A `Range` request is answered with the rest, the whole, `304`, `412` or `416`, as
the request's conditions and the version make the web server do.  The condition is made from
the headers kept (`SetRequestHeaderL`): with `"unvalidated"` they may have nothing that
tells versions apart, neither an ETag nor a date that does, and the request is then made on no
condition at all.  `off` are the attributes that the client has turned off:
`DisconnectOnPause`, `DisconnectOnReset` and `AutoConnect`.

| Action | Code |
|---|---|
| `StartL`, `Pause`, `Reset`, `MoveL` | the client's requests |
| `RunL`, `MoveDone` | the download's own steps: connect, request the content, the end of a move |
| `ConnectL` | the client names a connection to be used, without `AutoConnect` |
| `LinkUp`, `ConnectionFailed`, `LinkBlocked`, `LinkDown` | the connection |
| `FullContent`, `PartialContent`, `NotModified`, `PreconditionFailed` | the response's headers |
| `ResponseBodyReceivedL`, `Succeeded`, `Completed`, `TransactionFailed`, `TransactionClosed` | body and end of the transaction |
| `WriteDone` | the end of an asynchronous write |
| `CardChanges`, `MMCModeChanged` | the card and what the observer reports of it |
| `ContentChanges`, `Crash`, `Restart` | a new version on the web server; the end of the process and the next start |

Handlers are functions from a download to the set of downloads they may leave, so that a
handler that calls another is their composition, and writes that fail branch.

A handler that waits for a write of body data or at the end of a download runs a nested
scheduler.  `Served` is when the others are served: at any time, unless the writer itself
is about to return to the handler that waits.  So a client may start the download again while
it completes, move it, name a connection; the link comes up or is suspended; the card goes
and comes back; the process dies.  A request that would close the file meanwhile meets the
same `CActiveSchedulerWait`, whose second `Start` panics (`Reenter`).  Limits: what waits
inside a pause, a reset, an error or a removed card is one step, and while a handler waits the
transaction brings nothing (the HTTP stack delivers to one callback at a time).

## 3. Runs

| Run | Shows | Bounds and why they are enough |
|---|---|---|
| `wh_core` | `BodyIntact`: what a hit on a stored entry would be served is the body that came with its headers, whole, from memory, from the file, during and after its write, unless a block of it was lost. `ReaderUndisturbed`: a hit in progress keeps its entry and its body. Both are also proved, for writes that succeed (section 5). `Drained`: a queued body leaves the queue, under fairness of the three active objects, also when the write of a block fails; not when a write cannot be started (section 7). | 268 014 states. 2 entries, 3 responses, bodies of 2 blocks, writes that fail at any block: one entry being written while another is queued, comes or goes, a block before and after any event; one more response, so that an address and a URL are used again. `MCwh_three.cfg` is the larger instance, without liveness: three entries, and the cache emptied, merged, and addresses given out again; it takes longer than a regular check. |
| `wh_faults` | `QueueLinked`, `NeverForgotten`, `SingleWriter` and the type with every event: also proved for all bounds (section 5). | 712 876 states. 2 entries, 2 responses, one reserved slot, so that the queue's `AppendL` can fail. |
| `lt_core` | `IndexSpec`: through probing, tombstones, rehashing and reloading the table is the set of entries that the operations of the cache ask for: none is lost, taken or changed by an operation that is about another. `Findable`, `Counted`. | 400 108 states. 3 URLs, of which some may be alike without case, 3 objects, 4 slots and 2 hash values: collisions between different URLs and between those that are alike, tombstones in the probe path, rehashing; responses without a body, so that a URL has two entries. |
| `lt_faults` | `Findable` survives failing allocations and merges as well. | 1 047 764 states. 2 URLs and 3 objects: one more than URLs, for the duplicate. |
| `ev_core` | `Linked`, `Accounted`, `WithinSize`, `TargetAlive`, and `RoomFound`: what is refused for want of space could not have been made room for, short of the cases it names | 1 779 868 states. 3 entries of up to 6 bytes in 12: the third does not fit; counts and clock reach 2 and 1, enough for an entry to change its bucket and for ages to differ. |
| `ev_faults` | `WithinSize` with files that cannot be created, headers added by the browser, a clock that is set back, allocations that fail in an eviction and merged indexes. Without `"restart"`: a merge loses track of the content, and what a restart counts afresh may exceed the capacity. | 1 741 094 states. 2 entries in 7 bytes, of which one fits, so that every save evicts. |
| `tx_serial` | `TableSound`, `BodyWhole`, `HitServed`, `NotModifiedServed` when connections for a URL follow each other, with evictions, removals, responses without a body, saves that fail and headers left in the middle between any two of their events | 6 662 states. 2 connections, 3 parts: a hit is interrupted before, within and after its body; 3 objects, for an entry that was evicted under a connection, the one without a body that its 304 makes, and the next. |
| `tx_shared` | `Released`, `InUseKept` with three connections at once, with evictions, removals and saves that fail | 1 521 325 states. 3 connections, 3 objects, 1 part: two in the middle of something, and a third that comes or goes. |
| `fv_tree` | `TreeSound`, `NamesUnique`, `RestoreComplete`, `UserItemsKept`: a tree with unique names in every committed and uncommitted state, through restores that end, that fail at a name and that crash half-way | 96 526 states. 1 handle, 3 uids above the special ones: a folder with an item and one more row that takes its name; a reference database with a folder and an item in it. |
| `fv_files` | `NamesUnique`, `WriterAlone`, `NoOrphanLeft`, `FilesKept` with two handles, crashes, files that are in use and directories that are not read whole | 443 093 states. 2 handles, 2 uids, a short name and a long one that is shortened to it when it gets a postfix. |
| `fs_core` | `ExitScheduled`, `OneAnswer`, `StopsUnused`, and under fairness `ConnectReturns` and `ServerLeaves` | 14 142 states. 2 clients, that is 2 processes, each connecting twice, so that a second `Connect` meets the server the first one left; one publication of the backup's property. |
| `dm_core` | `FileIsPrefix`, `SizeIsFile`, `QuietUnlessInProgress` with every event the code survives, for a client that leaves the connecting and disconnecting to the download and for one that has turned off one of them | 2 098 620 states. 5 blocks in two buffers of 2: both fill, and the last write is a part of one; 2 versions, 3 starts: paused or lost twice, resumed with the content unchanged and changed. |

`ev_core` and `ev_faults` keep the code's 16-bit count; `Word` is 2^30, larger than any
product these bounds reach, so no overflow happens in them.  Deadlock is checked except
where a behaviour really ends: in the modes named above, or when the bounded responses
(`MaxGen`), objects or the clock are used up.  `FavouritesSrv` has a step `Done` for the
clients that have used up their connections; a server that stays is still seen, by
`ServerLeaves`.

The events the runs leave out are those of section 7.  `wh_core` has failing writes alone:
with a full disk, no memory, an update, a shutdown or a crash a body may be lost, and
clearing, merges and addresses given out again are in `MCwh_three.cfg`; `wh_faults` has all
of them.
`ev_core` leaves out what disturbs the accounts or the order of the buckets, which is
in `ev_faults`.  `tx_serial` takes every event but `"share"`; `tx_shared` leaves out
`"empty"`, since its properties end where an entry without a body comes to be, and `"leave"`.
`dm_core` takes every event but `"writefail"`, `"absent"` and `"unvalidated"`; `fv_tree` and
`fv_files` have no name with a wildcard, and a reference database numbered as its rows would
be if they were added to an empty database (`MCRef`), so that the counter is behind none of
them.

Fairness in `wh_core` is weak fairness of `TimerRunL`, `HelperRunL` and `RunL` and of
nothing else: the active scheduler keeps calling the `RunL` of an object whose request has completed, timers
expire and file writes complete.  Weak fairness of the timer is right although a response
restarts it: only finitely many responses happen.  Nothing is assumed of the user or of the
network.  In `fs_core` a client goes on inside `Connect`, and a process runs, with
weak fairness of each of its active objects: those of the server, in one thread without
priorities between them, are neglected by no scheduler that is not starved, and none of them
keeps itself ready.  Nothing is assumed of a client that has a session: it may keep it for
ever, and `ServerLeaves` is about those that do not.

The refinement mapping of `IndexSpec` is the set of entries that are stored, each with its
URL, whether it is in use and whether it has a body, wherever it is: in the table, in the
old table that a rehash is emptying, among the entries of the index that is being read,
or in the hands of an insertion that has not placed it yet.  So a rehash that lost an entry
or an insertion that gave it up would be a step `HttpCacheIndex` does not have.

Every property has a mutant: a change of one operation, as a slip in the code would make
it, that TLC shows to break the property under the same configuration.  The mutants stand
before the definition they change (`...Mutant`).

## 4. What the properties rest on

* `BodyIntact` and `ReaderUndisturbed` need that a body is removed from memory only after
  its write ended and that an entry being written is neither evicted nor rewritten.  They
  hold without updates and restarts, and of errors survive those that `lost` records: the
  writer learns the result of the last block alone, so an entry a block of which was not
  written may stay, and is not served whole; one of a body
  that is not in memory as a whole, since there was no room for a block or since the dump at a
  shutdown comes just after its write, empties the file; an update without a body leaves the
  new headers with the old body; after a crash the index may be older than the files.
* `Findable` needs that the probe goes on behind tombstones and that insertion takes the
  first free or deleted slot; `Counted` bounds the load, which makes an insertion succeed.
  `IndexSpec` needs in addition that a rehash moves every entry and that an erasure meets
  an entry of the URL it is for, if not always the one that is meant.
* `Linked` needs that size and count of a linked entry change only through operations that
  move it: `SetBodySize`, `Accessed`, and removal before an update.  `RoomFound` needs that
  the loop goes on until enough is evicted or no bucket has an entry that may go; it excepts
  what the code does not find: entries behind one in use, and room that is exactly enough.
* `TreeSound` needs that a folder goes with its items or stays with the rest of them, that
  the place of an addition or move is tested, and that the counter is not behind a uid in
  use after a rollback (with `"reuse"` it goes back with the rows).  It fails when the
  reference database has uids the counter has not reached (section 7).
* `NamesUnique` needs that the search for a free postfix looks at all the rows whose name
  can clash, folders and names that are shortened too; `WriterAlone` that a transaction to
  write takes the exclusive lock and that leaving rolls back.
* `FilesKept` holds because `DeleteL` deletes files where there are none: under `iPath`,
  while they are under `iSavedFilePath`; if it deleted them, a rollback would not bring
  them back.  So files go with the clean-up at the closing of a handle, and
  `NoOrphanLeft` needs that it looks at the rows after the rollback and takes whatever it
  may.  What it cannot delete, or does not see because the directory is not read whole at
  once, is `spared` until the next one, and so is what is there at a crash.
* `OneAnswer` needs that a notifier completes its message when it is deleted, and
  `StopsUnused` that a new session cancels a timer that has already expired.
* `FileIsPrefix` needs that the write position follows the file whenever it is reopened,
  that the buffers are emptied or flushed on every way out of a transaction, and that an
  answer of another version begins a new file.  The last rests on the web server: it can
  tell a changed content only from the condition of the request, hence from an `ETag` or a
  date among the headers kept (`"unvalidated"` is not in the run).
  `QuietUnlessInProgress` needs that each of those ways cancels the transaction and the
  download's own next step, and gives up the connection unless the client has turned that
  off for a pause or for a reset, in which case a download that is paused, reset or has
  failed may keep it.
* `Released` needs that every path that ends a connection reports to the cache, and that
  the lookup by URL finds the entry the connection means; `InUseKept` that evictions and
  removals look at the state of the entry, and that nobody without a pointer to it deletes by
  URL.
* `HitServed` needs that an eviction and the clearing of the cache spare an entry in use, and
  that a removal only marks it; `NotModifiedServed` that the entry which a 304 completes is
  the one that is then asked for.  Both hold while connections follow each other.

## 5. Proofs

`HttpCacheFileWriteHandlerProofs` proves, for every set of entries, every bound, every
threshold and every set of events, that

| Theorem | States |
|---|---|
| `TypeCorrect` | `Spec => []TypeOK` |
| `QueueIsLinked` | `Spec => []QueueLinked` |
| `NothingForgotten` | `Spec => []NeverForgotten` |
| `OneWriter` | `Spec => []SingleWriter` |

and, if no write fails, there are no errors of the disk or the heap, no updates of stored
entries, no shutdowns and no crashes (`Calm`),

| Theorem | States |
|---|---|
| `BodiesIntact` | `Spec => []BodyIntact` |
| `ReadersUndisturbed` | `Spec => ReaderUndisturbed` |

None of them is inductive alone.  The invariant of the first four is

    IInv == TypeOK /\ QueueLinked /\ NeverForgotten /\ SingleWriter

`QueueLinked` needs `SingleWriter` when the writer's `RunL` takes the flushed entry off the
queue; `SingleWriter` needs `QueueLinked` to know that the entry a new write starts with is
alive; `NeverForgotten` needs both when an entry leaves the queue, because the writer may
become idle only if nothing is left or the timer was started.  TLC checks the four
together in `wh_faults`.

The argument: `InitLemma`; one lemma per action (`NewResponseLemma` ... `RestartLemma`),
combined in `NextLemma`; `Inductive` by PTL.  Below them, the lemmas of `QueueLemmas` and
others on sequences without repetition (`RemoveAtLemma`, `DropLemma`, `PrependLemma`, `SortedLemma`,
`UncollectedLemma`: what the operations on the queue leave in it), and on the operators the
actions share (`EraseLemma` on deleting an entry, `FlushLemma`, `SaveLemma`,
`SettledLemma`).

What is served has a second invariant on top of it,

    Served == AllSound /\ QueuedInMemory /\ PartWritten /\ mode # "closed"

`AllSound` says where the body of each entry is: in the buffer while `BodyDataCached` is
set, in the file otherwise.  `QueuedInMemory` is why `FlushL`, which replaces the file even
if there is nothing in memory to put there, destroys no body when memory is collected:
whatever is queued is in memory, except the entry whose write has just ended and which `RunL`
has yet to unlink, and that is the one `Collect` leaves alone.  `PartWritten` says that
the open file has the first `iBodyPart` blocks, so that it has the whole body when
the helper drops the buffer.  Since no write fails, no block is lost.  `ServedNext` proves of each step that it keeps the invariant
and that it leaves entry, headers and size of a hit in progress (`ReaderKept`), from which
both theorems follow: a sound entry serves its whole body (`SoundIntact`).  An entry that is
deleted while it is being written stays in the queue, and its address may be given out again
before `RunL` looks at it; the new entry may then be taken off the queue or deleted in its
place, which `RunLServed` shows to touch no body and no hit.  Each part of `Calm` is needed:
with any one of these events alone TLC finds a state that violates `BodyIntact`, in the
configuration of `MCwh_three.cfg` with that event instead of its own; section 7 has two of
them.

Assumptions of both: `NoneAssumption` (the null pointer is no entry and no body),
`BoundAssumption` (the bounds are natural numbers), `EventAssumption`; TLC evaluates them
on every run of the module.

`HttpCacheLookupTableProofs` proves about the hash table, for every hash function, every
number of slots and entries and, where nothing else is said, every set of events,

| Theorem | States | Premises |
|---|---|---|
| `TableTheorem` | `Spec => []TableInv` | |
| `TypesTheorem` | `Spec => []TypeOK` | |
| `FindableTheorem` | `Spec => []Findable` | |
| `CountedTheorem` | `Spec => []Counted` | |
| `IndexTheorem` | `Spec => IndexSpec` | `~MemErrors`, `~Merges` |

`TableInv` says for each state, those between the rounds of a rehash, a load or a merge
included, that an entry is in one slot (`Inj`), that the entries that wait to be placed
are none of those in the table (`Apart`), that all of them are alive (`Alive`), that each
lies on the probe sequence of its URL with no free slot before it (`Reach`), and that
`iCount` is what is stored and at most half of the slots (`CountSum`).  The heart is that an
insertion never fails to find a slot: `ReHashL` ignores the result of the insertions it
makes, so an entry that found none would silently be lost.  `SlotFound` proves that it
cannot happen: the number of slots `NextPrime` gives is prime, a prime divides no product of
two smaller numbers (`PrimeProduct`, by descent on the least such number), so the
probes `0 .. size \div 2` for one URL are all different (`ProbesDiffer`), and there are
more of them than used slots.  It is where the quadratic step, the prime and the bound of
a half meet; a test with few collisions never gets there.  The first table has 217 slots,
which is no prime: there `InsertL` may find no slot, and does not store the entry
(`NoSlot`), which the theorems cover.

The refinement rests on a second invariant, `LiveInv`: every object that is alive is in the
set of entries the mapping gives, and an insertion that has rehashed has a prime table
before it (`retried`), so that it finds a slot.  It is inductive only with `TableInv`, and it
is what makes losing an entry visible: nothing that is alive may be outside the set.  There
is one lemma per action; each maps to the one operation of `HttpCacheIndex` it is for
(`InsertLMapped` to `Insert`, `DeleteCacheEntryMapped` to `Abandon`, ...), the rounds of a rehash or a load
to a stutter (`RehashMapped`, `LoadMapped`), because the mapping reads what is still to be
moved as well.  Responses without a body and URLs that are alike without case need no premise:
`HttpCacheIndex` says that they may give a URL a second entry, and that an erasure by URL then takes
one of its namesakes.  The premises are needed: an allocation that fails in `ReHashL` leaves an
entry both stored and deleted, and a merge takes entries away and brings some
(`MClt_claims.cfg`); neither is an operation that the cache asked for.
Assumptions: `SlotAssumption` (the null pointer and the tombstone are no entry
and no URL, and differ), `SizeAssumption`.

`HttpCacheEvictionHandlerProofs` proves about the space of the cache, for every set of
entries, every capacity, every size and every set of events,

| Theorem | States | Premises |
|---|---|---|
| `AccountedTheorem` | `Spec => []Accounted` | `~Merges`, `~CreateErrors` |
| `BalanceTheorem` | `Spec => [](Total <= content)` | `~Merges` |
| `WithinSizeTheorem` | `Spec => []WithinSize` | `~(Merges /\ Restarts)` |
| `TargetAliveTheorem` | `Spec => []TargetAlive` | `~AddsHeaders` |
| `LinkedTheorem` | `Spec => []Linked` | `~Merges`, `~MemErrors`, `MaxRef < RefModulus` |

Each has an invariant of its own on top of

    Orderly == Types /\ Blank /\ Prepared /\ Fits

(an entry that is free occupies nothing; a save has dropped the old headers; a save that
need not evict any more fits).  `Balanced` says how a step moves `iContentSize` against the
sum of what the entries occupy: together, or towards the safe side when a body file could
not be created.  It rests on the lemmas about that sum (`TotalSplit`, `TotalUpdate`,
`TotalWithout`), which is defined as the cardinality of a set of bytes, so that it can be
reasoned about without recursion.  `Spared` says that what `EvictL` takes is complete while
what is saved is responding.  `Chained == Lists /\ Counts /\ Candidates /\ NoGrowth` says that the
lists are exactly where the fields of the entries say they are; it needs that a candidate
does not grow (`NoGrowth`), because its bucket depends on its size.

The premises are the cases in which the code does not keep the property: a merge takes
over the content size of another index (`Accounted`, `WithinSize` after the next opening)
and the access count of an entry without moving it (`Linked`); a body that cannot be
created has been counted (`Accounted`, but not `BalanceTheorem`); headers added to a
complete entry may evict that very entry (`TargetAlive`); `EvictL` without memory loses an
entry it has unlinked (`Linked`).  `MCev_claims.cfg` shows most of them.  Assumptions: `EntryAssumption` (finitely many entries), `RangeAssumption`.

`HttpCacheSupplyProofs` proves about the transactions of one URL, for every set of
connections and addresses, every number of body parts and, where nothing else is said, every
set of events,

| Theorem | States | Premises |
|---|---|---|
| `TableIsSound` | `Spec => []TableSound` | |
| `EntriesReleased` | `Spec => []Released` | `~Leaves` |
| `UseIsKept` | `Spec => InUseKept` | `~Leaves` |
| `BodiesWhole` | `Spec => []BodyWhole` | `~Shares` |
| `HitsServed` | `Spec => []HitServed` | `~Shares` |
| `NotModifiedIsServed` | `Spec => []NotModifiedServed` | `~Shares` |

The first follows from

    Sound == StoreOK /\ ConnOK /\ mode \in {"run", "freed"}

where `StoreOK` is `TableSound` with the types of the table.  It is inductive: what may
look doubtful is that `DeleteCacheEntry` deletes what the URL leads to, not the entry it
was called for, and that the pointers of the connections may dangle; `FirstLive` and
`PtrLive` say that the entry an action changes is alive.

`Released` is not inductive.  An entry that becomes complete without a body is hidden from
`Find`; the next response inserts a second entry for the URL, and `DeleteCacheEntry` may
then delete one while the other stays in use for ever (`AllReleased` in
`MCtx_claims.cfg`).  Such an entry may come to be in any run with evictions, from a 304
that comes too late, so the property itself ends there (`emptied`), and

    Held == BodyFirst /\ OneEntry /\ NoneYet /\ AllReleased

is inductive until then: an entry has a body before it is complete (`BodyFirst`), so none is
hidden and there is one at most (`OneEntry`), so deleting by URL leaves nothing in use;
`NoneYet` says that a connection has no entry before its headers came.  It needs that an
address is not given out again while a connection still points to it, as `Unused` has it: the
model ends where such a pointer is used.  The premise `~Leaves` is needed: headers left in
the middle leave an entry in use that no connection points to.  The argument is one lemma per
action for each invariant, on top of lemmas on what the table operations leave (`EraseSound`,
`InsertSound`, `DeleteLeavesNone`, `CompletedHeld`) and on a step of one connection
(`OthersRelease`, `SameStore`).  `UseIsKept` follows from the same invariant, action by
action: whatever an action finds by URL is the one entry there is, and if that one is in use by
others, the action leaves it or is refused.

The last three are about connections that follow each other (`~Shares`), while entries are
evicted, removed and left in the middle at any point, saves fail and responses have no body.
Their invariant is

    Serial == Alone /\ NoneYet /\ (\A t \in Trans : Follows(t)) /\ BodyWhole

`Alone` says that one connection is open at most; `Follows` what it may rely on: a hit
finds its entry in state requesting, or destroyed if it was removed; after an accepted 304 the
entry is gone, or is complete and the one the lookup finds, or has no body; and an entry
that is being filled has exactly the parts received so far (`Filled`), or still the old
body that the first part will replace.  `BodyWhole` follows from `Filled` when the response
completes.  There is one lemma per action, those of evictions and removals included, which
come between any two events of the connection.  With connections that share the entry each
of the three is refuted in section 7.
Assumptions: `NullAssumption`, `ChunkAssumption`.

`FavouritesSrvProofs` proves about the server process, for every set of clients, every
number of connections a client makes and every set of events,

| Theorem | States |
|---|---|
| `ExitIsScheduled` | `Spec => []ExitScheduled` |
| `AnsweredOnce` | `Spec => []OneAnswer` |
| `NotStoppedInUse` | `Spec => StopsUnused` |

from the invariant

    IInv == VarTypes /\ OneServer /\ Scheduled /\ StartAwaited /\ OneAnswer

`Scheduled` is what `ExitScheduled` says of the timer.  To be preserved when a client
connects it needs `OneServer`: the process that gets the session is the one that has the
server's name, and no other one has sessions whose timer that session should stop.
`OneAnswer` says that only a client that is in a session is served, so it needs
`StartAwaited`: the client of a process that is still being started waits at the
rendezvous, and the end of the start, which moves that client on, takes nobody out of a
session.  There is one lemma per action.  Assumption: `SrvConstants`.

`FavouritesSrvDbProofs` proves about the bookmark database, for every number of handles,
every set of names, every import and reference database and every set of events,

| Theorem | States |
|---|---|
| `WriterIsAlone` | `Spec => []WriterAlone` |
| `FilesStay` | `Spec => FilesKept` |
| `NoOrphans` | `Spec => []NoOrphanLeft` |
| `TreeIsSound` | `Spec => []TreeSound`, if `RefSound` and `ImportSound` |
| `NamesAreUnique` | `Spec => []NamesUnique`, if `RefSound` and `ImportSound` |
| `RestoreIsComplete` | `Spec => []RestoreComplete`, if `RefSound` and `ImportSound` |
| `UserItemsStay` | `Spec => UserItemsKept`, if `RefSound` and `ImportSound` |

The first three are about the handles and follow from the invariant

    Locks == TxType /\ RestoreWrites /\ WriterAlone

`RestoreWrites` (a restore runs in a transaction of its client that writes) is needed
because the steps of a restore change rows without asking for the lock.  None of it depends
on what the rows are, so the operators that compute rows stay folded: `RowRequests` and
`RestoreSteps` reduce the requests on rows and the steps of a restore to what they do to the
locks and the files, and `Steps` restates `Next` in those terms.  `FilesStay` follows from
the only two actions that remove files, `Close` and `FileDelete`.  `NoOrphans` needs
`PendingOpen`, that only an open handle still has a file to write, and that the handle
which is closed last can read and hence gets to its clean-up (`CloseCleans`); what that one
does not see or cannot delete is `spared`, and so is what a crash leaves.

The other four are about the rows.  Their invariant is

    RowsOk == (NoneYet \/ BothDb) /\ (rfs = NoRestore \/ Restoring) /\ ...

`BothDb` says `Db` of `base` and of `work`, and that the counter of `work` is not behind.
`Db(t)` is `Tree(t) /\ UidsUnique(t)` with two facts that make them inductive: the root
alone has no name, and `Numbered(t)`, every row has a uid below the counter and there are no
more rows than the counter has counted.  The first part of `Numbered` is why a uid from the
counter is new (`NextIsNew`); it is delicate because rows are also given explicit uids and
because a rollback may or may not take the counter back (`CounterDb`).  The second is for the restore: step 4 writes
back the old uid of a reference item when that uid is free, and only a count of the rows
shows that the counter has passed it, so that it is not given out again.  So `Restoring`
counts: at least one row for the root, for every reference folder (`FoldersCounted`: they
stand under different names) and for every item put back so far (`InOrder`, `ItemCounted`).
`Mapped` and `Back` say of each folder and item already treated where its row is; that they
survive the next step needs that a step of the restore disturbs no other row
(`Undisturbed`), which is `UserItemsStay` as well.

There is one lemma per request on what it makes of a table (`InsertKeeps`, `ReplaceKeeps`,
`DeletedKeeps`, `StrippedKeeps`, `FlagKeeps`: `Keeps` is that `Db` stays and the names stay
unique), on top of `AddDb`, `ReplaceDb`, `RemoveDb` for any table; then one per action on
`RowsOk`.  For the names, `MadeName` shows that the name `MakeUniqueName` generates is taken
by no rival: of one more postfixes than are taken one is free, the least of them exists
(`LeastNumber`), and a base that is cut is cut no further.  The property holds for names
with wildcards too, of which the runs have none: they make a request fail or match too
much, but add no second row of a name.

The premises are about the two databases the server is given, which were made through the
same requests.  `ImportSound`: the rows a new database is filled with are a tree with unique
names, numbered `1 .. n`, as insertions into an empty table number them.  `RefSound`: a row
of the reference database has at most the number of the insertions up to its own, which is so
after any additions to an empty database, and no reference folder has a wildcard for a name.
TLC evaluates both for the databases of the runs (`MCSound`).  The first premise on numbers is
needed: the row of section 7 about `MCRefFar` violates it, and `TreeSound` with it.
Assumption: `DbConstants`.

`HttpDownloadProofs` proves about a download, for a content, buffers and versions of any
size, any number of starts and every set of events,

| Theorem | States | Premises |
|---|---|---|
| `QuietTheorem` | `Spec => []QuietUnlessInProgress` | |
| `SizeTheorem` | `Spec => []SizeIsFile` | `~Absent` |
| `PrefixTheorem` | `Spec => []FileIsPrefix` | `~Absent`, `~WriteFails`, `~Unvalidated` |

from one invariant,

    Inv == Safe(dl) /\ EnvTypes
    Safe(r) == r \in Download /\ Flow(r) /\ Disk(r) /\ (Mem(r) /\ Sync(r), while it runs)

None of the three properties is inductive.  `Flow` relates the states: which progress states
belong to a download in progress (`Pairs`), that one which is not in progress and waits for
nothing is `Idle`, keeping its connection only where the client wants it (`Keeps`), and that a
step which is pending finds no file open and no transaction, unless it was made pending while
a handler waits with the completed file (`wait`).  `Mem` is about
content: the size is that of the file (`Fit`), and file, block in flight and buffer in this
order are a beginning of the version whose headers are kept (`Kept`).  `Sync` says that the
transaction continues exactly there (`Matching`), and that the information file names the
same version (`Noted`).  `Disk` is what survives a crash: the information file never
counts more than the file has, so that cutting the file to it after a removed card
leaves a beginning, and it is about the version in the file.  It must be preserved by each write, because a
crash is possible between any two of them.

The proof has one lemma per action on top of lemmas about the parts that handlers share.
`CloseEffect` says what closing may append: what is in flight, then what is buffered, or
only the latter when a write fails, which is where `WriteFails` hurts `FileIsPrefix` but
not `SizeIsFile`.  `OnErrorEffect` and `PauseEffect` say that both leave a download
`Halted`, `HaltedSafe` that this is safe; `ProgressSafe` and its like treat the status
changes.  What is served while a handler waits has cases of its own (`Waits`,
`LateStartSafe`, `ReStartSafe`): a download that is started again while it completes.  For a
restart, `Restored` describes what is loaded before the size is compared with the
file.  The premises are the three rows of section 7 about `FileIsPrefix`; the one without
the card refutes `SizeIsFile` too.  `QuietTheorem` has none: what attributes the client has
turned off is a part of the property.  Assumption: `DownloadConstants`.

Model-checked only, because liveness under fairness is beyond the prover: `Drained`,
`ConnectReturns` and `ServerLeaves`; and `RoomFound`, whose proof would have to follow the
loop of `EvictL` through the values of all candidates.  Every other property of the runs
is a theorem, `BodyIntact` and `ReaderUndisturbed` for writes that succeed.

## 6. What the runs do not promise

The runs state what the code keeps, under the events it survives.  A property that is
listed with fewer events in one run than its module has is one the code does not keep under
the others; every such case met while modelling is in section 7, with the comment,
assertion or declaration it contradicts, and nothing else was left out to make a run pass.
The heaviest of them are, for the cache, an entry that is deleted while its body is
written (`NoUseAfterFree`) and a body served in part because another connection completed
it (`BodyWhole`); for the favourites, a restore that fails for ever because a user's item
has a folder's name (`RestoreNeverRefused`); for downloads, a file with a hole after a
write failed (`FileIsPrefix`).

## 7. Claims of the code that the models refute

Each module has a configuration `MC.._claims.cfg` for whoever changes the code.  It gives the
constants and one claim; the other claims stand below it as comments, each with the constants
that differ.  TLC finds a violation of each, with the shortest way there.  They are kept
apart from the runs, all of which pass; a claim that holds after a change moves to its run.

| Configuration | Claim | Constants changed | What happens |
|---|---|---|---|
| `MCwh_claims.cfg` | `NoUseAfterFree` |  | An entry deleted while its body is being written leaves a pointer in the queue and in iObjectFlushing, which RunL follows. RemoveEntry does nothing for the entry that is being flushed, and its caller deletes it; RunL then reads the deleted entry. HttpCacheFileWriteHandler.cpp:322 says "the object will be removed from the list when it's done writing out, so we don't need to worry about it". The run finds the shortest way there. |
| `MCwh_claims.cfg` | `CancelReturns` | `Events = {"clear"}` | Clearing the cache while a write is in flight cancels an active object whose DoCancel does not complete the request. RemoveAll calls Cancel(), "stop us if we're active" (HttpCacheFileWriteHandler.cpp:369); DoCancel (430-438) is empty, so Cancel waits for a completion that only the helper's RunL, which cannot run while this thread waits, would deliver. The run reaches that wait. |
| `MCwh_claims.cfg` | `CollectInRange` |  | The loop that frees memory may index the queue at its end. CollectMemory skips the entry being flushed by looking at the next one without testing that there is one, so a queue that holds only that entry is indexed out of range, which panics. HttpCacheFileWriteHandler.h:67 says "Collect free memory, this function is called when" an allocation fails, which may be at any such moment. |
| `MCwh_claims.cfg` | `QueuedNotActive` | `Events = {"clear"}` | An entry may be read while it is queued for writing. HttpCacheHandler.cpp:757 says "by definition, all entries in the postpone handler aren't active."; RequestL (222-319) moves a queued entry to ECacheRequesting and HandleResponseOkL moves one to ECacheResponding without taking it off the queue, so RemoveAllL drops queued entries that are active. |
| `MCwh_claims.cfg` | `DumpedToDisk` | `Events = {"shutdown"}` | The dump at shutdown of a body whose asynchronous write has just ended. DumpAllObjects is to write everything "to disk *now* and wait for it" (HttpCacheFileWriteHandler.h:131); the helper has dropped the buffer, but the RunL that would unlink the entry has not run yet, so the synchronous flush replaces the complete file by an empty one. |
| `MCwh_claims.cfg` | `BodyIntact` | `Events = {"heap"}` | A body part of which had no memory is truncated by the flush that follows. When AppendL finds no memory SaveBodyData appends the part to the file directly, and FlushL later replaces the file with the parts in memory only; ResponseComplete then says "We successfully saved (flushed) body" (HttpCacheHandler.cpp:731) of an entry whose file is shorter than iBodySize. |
| `MCwh_claims.cfg` | `UpdatedBodyIntact` | `Events = {"update"}` | A stored entry is updated while its old body is still being written. AddEntry handles "pre-existing objects with updated content" (HttpCacheFileWriteHandler.cpp:264) by removing and reinserting them, but when the old body's write is in flight the new parts and the old ones end up in one file. |
| `MCwh_claims.cfg` | `CompleteIndexed` |  | The index that is saved while a response is coming in. HttpCacheLookupTable.cpp:437 and 448 say "save complete entries only"; the condition that follows is about the size of the body only, and an entry in state ECacheResponding that has received a part of its body is written to index.dat. |
| `MCwh_claims.cfg` | `Drained` | `SPECIFICATION FairSpec, Events = {"disk"}` | A write that cannot start because the disk is full. FlushAsync (HttpCacheStreamHandler.cpp:485-527) returns without completing the request when there is no disk space or the file cannot be created, so RunL, whose branch "write failed.  Clean up this entry." (HttpCacheFileWriteHandler.cpp:483) waits for that completion, never runs again and nothing queued is ever written. |
| `MCwh_claims.cfg` | `FailedRemoved` | `Events = {"write"}` | A block in the middle of a body is not written. RunL is to clean up the entry: "write failed.  Clean up this entry." (HttpCacheFileWriteHandler.cpp:483); the helper goes on with the next block after an error and reports the result of the last one, so that the entry stays, with a body that lacks a block. |
| `MClt_claims.cfg` | `OneEntryPerUrl` |  | Two entries for one URL after a response without a body. ReceivedResponseHeadersL inserts when Find answers NULL, "check if the entry is already in the cache" (HttpCacheHandler.cpp:496); Find answers NULL for a complete entry without a body although it is in the table, so a second entry of the same URL is inserted behind or before it. |
| `MClt_claims.cfg` | `EraseIntended` |  | DeleteCacheEntry deletes another entry of the same URL. DeleteCacheEntry is to "remove from the lookuptable" the stray entry it is given (HttpCacheHandler.cpp:1369), but passes only its URL on; with two entries for that URL the one Probe meets first is erased. |
| `MClt_claims.cfg` | `SlotsAlive` | `Events = {"heap"}` | An allocation fails after the entry was stored. InsertL keeps the entry on the cleanup stack until "lookuptable takes ownership" (HttpCacheLookupTable.cpp:148), after InsertL( entry ) has stored it and InitialiseCacheEntryL or ReHashL may leave: the entry is deleted and its slot keeps the pointer. |
| `MClt_claims.cfg` | `HeldAlive` | `Events = {"merge"}` | A merge erases an entry a transaction is filling. MergeL keeps an entry that "may not be on disk yet due to postpone operation." (HttpCacheLookupTable.cpp:844) only if its body is cached in memory; an entry whose response has just begun has neither a file nor a buffer, is erased, and the transaction's pointer dangles. |
| `MClt_claims.cfg` | `LeftoversOnly` | `Events = {"merge"}` | A merge deletes the body file of the entry it adopts. MergeL inserts an entry of the new index through InsertL( url ), whose InitialiseCacheEntryL deletes "files left over with no index entry" (HttpCacheStreamHandler.cpp:129): the file of the adopted entry, which MergeL has just found on disk. |
| `MCev_claims.cfg` | `Linked` | `Events = {"merge"}` | A merge changes the count of an entry without moving it between buckets. CHttpCacheEntry::Accessed( aLastAccessed, aRef ), called by MergeL only, sets the count first; the eviction handler then looks for the entry only in the bucket that a count increased by one gives, so the entry ends up in the wrong bucket or in two; the destructor, which is to "Clean up eviction handler" (HttpCacheEntry.cpp:113), then leaves a link to a deleted entry. |
| `MCev_claims.cfg` | `CandidatesLinked` | `Size = 7, Events = {"heap"}` | An allocation fails in EvictL. EvictL unlinks the entry from its bucket before evictedEntries->AppendL, which may leave; iEvictionCandidate, "Etrue if added to the eviction table" (HttpCacheEntry.h:401), stays set although the entry is in no bucket and can never be evicted. |
| `MCev_claims.cfg` | `LruOrder` |  | The order of a bucket and the order of the last accesses. HttpCacheEvictionHandler.cpp:148 says "Buckets are orderd by LRU"; an entry is appended when its response is complete, and its time of last access is that of its headers, so an entry that took long to arrive stands behind others that were used later. |
| `MCev_claims.cfg` | `BucketsAsListed` |  | The bucket of an entry and the ratio ConstructL lists. HttpCacheEvictionHandler.cpp:80-84 lists the buckets as "size/nref = 1 to 1", "2 to 3", "4 to 7", "8 to 15" and "> 15"; Insert passes BucketIndex the logarithm of size/nref, so that for example a ratio of 4 is in the second bucket. |
| `MCev_claims.cfg` | `LargestGoes` | `Entry = {e1, e2, e3}, Size = 11, ProtectedRef = 2, Word = 16, MaxRef = 2, MaxTime = 2` | The eviction value computed in 32 bits. EvictL is to choose "the object with largest ( DeltaT * Size / Ref )" (HttpCacheEvictionHandler.cpp:330); the product is computed in 32 bits, wraps, and a smaller entry, or none, is chosen. The run scales the word to 6 bits. |
| `MCev_claims.cfg` | `RefPositive` | `RefModulus = 4, MaxRef = 4` | The 16-bit count of accesses. iRef is a TUint16 that every access increments; after 65535 it is 0, and Insert, Remove and EvictL divide by it. HttpCacheEvictionHandler.cpp:226 notes "entry with 0 starting refcount??? doh." in the one place that guards against it. The run scales the modulus down. |
| `MCev_claims.cfg` | `GivesUpOnlyIfNone` | `Entry = {e1, e2, e3}, Size = 10` | An entry in use at the head of its bucket. EvictL looks only at the first entry of each bucket; with one in use there, those behind it are never considered, and CacheNeedsSpaceL concludes "interesting...nobody can be evicted..." (HttpCacheHandler.cpp:1070) although entries that are not in use could go. |
| `MCev_claims.cfg` | `EnoughMeansFits` | `ChunkLen = {4, 5}, Size = 6, MaxBody = 5` | An eviction that makes exactly the room that is needed. HttpCacheHandler.cpp:1065 says "ok = ETrue if there is enough space"; the test that follows is strict, while the one that started the eviction accepts a cache that is exactly full, so evicting exactly enough deletes the entries and still refuses the data. |
| `MCev_claims.cfg` | `TargetAlive` | `HeaderLen = {1, 2}, Size = 10, Events = {"header"}` | AddHeaderL saves headers of an entry that its own save evicts. AddHeaderL is to "save new headers" (HttpCacheHandler.cpp:888) of an entry that stays in state ECacheComplete meanwhile; SaveBuffer may evict that very entry and then writes into it. |
| `MCev_claims.cfg` | `Accounted` | `Events = {"create"}` | A body file that cannot be created. Erase is to "Adjust the size" (HttpCacheStreamHandler.cpp:158) by the sizes of the entry, but CreateNewBodyFile has set the body size to 0 before it failed: iContentSize keeps counting a body that is gone, for as long as the cache is open. |
| `MCev_claims.cfg` | `Accounted` | `Events = {"merge"}` | The content size after a merge. InternalizeL is to "set startup cache size" (HttpCacheLookupTable.cpp:404), but also runs for the temporary table of every merge: iContentSize becomes that of the other process's index although the entries of this process are still there. |
| `MCtx_claims.cfg` | `NoUseAfterFree` | `Chunks = 1, Events = {"evict"}` | The entry of a completed response is evicted before its connection is closed. After ResponseComplete the entry may be evicted or removed at any time, but the transaction's THttpCacheEntry still points to it, and RequestClosed, in what it calls the "normal close on the request - when the content is saved to the cache" (HttpCacheHandler.cpp:410), reads the state of the deleted entry. |
| `MCtx_claims.cfg` | `HitServed` | `Chunks = 1` | Two connections at one entry, one of which closes. RequestClosed, "normal close on a request - when the content is loaded from the cache" (HttpCacheHandler.cpp:391), resets any entry in state ECacheRequesting; a connection whose entry was validated by a 304 closes and ends the hit of another one, whose RequestHeadersL or RequestNextChunkL then fails. |
| `MCtx_claims.cfg` | `BodyWhole` |  | A connection that was answered with a 304 completes the response that another connection is still receiving. ResponseComplete acts on the state of the entry alone. A connection whose 304 validated the entry still points to it when another connection's 200 moves it to ECacheResponding; the first one's ResponseComplete then makes the entry ECacheComplete, with the comment "We successfully saved (flushed) body" (HttpCacheHandler.cpp:731), although only a part of the new body has been received, and later hits are served that part. |
| `MCtx_claims.cfg` | `NotModifiedServed` | `Chunks = 1` | A 304 arrives while another response fills the entry. ResponseCompleteL, "not modified needs body before response complete" (HttpCacheSupply.cpp:186), asks the cache for the body; if another connection has moved the entry to ECacheResponding the request fails, and the connection, whose status was changed to 200, ends without a body. |
| `MCtx_claims.cfg` | `AllReleased` | `Chunks = 1, Events = {"share", "empty"}` | An entry that no connection will release. RequestClosed is to "remove uncompleted/destroyed entry" (HttpCacheHandler.cpp:400) but deletes by URL; with an older entry without a body in the table that one is deleted instead, and the uncompleted one stays in state ECacheResponding for ever: it can be neither used, nor replaced, nor evicted. |
| `MCtx_claims.cfg` | `Released` | `Chunks = 1, Events = {"leave"}` | Headers are left in the middle. ReceivedResponseHeadersL sets the entry to ECacheResponding (HttpCacheHandler.cpp:564) before the calls that may leave, and is to "save handler and entry" for the connection only after them (588); the entry then stays in state ECacheResponding, and the connection that is closed knows nothing of it. |
| `MCtx_claims.cfg` | `AcceptedServed` | `Chunks = 1, Events = {"evict"}` | A 304 for an entry that was evicted while the answer was on its way. ReceivedResponseHeadersL, "create new cache item" (HttpCacheHandler.cpp:527), inserts an entry without a body for it and accepts the headers; ResponseCompleteL, "not modified needs body before response complete" (HttpCacheSupply.cpp:186), then asks for a body that is not there, and the connection ends without one. |
| `MCfv_claims.cfg` | `RestoreNeverRefused` |  | Restoring a reference folder whose name a user's item has. "In case of name conflicts, new names are generated" (FavouritesSrvDb.h:326); step 3 adds a missing folder with EDontRename, so that an item of that name makes RestoreFactorySettingsL leave with KErrAlreadyExists, every time it is called. |
| `MCfv_claims.cfg` | `GeneratedUnique` | `Bases = {"a", "w"}, Wild = {"w"}, NewBases = {"a", "w"}, MaxUid = 2, Events = {}` | A name with the wildcard characters of the query language. IsUniqueNameL and MakeUniqueNameL use the name as a pattern of "like": the generated name can match another row (a debug build's last assertion, "The generated name should really be unique", then fails), and a unique name can be refused. |
| `MCfv_claims.cfg` | `AllOrphansGo` | `MaxUid = 2, Events = {"files", "listing"}` | A directory that is not read whole at once. "Orphaned file cleanup will remove them eventually." (FavouritesSrvDb.cpp:456); DeleteOrphanedFilesL reads the directory once and leaves, trapped by its caller, unless that read all of it (937), and then removes nothing: with so many files the clean-up never removes any. |
| `MCfv_claims.cfg` | `NewItemsHaveNoFile` | `MaxUid = 2, Events = {"files", "delete"}` | A database is deleted and created again. DeleteDirL deletes the database file and leaves the items' files; the uids of the new database start again, and a new item finds the file of an old one with its uid. "Orphaned file cleanup will remove them eventually." (FavouritesSrvDb.cpp:456) does not: it keeps the files whose uid is in use. |
| `MCfv_claims.cfg` | `DeleteIsAtomic` | `FlagUids = {3}, Events = {"readonly"}` | A folder with a read-only item is deleted inside a client's transaction. DeleteCurrentL means to "keep the folder as well" (FavouritesSrvDb.cpp:1116); it leaves at the first read-only item, after it has deleted the items before it. In the client's own transaction nothing rolls them back, their rows are gone when the client commits, and their files stay. |
| `MCfv_claims.cfg` | `TreeSound` | `RefTable <- MCRefFar` | A reference item gets a uid the counter has not reached. Step 4 of the restore writes back the uid of a reference item when it is free; the database's counter, which may have started afresh, will give that uid out a second time. |
| `MCfs_claims.cfg` | `ConnectSucceeds` |  | The server exits between the two attempts of Connect. The second DoConnect is to "Deal with race conditions." (FavouritesSession.cpp:57): the server that Start found already running may be about to exit, and the connection then fails with KErrNotFound or KErrServerTerminated although nothing is wrong. |
| `MCfs_claims.cfg` | `BackupStopsServer` | `SPECIFICATION FairSpec, MaxPublish = 1` | A backup that begins while the server starts, or the second one. "Backup is in progress, stopping server" (BackupObserver.cpp:81): CreateServer tests for a backup before it subscribes, and RunL does not subscribe again, so that a backup that begins in between, or after one event, leaves the server running with its files open. |
| `MCdm_claims.cfg` | `CompletedIsPersisted` |  | The completed event and the last write. A comment (HttpDownload.cpp:6406) says that the completed event is fired only when the last chunk is persisted; OnCompletedL sets the status and triggers the event before iStorage->OnComplete (4325) flushes the buffers. |
| `MCdm_claims.cfg` | `RunLExpected` | `Events = {"suspend"}` | The link is suspended while the download's next step is pending. RunL is to "Keep progress states consistent with SetDownloadStatus()" (HttpDownload.cpp:3754) and panics in a state it does not know; Suspended (3873) sets such a state while the object's next step is pending. |
| `MCdm_claims.cfg` | `InProgressGoesOn` | `Events = {"efailed"}` | The transaction ends with EFailed and nothing else. MHFRunL closes the transaction on EFailed (3663-3674) and does no more; the download stays in progress without anything that could end it, while DownloadSucceededL and the error events do. |
| `MCdm_claims.cfg` | `CardComesBack` | `Events = {"media"}` | The card of an unnamed download returns. MediaRemoved and MediaInserted compare drive ids; that of a download without a destination file and that of a removed card are the same error code, so that it is marked when the card goes, and not released when the card is back under its own id. |
| `MCdm_claims.cfg` | `CanBeMoved` | `Events = {"move"}` | A move that is refused. MoveL sets iMoveInProgress (820) before it refuses an uncompleted download with "KErrNotReady" (HttpDownload.h:137), and nothing resets it: every later move returns at once, without an error and without moving anything. |
| `MCdm_claims.cfg` | `MoveGoesOn` | `Events = {"move", "crash"}` | The process dies while the file is moved. The progress state that is loaded says that it is being moved, and MoveL leaves with KErrInUse (HttpDownload.cpp:832-835), which is to mean that a move is under way; none is, nothing starts one, and every later move is refused. |
| `MCdm_claims.cfg` | `FileIsPrefix` | `Events = {"writefail"}` | An asynchronous write fails. DoBufferingWriteL leaves with the error of the write before, and clears it (346-352); OnError then closes the file and FlushBuffersL writes the next buffer behind what was written, without the part that failed. |
| `MCdm_claims.cfg` | `FileIsPrefix` | `MaxStarts = 3, Events = {"media", "crash", "absent"}` | The server restarts while the card is out. CheckContentFileIntegrityL cannot look at the file, so that the size in the information file, saved some writes ago or some writes too early, is kept; the content that a 206 answer brings is appended at the wrong place. |
| `MCdm_claims.cfg` | `FileIsPrefix` | `MaxVersion = 2, Events = {"unvalidated"}` | A resumed request without a condition that tells the versions apart. "ETag identifies the content. Set If-Match to see that if it's changed" (HttpDownload.cpp:4924); with neither an ETag nor a date among the headers kept there is no condition, and with an Expires date, which SetExpireToFieldL prefers to that of Last-Modified (5219-5236), one that is about something else. The web server then answers 206 with the rest of another version, which is appended. |

## 8. Not modelled

* Values of HTTP headers, dates and URLs (`HttpCacheUtil.cpp`): what they decide is a choice
  of the model.
* `HttpCacheManager.cpp` forwards calls to one of two cache handlers; the handlers share no
  state.
* `HttpCacheObserver.cpp`: when the merge happens is left open, which covers it.
* Protected entries (operator domains) except for their starting count.
* The bytes of the segmented buffer, of the header files and of `index.dat`.
* Favourites: preferred order, modification times, access points, user and browser data,
  the visibility of folders, streams of file contents, the incremental recovery and
  compaction of a damaged database.  What keeps a file from being deleted in a clean-up, and
  a directory from being read whole, is a choice of the model.
* Downloads: descriptors and multi-part content objects, DRM, redirection, authentication,
  `HEAD` requests, a transaction taken over from a client, progressive playback,
  the attributes but those that switch the connection (`off`); the requests of a client and
  the events of the transaction while a pause, a reset, an error or a removed card waits for
  the writer; the sessions of the server, which pass on what the model takes at any time.
* The components of the inventory without a module; `PROJECT.json` lists them with reasons.

## 9. Plan

1. Done: the postponed writer, the lookup table with its refinement, the eviction handler,
   the transactions, the favourites database and server, a download; the proofs of every
   safety property of their runs.
2. `CSegmentedHeapBuffer::AppendL`: the growth of the buffer, and what is left after a
   failed allocation, against concatenation as the reference.
3. The connection manager's stages; the widget installer with its rollback against the
   widget registry; content objects with suspension and resumption; the feeds server's
   leased tasks.
