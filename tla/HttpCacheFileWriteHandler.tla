--------------------- MODULE HttpCacheFileWriteHandler ---------------------
(***************************************************************************)
(* The store of the HTTP cache and its postponed writer.                   *)
(*                                                                         *)
(* The web engine keeps a response body in memory while it is received,    *)
(* then CHttpCacheFileWriteHandler (an idle-priority active object) writes *)
(* the queued bodies to disk one after the other, each with a helper       *)
(* active object that writes block by block.  Requests, evictions, memory  *)
(* collection, index saves and shutdown come in between.  Everything runs  *)
(* in one thread under an active scheduler: each action below is one RunL  *)
(* or one call from the HTTP framework, in any order.                      *)
(*                                                                         *)
(* An element of Entry is a CHttpCacheEntry object together with its URL   *)
(* and its body file.  A freed object may be allocated again for the same  *)
(* URL.  A body is a sequence of blocks, each tagged with the number of    *)
(* the response it came from; a block is one segment of the buffer.        *)
(***************************************************************************)
EXTENDS Integers, Sequences, FiniteSets, SequencesExt

CONSTANTS
  Entry,                    \* cache entries (URLs)
  None,                     \* the null pointer, an absent file or record
  MaxBody,                  \* bound: blocks in one response body
  MaxGen,                   \* bound: responses received
  QueueReserve,             \* slots iObjectQueue.ReserveL sets aside (32)
  ImmediateWriteThreshold,  \* iImmediateWriteThreshold, 0 = off
  Events                    \* which of the events below may happen

ASSUME NoneAssumption == None \notin Entry /\ None \notin Seq(Nat)
ASSUME BoundAssumption ==
  /\ MaxBody \in Nat /\ MaxGen \in Nat
  /\ QueueReserve \in Nat /\ ImmediateWriteThreshold \in Nat
ASSUME EventAssumption ==
  Events \subseteq {"disk", "write", "heap", "update", "clear", "shutdown", "crash", "shared", "reuse"}

DiskErrors == "disk" \in Events   \* disk space may be short, a file not be created
WriteErrors == "write" \in Events \* the write of a block may fail
MemErrors == "heap" \in Events    \* heap allocations may fail
Updates == "update" \in Events    \* a cached URL may get a new 200 response
Clears == "clear" \in Events      \* the user may empty the cache
Shutdowns == "shutdown" \in Events \* the cache may be closed and opened again
Crashes == "crash" \in Events     \* the process may die and be restarted
Shared == "shared" \in Events     \* another process rewrites index.dat
Reuse == "reuse" \in Events       \* an object may get a dangling pointer's address

VARIABLES
  entry,    \* the entries, their bodies in memory and on disk
  queue,    \* iObjectQueue
  flushing, \* iObjectFlushing
  wh,       \* iStatus of the write handler: "idle" when it is not active
  timer,    \* iWaitTimer->IsActive()
  writer,   \* the entry whose write helper is active (its file is open)
  part,     \* iBodyPart of that helper
  werr,     \* the helper's iStatus is an error
  index,    \* what index.dat says
  gen,      \* responses received so far
  mode      \* "up", "closed", or the way the process came to grief

handler == <<queue, flushing, wh, timer>>
helper == <<writer, part, werr>>
vars == <<entry, handler, helper, index, gen, mode>>

EntryState == {"free", "responding", "complete", "requesting", "destroyed"}

(* KMaxCollectCount: entries one memory collection writes out at most. *)
KMaxCollectCount == 5

Body == Seq(Nat)

(* The parts of a CHttpCacheEntry that decide what a hit is served:
   st        iState, or "free" when the object is deleted
   hdr       the response whose headers are stored (0: none)
   size      BodySize()
   buf       iCacheBuffer
   cached    BodyDataCached()
   partial   BodyDataPartiallyWritten()
   delNeeded BodyFileDeleteNeeded()
   obs       iDeleteObserver is set (to the write handler)
   file      the body file, None when there is none
   lost      history: the write of one of its blocks has failed *)
EntryRecord ==
  [st : EntryState, hdr : Nat, size : Nat, buf : Body, cached : BOOLEAN,
   partial : BOOLEAN, delNeeded : BOOLEAN, obs : BOOLEAN,
   file : Body \cup {None}, lost : BOOLEAN]

IndexRecord == [size : Nat, hdr : Nat] \cup {None}

Blank ==
  [st |-> "free", hdr |-> 0, size |-> 0, buf |-> <<>>, cached |-> FALSE,
   partial |-> FALSE, delNeeded |-> FALSE, obs |-> FALSE, file |-> None,
   lost |-> FALSE]

Init ==
  /\ entry = [e \in Entry |-> Blank]
  /\ queue = <<>> /\ flushing = None /\ wh = "idle" /\ timer = FALSE
  /\ writer = None /\ part = 0 /\ werr = FALSE
  /\ index = [e \in Entry |-> None]
  /\ gen = 0
  /\ mode = "up"

-----------------------------------------------------------------------------
(* CHttpCacheStreamHandler: one entry's body in memory and on disk.        *)

FlushFault == {"none"} \cup (IF DiskErrors THEN {"space", "create"} ELSE {})
                       \cup (IF WriteErrors THEN {"write"} ELSE {})

(* The body file is open exclusively while the helper writes it. *)
Busy(e) == writer = e

(* CreateNewBodyFile that cannot replace the file. *)
CreateFailed(r) == [r EXCEPT !.size = 0, !.buf = <<>>]

(* FlushL: replace the file; if the body is in memory write it and drop it.
   A "write" fault loses the last block. *)
FlushL(r, busy, how) ==
  IF how = "space" THEN r
  ELSE IF busy \/ how = "create" THEN CreateFailed(r)
  ELSE IF r.cached
       THEN [r EXCEPT !.file = IF how = "write" THEN Front(r.buf) ELSE r.buf,
                      !.buf = <<>>, !.cached = FALSE, !.lost = @ \/ how = "write"]
       ELSE [r EXCEPT !.file = <<>>]

FlushOk(r, busy, how) ==
  ~busy /\ (how = "none" \/ (how = "write" /\ (~r.cached \/ r.buf = <<>>)))

(* RemoveBodyData; an open file cannot be opened again to be truncated, and
   the BodyDataCached flag is left as it is. *)
RemoveBodyData(r, busy) ==
  [r EXCEPT !.size = 0, !.buf = <<>>,
            !.file = IF busy \/ @ = None THEN @ ELSE <<>>, !.lost = FALSE]

(* SaveBodyData when the block fits in memory. *)
SaveInMemory(r) ==
  [r EXCEPT !.buf = Append(@, r.hdr), !.cached = TRUE, !.size = @ + 1]

(* SaveBodyData when it does not: what is in memory, which stays there, and
   the block go to a fresh file. *)
SaveOnDisk(r) ==
  [r EXCEPT !.file = Append(r.buf, r.hdr), !.cached = FALSE, !.size = @ + 1]

(* NextChunkL: what a hit is served. *)
NextChunk(r) == IF ~r.cached /\ r.file # None THEN r.file ELSE r.buf

-----------------------------------------------------------------------------
(* CHttpCacheFileWriteHandler: helpers.                                    *)

(* Mutant: the IsActive() test is dropped. *)
BeginWritingMutant(w) == "ok"

(* BeginWriting completes the handler's own request unless it is active. *)
BeginWriting(w) == IF w = "idle" THEN "ok" ELSE w

(* A pointer to a deleted entry is in the queue. *)
Dangling(q) == \E e \in ToSet(q) : entry[e].st = "free"

(* iObjectQueue.Sort: largest body first, equal sizes in any order. *)
SortedQueues(S, n) ==
  {q \in [1..n -> S] :
     /\ ToSet(q) = S
     /\ \A i, j \in 1..n : i < j => q[i] # q[j] /\ entry[q[i]].size >= entry[q[j]].size}

(* Mutants of RemoveEntry: || for && in the test for the entry being written;
   the timer is stopped although entries are left. *)
EraseEntryMutant(e, q, tm, w, unlink) ==
  LET beingWritten == e = flushing \/ w # "idle"
  IN /\ entry' = [entry EXCEPT ![e] = Blank]
     /\ writer' = IF writer = e THEN None ELSE writer
     /\ wh' = IF writer = e THEN "err" ELSE w
     /\ queue' = IF unlink /\ ~beingWritten THEN RemoveFirst(q, e) ELSE q
     /\ timer' = (tm \/ (unlink /\ beingWritten))
     /\ UNCHANGED <<flushing, part, werr>>

EraseStopsTimerMutant(e, q, tm, w, unlink) ==
  LET beingWritten == e = flushing /\ w # "idle"
  IN /\ entry' = [entry EXCEPT ![e] = Blank]
     /\ writer' = IF writer = e THEN None ELSE writer
     /\ wh' = IF writer = e THEN "err" ELSE w
     /\ queue' = IF unlink /\ ~beingWritten THEN RemoveFirst(q, e) ELSE q
     /\ timer' = IF unlink THEN beingWritten ELSE tm
     /\ UNCHANGED <<flushing, part, werr>>

(* Deleting an entry: CHttpCacheStreamHandler::Erase cancels a running
   helper, which completes the write handler's request with KErrCancel, and
   deletes the file; the destructor then tells the delete observer.
   RemoveEntry, called when unlink holds, leaves the entry being written in
   the queue and restarts the timer.  tm and w are the timer and the
   handler's status at that point, q its queue. *)
EraseEntry(e, q, tm, w, unlink) ==
  LET beingWritten == e = flushing /\ w # "idle"
      rest == RemoveFirst(q, e)
  IN /\ entry' = [entry EXCEPT ![e] = Blank]
     /\ writer' = IF writer = e THEN None ELSE writer
     /\ wh' = IF writer = e THEN "err" ELSE w
     /\ queue' = IF unlink /\ ~beingWritten THEN rest ELSE q
     /\ timer' = IF ~unlink THEN tm
                 ELSE IF beingWritten THEN TRUE
                 ELSE tm /\ ~(rest = <<>> /\ q # <<>>)
     /\ UNCHANGED <<flushing, part, werr>>

DeleteCacheEntry(e) == EraseEntry(e, queue, timer, wh, TRUE)

-----------------------------------------------------------------------------
(* CHttpCacheHandler: calls made by the HTTP framework.                    *)

(* A new object gets address e; the heap may hand out an address that the
   queue or iObjectFlushing still holds. *)
Allocatable(e) ==
  entry[e].st = "free" /\ (Reuse \/ (e \notin ToSet(queue) /\ e # flushing))

(* ReceivedResponseHeadersL for a URL the cache does not hold. *)
NewResponse(e) ==
  /\ mode = "up" /\ Allocatable(e) /\ gen < MaxGen
  /\ gen' = gen + 1
  /\ \/ /\ entry' = [entry EXCEPT ![e] = [Blank EXCEPT !.st = "responding", !.hdr = gen + 1]]
        /\ UNCHANGED <<handler, helper>>
     \/ DiskErrors /\ DeleteCacheEntry(e)       \* headers not saved
  /\ UNCHANGED <<index, mode>>

(* ReceivedResponseHeadersL with a 200 for a cached URL (Find hides entries
   without a body): new headers now, the old body goes with the first block. *)
UpdatedResponse(e) ==
  /\ mode = "up" /\ Updates /\ gen < MaxGen
  /\ entry[e].st = "complete" /\ entry[e].size > 0
  /\ gen' = gen + 1
  /\ \/ /\ entry' = [entry EXCEPT ![e].st = "responding", ![e].hdr = gen + 1,
                                  ![e].delNeeded = TRUE]
        /\ UNCHANGED <<handler, helper>>
     \/ DiskErrors /\ DeleteCacheEntry(e)
  /\ UNCHANGED <<index, mode>>

(* ReceivedResponseBodyDataL: one more block.  Without room for it the entry
   is deleted. *)
ReceivedResponseBodyDataL(e) ==
  LET r == IF entry[e].delNeeded
           THEN [RemoveBodyData(entry[e], Busy(e)) EXCEPT !.delNeeded = FALSE]
           ELSE entry[e]
  IN /\ mode = "up" /\ entry[e].st = "responding" /\ r.size < MaxBody
     /\ \/ /\ entry' = [entry EXCEPT ![e] = SaveInMemory(r)]
           /\ UNCHANGED <<handler, helper>>
        \/ /\ MemErrors /\ ~Busy(e)
           /\ entry' = [entry EXCEPT ![e] = SaveOnDisk(r)]
           /\ UNCHANGED <<handler, helper>>
        \/ /\ DiskErrors \/ (MemErrors /\ (WriteErrors \/ Busy(e)))
           /\ DeleteCacheEntry(e)
     /\ UNCHANGED <<index, gen, mode>>

(* AddEntry: bodies up to the threshold are not worth postponing. *)
TooSmall(e) == ImmediateWriteThreshold # 0 /\ entry[e].size <= ImmediateWriteThreshold

(* ResponseComplete, AddEntry returning EAddedOk. *)
ResponsePostponed(e) ==
  LET rest == RemoveFirst(queue, e)
  IN /\ mode = "up" /\ entry[e].st = "responding" /\ ~TooSmall(e)
     /\ ~Dangling(rest)
     /\ queue' \in SortedQueues(ToSet(rest) \cup {e}, Len(rest) + 1)
     /\ entry' = [entry EXCEPT ![e].st = "complete", ![e].obs = TRUE]
     /\ timer' = TRUE
     /\ UNCHANGED <<flushing, wh, helper, index, gen, mode>>

(* The sort reads the size of every queued entry, a deleted one included. *)
SortReadsFreed(e) ==
  /\ mode = "up" /\ entry[e].st = "responding" /\ ~TooSmall(e)
  /\ Dangling(RemoveFirst(queue, e))
  /\ mode' = "freed"
  /\ UNCHANGED <<entry, handler, helper, index, gen>>

(* The body was not postponed: flush it now, delete the entry if that fails. *)
FlushNow(e, q, tm, w, how) ==
  IF FlushOk(entry[e], Busy(e), how)
  THEN /\ entry' = [entry EXCEPT ![e] = [FlushL(@, Busy(e), how) EXCEPT !.st = "complete"]]
       /\ queue' = q /\ timer' = tm /\ wh' = w
       /\ UNCHANGED <<flushing, helper>>
  ELSE EraseEntry(e, q, tm, w, TRUE)

(* ResponseComplete, AddEntry returning EBodySmallerThanThreshold;
   ENotEnoughFreeMemory because RAM is short, when a waiting write-out starts
   at once; or the same because the queue, sorted all the same, cannot grow. *)
ResponseWritten(e, how) ==
  /\ mode = "up" /\ entry[e].st = "responding"
  /\ \/ TooSmall(e) /\ FlushNow(e, queue, timer, wh, how)
     \/ /\ ~TooSmall(e)
        /\ FlushNow(e, queue, FALSE, IF timer THEN BeginWriting(wh) ELSE wh, how)
     \/ /\ ~TooSmall(e) /\ MemErrors
        /\ Len(queue) >= QueueReserve /\ e \notin ToSet(queue) /\ ~Dangling(queue)
        /\ \E q \in SortedQueues(ToSet(queue), Len(queue)) : FlushNow(e, q, timer, wh, how)
  /\ UNCHANGED <<index, gen, mode>>

(* RequestL: a cache hit; RequestClosed ends it. *)
RequestL(e) ==
  /\ mode = "up" /\ entry[e].st = "complete" /\ entry[e].size > 0
  /\ entry' = [entry EXCEPT ![e].st = "requesting"]
  /\ UNCHANGED <<handler, helper, index, gen, mode>>

RequestClosed(e) ==
  /\ mode = "up"
  /\ \/ /\ entry[e].st = "requesting"
        /\ entry' = [entry EXCEPT ![e].st = "complete"]
        /\ UNCHANGED <<handler, helper>>
     \/ /\ entry[e].st \in {"responding", "destroyed"}
        /\ DeleteCacheEntry(e)
  /\ UNCHANGED <<index, gen, mode>>

(* RemoveL: delete the entry, or mark it to be deleted when it is closed. *)
RemoveL(e) ==
  /\ mode = "up"
  /\ \/ /\ entry[e].st = "complete" /\ entry[e].size > 0
        /\ EraseEntry(e, queue, timer, wh, entry[e].obs)
     \/ /\ entry[e].st \in {"responding", "requesting"}
        /\ entry' = [entry EXCEPT ![e].st = "destroyed"]
        /\ UNCHANGED <<handler, helper>>
  /\ UNCHANGED <<index, gen, mode>>

(* Mutant: the victim may be in use. *)
EvictMutant(e) ==
  /\ mode = "up"
  /\ entry[e].st \in {"complete", "requesting"} /\ entry[e].size > 0 /\ ~entry[e].partial
  /\ DeleteCacheEntry(e)
  /\ UNCHANGED <<index, gen, mode>>

(* CacheNeedsSpaceL making room for another entry: an eviction candidate
   that is not being written out. *)
Evict(e) ==
  /\ mode = "up"
  /\ entry[e].st = "complete" /\ entry[e].size > 0 /\ ~entry[e].partial
  /\ DeleteCacheEntry(e)
  /\ UNCHANGED <<index, gen, mode>>

(* SaveL: a body that comes ready made is stored and flushed at once. *)
SaveL(e, how) ==
  LET r == SaveInMemory([Blank EXCEPT !.st = "complete", !.hdr = gen + 1])
  IN /\ mode = "up" /\ Allocatable(e) /\ gen < MaxGen /\ MaxBody > 0
     /\ gen' = gen + 1
     /\ IF FlushOk(r, FALSE, how)
        THEN /\ entry' = [entry EXCEPT ![e] = FlushL(r, FALSE, how)]
             /\ UNCHANGED <<handler, helper>>
        ELSE DeleteCacheEntry(e)
     /\ UNCHANGED <<index, mode>>

(* ExternalizeL: every entry with a body is written to index.dat. *)
SavedIndex(ent) ==
  [e \in Entry |-> IF ent[e].st # "free" /\ ent[e].size > 0
                   THEN [size |-> ent[e].size, hdr |-> ent[e].hdr] ELSE None]

(* RemoveAllL: empty the queue, cancel the handler, delete every entry that
   is not in use, save the index.  The timer and iObjectFlushing stay. *)
RemoveAllL ==
  /\ mode = "up" /\ Clears /\ ~Dangling(queue) /\ wh # "pending"
  /\ entry' = [e \in Entry |->
                 IF entry[e].st = "complete" THEN Blank
                 ELSE [entry[e] EXCEPT !.obs = @ /\ e \notin ToSet(queue)]]
  /\ queue' = <<>> /\ wh' = "idle"
  /\ index' = SavedIndex(entry')
  /\ UNCHANGED <<flushing, timer, helper, gen, mode>>

(* RemoveAll, or the destructor, walking over a deleted entry. *)
QueueWalkFreed ==
  /\ mode = "up" /\ (Clears \/ Shutdowns) /\ Dangling(queue)
  /\ mode' = "freed"
  /\ UNCHANGED <<entry, handler, helper, index, gen>>

(* Cancel waits for the handler's request; DoCancel does not complete it and
   the helper that would runs in this very thread. *)
CancelHangs ==
  /\ mode = "up" /\ (Clears \/ Shutdowns) /\ wh = "pending"
  /\ mode' = "hang"
  /\ UNCHANGED <<entry, handler, helper, index, gen>>

(* ObserverRunL: another process rewrote index.dat; MergeL drops an entry
   that is not in it, is not in memory and has no file. *)
ObserverRunL(e) ==
  /\ mode = "up" /\ Shared
  /\ entry[e].st # "free" /\ ~entry[e].cached /\ entry[e].file = None
  /\ EraseEntry(e, queue, timer, wh, entry[e].obs)
  /\ UNCHANGED <<index, gen, mode>>

-----------------------------------------------------------------------------
(* Collect, called when an allocation fails anywhere in the process.       *)

(* Mutant: an entry is skipped whether or not one is being written. *)
UncollectedMutant(k) == <<flushing>> \o SubSeq(queue, k + 2, Len(queue))

(* The queue without its first k entries that are not being written. *)
Uncollected(k) ==
  IF \E i \in 1..k : queue[i] = flushing
  THEN <<flushing>> \o SubSeq(queue, k + 2, Len(queue))
  ELSE SubSeq(queue, k + 1, Len(queue))

Collectable == Len(queue) - (IF flushing \in ToSet(queue) THEN 1 ELSE 0)

(* CollectMemory stops when the amount asked for is met exactly (the unsigned
   counter wraps otherwise), after KMaxCollectCount entries, or when the queue
   is empty; what Flush returns is ignored. *)
Collect(k) ==
  LET out == ToSet(queue) \ ToSet(Uncollected(k))
  IN /\ mode = "up" /\ timer
     /\ k <= Collectable /\ k <= KMaxCollectCount
     /\ \E how \in [out -> FlushFault] :
          entry' = [e \in Entry |->
                     IF e \in out THEN [FlushL(entry[e], Busy(e), how[e]) EXCEPT !.obs = FALSE]
                     ELSE entry[e]]
     /\ queue' = Uncollected(k)
     /\ timer' = FALSE /\ wh' = BeginWriting(wh)
     /\ UNCHANGED <<flushing, helper, index, gen, mode>>

(* Only the entry being written is left, skip is past it and more is wanted:
   iObjectQueue[skip] is out of range. *)
CollectOutOfRange ==
  /\ mode = "up" /\ timer
  /\ flushing \in ToSet(queue) /\ Collectable < KMaxCollectCount
  /\ mode' = "bounds"
  /\ UNCHANGED <<entry, handler, helper, index, gen>>

-----------------------------------------------------------------------------
(* Active objects.                                                         *)

(* CHttpCacheWriteTimeout::RunL: WriteTimeout, BeginWriting. *)
TimerRunL ==
  /\ mode = "up" /\ timer
  /\ timer' = FALSE /\ wh' = BeginWriting(wh)
  /\ UNCHANGED <<entry, queue, flushing, helper, index, gen, mode>>

(* CHttpCacheEntryAsyncWriteHelper::RunL: write the next block and wait for
   it, or, past the last one, close the file, drop the buffer and hand the
   status of the last write to the write handler. *)
HelperWrites(ok) ==
  /\ mode = "up" /\ writer # None /\ Len(entry[writer].buf) > part
  /\ ok \/ WriteErrors
  /\ entry' = [entry EXCEPT ![writer].file =
                               IF ok THEN Append(@, entry[writer].buf[part + 1]) ELSE @,
                             ![writer].lost = @ \/ ~ok]
  /\ part' = part + 1 /\ werr' = ~ok
  /\ UNCHANGED <<handler, writer, index, gen, mode>>

(* Mutants: the last block is not written; the write handler is not told. *)
HelperDoneEarlyMutant ==
  /\ mode = "up" /\ writer # None /\ Len(entry[writer].buf) <= part + 1
  /\ entry' = [entry EXCEPT ![writer].buf = <<>>, ![writer].cached = FALSE,
                             ![writer].partial = FALSE]
  /\ wh' = IF werr THEN "err" ELSE "ok"
  /\ writer' = None
  /\ UNCHANGED <<queue, flushing, timer, part, werr, index, gen, mode>>

HelperDoneSilentMutant ==
  /\ mode = "up" /\ writer # None /\ Len(entry[writer].buf) <= part
  /\ entry' = [entry EXCEPT ![writer].buf = <<>>, ![writer].cached = FALSE,
                             ![writer].partial = FALSE]
  /\ writer' = None
  /\ UNCHANGED <<handler, part, werr, index, gen, mode>>

HelperDone ==
  /\ mode = "up" /\ writer # None /\ Len(entry[writer].buf) <= part
  /\ entry' = [entry EXCEPT ![writer].buf = <<>>, ![writer].cached = FALSE,
                             ![writer].partial = FALSE]
  /\ wh' = IF werr THEN "err" ELSE "ok"
  /\ writer' = None
  /\ UNCHANGED <<queue, flushing, timer, part, werr, index, gen, mode>>

HelperRunL == HelperDone \/ \E ok \in BOOLEAN : HelperWrites(ok)

(* Mutant: the delete observer of a written entry is not cleared. *)
SettledMutant(r) ==
  IF wh = "ok" THEN r
  ELSE IF r.st # "complete" THEN [r EXCEPT !.obs = FALSE, !.st = "destroyed"]
  ELSE IF r.size > 0 THEN Blank
  ELSE [r EXCEPT !.obs = FALSE]

(* RunL of the write handler, first half: the entry just written leaves the
   queue; if its write failed it is removed as RemoveL does. *)
Settled(r) ==
  IF wh = "ok" THEN [r EXCEPT !.obs = FALSE]
  ELSE IF r.st # "complete" THEN [r EXCEPT !.obs = FALSE, !.st = "destroyed"]
  ELSE IF r.size > 0 THEN Blank
  ELSE [r EXCEPT !.obs = FALSE]

Queue1 == RemoveFirst(queue, flushing)
Entry1 == IF flushing \in ToSet(queue)
          THEN [entry EXCEPT ![flushing] = Settled(@)] ELSE entry

(* Second half: entries without a body at the head of the queue are dropped. *)
EmptyHeads ==
  Cardinality({n \in 1..Len(Queue1) : \A i \in 1..n : Entry1[Queue1[i]].size = 0})
Queue2 == SubSeq(Queue1, EmptyHeads + 1, Len(Queue1))
Entry2 == [e \in Entry |-> IF e \in ToSet(Queue1) \ ToSet(Queue2)
                           THEN [Entry1[e] EXCEPT !.obs = FALSE] ELSE Entry1[e]]

RunLReady == mode = "up" /\ wh \in {"ok", "err"}
FlushedIsFreed == flushing \in ToSet(queue) /\ entry[flushing].st = "free"

(* The entry being written was deleted meanwhile. *)
RunLFreed ==
  /\ RunLReady /\ FlushedIsFreed
  /\ mode' = "freed"
  /\ UNCHANGED <<entry, handler, helper, index, gen>>

(* The timer runs again: something was added, wait for it to expire. *)
RunLBackOff ==
  /\ RunLReady /\ ~FlushedIsFreed /\ timer
  /\ entry' = Entry1 /\ queue' = Queue1
  /\ flushing' = None /\ wh' = "idle"
  /\ UNCHANGED <<timer, helper, index, gen, mode>>

(* FlushAsync of the head of the queue.  Short of disk space, without a file
   or without a helper the request is never completed. *)
AsyncFault == {"none"} \cup (IF DiskErrors THEN {"space", "create"} ELSE {})
                       \cup (IF MemErrors THEN {"alloc"} ELSE {})

RunLFlush(how) ==
  LET e == Head(Queue2)
      r == Entry2[e]
  IN /\ RunLReady /\ ~FlushedIsFreed /\ ~timer /\ Queue2 # <<>>
     /\ queue' = Queue2 /\ flushing' = e
     /\ IF r.buf = <<>>
        THEN entry' = Entry2 /\ wh' = "ok" /\ UNCHANGED helper
        ELSE /\ wh' = "pending"
             /\ entry' = [Entry2 EXCEPT ![e] =
                            CASE how = "none" -> [r EXCEPT !.file = <<>>, !.partial = TRUE]
                              [] how = "space" -> [r EXCEPT !.buf = <<>>]
                              [] how = "create" -> CreateFailed(r)
                              [] how = "alloc" -> [r EXCEPT !.file = <<>>]]
             /\ IF how = "none" THEN writer' = e /\ part' = 0 /\ werr' = FALSE
                ELSE UNCHANGED helper
     /\ UNCHANGED <<timer, index, gen, mode>>

(* Nothing left to write: save the index and go idle. *)
RunLIdle ==
  /\ RunLReady /\ ~FlushedIsFreed /\ ~timer /\ Queue2 = <<>>
  /\ entry' = Entry2 /\ queue' = <<>>
  /\ flushing' = None /\ wh' = "idle"
  /\ index' = SavedIndex(Entry2)
  /\ UNCHANGED <<timer, helper, gen, mode>>

RunL == RunLFreed \/ RunLBackOff \/ RunLIdle \/ \E how \in AsyncFault : RunLFlush(how)

-----------------------------------------------------------------------------
(* Shutdown, crash, restart.                                               *)

(* ~CHttpCacheHandler, once every transaction is closed: the index is saved,
   then the write handler is cancelled and dumps its queue. *)
Shutdown ==
  /\ mode = "up" /\ Shutdowns /\ wh # "pending" /\ ~Dangling(queue)
  /\ \A e \in Entry : entry[e].st \in {"free", "complete"}
  /\ \E how \in [ToSet(queue) -> FlushFault] :
       entry' = [e \in Entry |->
                  IF e \in ToSet(queue)
                  THEN [FlushL(entry[e], FALSE, how[e]) EXCEPT !.obs = FALSE]
                  ELSE entry[e]]
  /\ index' = SavedIndex(entry)
  /\ queue' = <<>> /\ wh' = "idle" /\ timer' = FALSE
  /\ mode' = "closed"
  /\ UNCHANGED <<flushing, helper, gen>>

(* OpenLookupTableL reads the index back; after a crash an entry whose file
   is missing or of another size is dropped and stray files are deleted. *)
Opened(e, crashed) ==
  LET f == entry[e].file
      i == index[e]
  IN IF i = None THEN [Blank EXCEPT !.file = IF crashed THEN None ELSE f]
     ELSE IF crashed /\ (f = None \/ Len(f) # i.size) THEN Blank
     ELSE [Blank EXCEPT !.st = "complete", !.hdr = i.hdr, !.size = i.size, !.file = f,
                        !.lost = entry[e].lost]

Restart(crashed) ==
  /\ IF crashed THEN Crashes /\ mode # "closed" ELSE mode = "closed"
  /\ entry' = [e \in Entry |-> Opened(e, crashed)]
  /\ queue' = <<>> /\ flushing' = None /\ wh' = "idle" /\ timer' = FALSE
  /\ writer' = None /\ part' = 0 /\ werr' = FALSE
  /\ mode' = "up"
  /\ UNCHANGED <<index, gen>>

-----------------------------------------------------------------------------
Next ==
  \/ \E e \in Entry :
       \/ NewResponse(e) \/ UpdatedResponse(e) \/ ReceivedResponseBodyDataL(e)
       \/ ResponsePostponed(e) \/ SortReadsFreed(e)
       \/ \E how \in FlushFault : ResponseWritten(e, how) \/ SaveL(e, how)
       \/ RequestL(e) \/ RequestClosed(e) \/ RemoveL(e) \/ Evict(e)
       \/ ObserverRunL(e)
  \/ RemoveAllL \/ QueueWalkFreed \/ CancelHangs
  \/ (\E k \in 0..Len(queue) : Collect(k)) \/ CollectOutOfRange
  \/ TimerRunL \/ HelperRunL \/ RunL
  \/ Shutdown \/ \E crashed \in BOOLEAN : Restart(crashed)

(* The scheduler keeps running the active objects whose request completed;
   the client does nothing it does not choose to. *)
Fairness == WF_vars(TimerRunL) /\ WF_vars(HelperRunL) /\ WF_vars(RunL)

Spec == Init /\ [][Next]_vars
FairSpec == Spec /\ Fairness

-----------------------------------------------------------------------------
(* Properties.                                                             *)

(* The fields of an entry and of the write handler stay in range; in
   particular the queue holds entries, never what Collect found behind its end. *)
TypeOK ==
  /\ entry \in [Entry -> EntryRecord]
  /\ queue \in Seq(Entry)
  /\ flushing \in Entry \cup {None}
  /\ wh \in {"idle", "pending", "ok", "err"}
  /\ timer \in BOOLEAN
  /\ writer \in Entry \cup {None}
  /\ part \in Nat /\ werr \in BOOLEAN
  /\ index \in [Entry -> IndexRecord]
  /\ gen \in Nat
  /\ mode \in {"up", "closed", "freed", "bounds", "hang"}

(* Deleting an entry unlinks it: the queue holds no entry twice, an entry
   that reports its deletion to the write handler is alive and queued, and
   whatever is queued reports its deletion, unless it was deleted while it
   was being written and the write handler has not run since. *)
QueueLinked ==
  /\ \A i, j \in 1..Len(queue) : queue[i] = queue[j] => i = j
  /\ \A e \in Entry : entry[e].obs => entry[e].st # "free" /\ e \in ToSet(queue)
  /\ \A e \in ToSet(queue) : entry[e].obs \/ (e = flushing /\ wh # "idle")

(* A postponed body is never forgotten: while something is queued the timer
   runs or the write handler is active. *)
NeverForgotten == queue # <<>> => timer \/ wh # "idle"

(* One writer at a time, and its completion has one receiver: an active
   helper belongs to the live entry the write handler waits for, which is
   still queued and has its file; so the handler's request is never
   completed twice. *)
SingleWriter ==
  /\ writer # None => /\ writer = flushing /\ wh = "pending"
                      /\ entry[writer].st # "free" /\ entry[writer].file # None
  /\ \A e \in Entry : entry[e].partial <=> e = writer
  /\ wh = "pending" => flushing \in ToSet(queue)

(* What a hit on a stored entry would be served is the body that came with
   the stored headers, whole, unless the write of one of its blocks has
   failed: ResponseComplete calls it "successfully saved (flushed)". *)
Intact(r) == NextChunk(r) = [i \in 1..r.size |-> r.hdr]
BodyIntact ==
  \A e \in Entry : entry[e].st \in {"complete", "requesting"} /\ ~entry[e].lost => Intact(entry[e])

(* A hit in progress is not disturbed: the entry stays allocated until the
   request is closed and its body does not change, wherever it is read from,
   unless a block of it was not written. *)
ReaderUndisturbed ==
  [][\A e \in Entry : entry[e].st = "requesting" /\ mode = "up" /\ mode' = "up" =>
       /\ entry'[e].st # "free"
       /\ NextChunk(entry'[e]) = NextChunk(entry[e]) \/ entry'[e].lost]_vars

(* Every postponed body eventually leaves the queue, written out or dropped,
   whatever comes in between and also when the write of a block fails; that a
   write cannot even be started is another matter (README, section 7). *)
Drained ==
  \A e \in Entry : e \in ToSet(queue) ~> (e \notin ToSet(queue) \/ mode # "up")

-----------------------------------------------------------------------------
(* What comments in the code say, and the code does not keep.              *)

(* "Write failed.... Clean up this entry": RunL removes an entry a block of
   which was not written. *)
FailedRemoved ==
  \A e \in Entry : entry[e].st = "complete" /\ e \notin ToSet(queue) => ~entry[e].lost

(* RemoveEntry on an entry that is being written: it "will be removed from
   the list when it's done writing out, so we don't need to worry about it":
   the write handler never touches an entry after it was deleted. *)
NoUseAfterFree == mode # "freed"

(* RemoveAll: "stop us if we're active" returns. *)
CancelReturns == mode # "hang"

(* CollectMemory skips the entry being written and stays within the queue. *)
CollectInRange == mode # "bounds"

(* RemoveAllL: "by definition, all entries in the postpone handler aren't
   active", so nothing in use is dropped from the queue. *)
QueuedNotActive ==
  \A e \in ToSet(queue) : entry[e].st \notin {"responding", "requesting"}

(* DumpAllObjects: "write everything to disk *now* and wait for it": after a
   shutdown without disk errors every stored body is in its file. *)
DumpedToDisk ==
  mode = "closed" =>
    \A e \in Entry : entry[e].st = "complete" /\ entry[e].size > 0 =>
      entry[e].file = [i \in 1..entry[e].size |-> entry[e].hdr]

(* AddEntry re-adds "pre-existing objects with updated content": once the old
   body was removed, the entry holds the new one. *)
UpdatedBodyIntact ==
  \A e \in Entry :
    entry[e].st \in {"complete", "requesting"} /\ ~entry[e].delNeeded => Intact(entry[e])

(* ExternalizeL: "save complete entries only". *)
CompleteIndexed ==
  [][\A e \in Entry : index'[e] # index[e] /\ index'[e] # None =>
       entry'[e].st # "responding"]_vars

=============================================================================
