--------------------------- MODULE HttpCacheSupply ---------------------------
(***************************************************************************)
(* The HTTP transactions of one URL and the cache entries they share.      *)
(* Every HttpConnection has a CHttpCacheSupply; its THttpCacheEntry keeps  *)
(* a pointer to the entry the transaction reads or fills, from the answer  *)
(* of the cache or the response headers until the connection is closed.    *)
(* The cache handler does not know who points to an entry: what a call may *)
(* do depends on the entry's state alone.                                  *)
(*                                                                         *)
(* Events of the connections (from the HTTP stack, the supply's timer and  *)
(* the user) are handled one at a time, in any order that each connection  *)
(* allows.  Entries of other URLs appear as evictions.                     *)
(***************************************************************************)
EXTENDS Naturals, Sequences

CONSTANTS
  Trans,   \* connections
  Id,      \* addresses of CHttpCacheEntry objects
  Null,
  Chunks,  \* parts of a response body
  Events   \* which of the events below may happen

ASSUME NullAssumption == Null \notin Id
ASSUME ChunkAssumption == Chunks \in Nat \ {0}
ASSUME EventAssumption == Events \subseteq {"share", "evict", "empty", "fail", "leave"}

Shares == "share" \in Events    \* several connections load the URL at once
Evicts == "evict" \in Events    \* entries are deleted while connections are open
Empties == "empty" \in Events   \* an entry may get no body
Fails == "fail" \in Events      \* saving may fail
Leaves == "leave" \in Events    \* response headers may be left in the middle

VARIABLES
  obj,   \* the entries
  tab,   \* those in the lookup table
  first, \* the one Probe finds
  conn,  \* the connections
  mode,  \* "freed" after a deleted entry was used
  emptied \* history: some entry was complete without a body

vars == <<obj, tab, first, conn, mode, emptied>>

(* body lists the connections that delivered its parts; del is
   BodyFileDeleteNeeded. *)
EntryRecord == [st : {"free", "responding", "complete", "requesting", "destroyed"},
                body : Seq(Trans), del : BOOLEAN]
NoEntry == [st |-> "free", body |-> <<>>, del |-> FALSE]

(* ptr is m_cacheEntry.iCacheEntry; n counts the body parts received; cond: the
   request that was sent is conditional; nm is m_notModified. *)
Conn == [ph : {"none", "sent", "body", "done", "unserved",
               "hitheaders", "hitbody", "hitend", "hitfail"},
         ptr : Id \cup {Null}, n : 0..Chunks,
         cond : BOOLEAN, nm : BOOLEAN, closed : BOOLEAN]
NoConn == [ph |-> "none", ptr |-> Null, n |-> 0, cond |-> FALSE, nm |-> FALSE, closed |-> FALSE]

Init ==
  /\ obj = [e \in Id |-> NoEntry]
  /\ tab = {} /\ first = Null
  /\ conn = [t \in Trans |-> NoConn]
  /\ mode = "run" /\ emptied = FALSE

Open == {t \in Trans : conn[t].ph # "none"}

-----------------------------------------------------------------------------
(* The lookup table, as far as one URL can tell (see HttpCacheLookupTable). *)

(* Find hides a complete entry without a body. *)
Visible == first # Null /\ ~(obj[first].st = "complete" /\ obj[first].body = <<>>)
Complete == Visible /\ obj[first].st = "complete"

(* The address of a new entry.  One that a connection still points to is not
   given out again: the use of such a pointer ends the behaviour anyway. *)
Unused(e) == obj[e].st = "free" /\ \A t \in Trans : conn[t].ptr # e

(* A new entry may end up before or behind the one that is there. *)
Insert(e, r) ==
  /\ Unused(e)
  /\ obj' = [obj EXCEPT ![e] = r]
  /\ tab' = tab \cup {e}
  /\ first' \in (IF first = Null THEN {e} ELSE {e, first})

(* Mutant: the slot of a deleted entry is kept. *)
EraseFirstMutant == obj' = [obj EXCEPT ![first] = NoEntry] /\ UNCHANGED <<tab, first>>

(* The entry Probe finds is deleted. *)
EraseFirst ==
  /\ obj' = [obj EXCEPT ![first] = NoEntry]
  /\ tab' = tab \ {first}
  /\ first' \in (IF tab = {first} THEN {Null} ELSE tab \ {first})

(* DeleteCacheEntry looks up the URL of the entry, if one is found. *)
DeleteCacheEntry == IF first = Null THEN UNCHANGED <<obj, tab, first>> ELSE EraseFirst

SetState(e, st) == obj' = [obj EXCEPT ![e].st = st] /\ UNCHANGED <<tab, first>>

(* The state of the entry a connection points to; the pointer may lead to an
   entry that was deleted. *)
StateOf(t) == IF conn[t].ptr = Null THEN "none" ELSE obj[conn[t].ptr].st
Dangling(t) == StateOf(t) = "free"
UsesFreed == mode' = "freed" /\ UNCHANGED <<obj, tab, first, conn>>

-----------------------------------------------------------------------------
(* StartRequestL: RequestL finds a complete entry that needs no validation. *)
StartHit(t) ==
  /\ conn[t].ph = "none" /\ (Shares \/ Open = {}) /\ Complete
  /\ SetState(first, "requesting")
  /\ conn' = [conn EXCEPT ![t] = [NoConn EXCEPT !.ph = "hitheaders", !.ptr = first]]
  /\ UNCHANGED mode

(* It does not, and the request is sent; with validation headers if there is
   an entry to validate. *)
StartMiss(t) ==
  /\ conn[t].ph = "none" /\ (Shares \/ Open = {})
  /\ \E cond \in {FALSE, Complete} :
       conn' = [conn EXCEPT ![t] = [NoConn EXCEPT !.ph = "sent", !.cond = cond]]
  /\ UNCHANGED <<obj, tab, first, mode>>

Received(t, e, nm) ==
  conn' = [conn EXCEPT ![t].ph = "body", ![t].ptr = e, ![t].nm = nm, ![t].cond = FALSE]

(* Mutant: an entry that is validated is taken for one being requested. *)
HeadersUpdateMutant(t, nm) ==
  /\ Complete
  /\ \/ nm /\ SetState(first, "requesting") /\ Received(t, first, nm)
     \/ ~nm /\ SetState(first, "complete") /\ Received(t, first, nm)

(* ReceivedResponseHeadersL, if the response is cacheable and no one uses the
   entry: "multiple incoming entries doh". *)
HeadersUpdate(t, nm) ==
  /\ Complete
  /\ \/ nm /\ SetState(first, "complete") /\ Received(t, first, nm)
     \/ ~nm /\ SetState(first, "complete") /\ Received(t, first, nm)
     \/ /\ ~nm /\ Received(t, first, nm)
        /\ obj' = [obj EXCEPT ![first].st = "responding", ![first].del = TRUE]
        /\ UNCHANGED <<tab, first>>

(* The lookup finds nothing: a new entry, for a 304 too, whose entry went
   while the answer was on its way; that one is complete without a body. *)
HeadersInsert(t, nm) ==
  /\ ~Visible
  /\ \E e \in Id :
       /\ Insert(e, [NoEntry EXCEPT !.st = IF nm THEN "complete" ELSE "responding"])
       /\ Received(t, e, nm)

(* The headers cannot be saved: DeleteCacheEntry.  A new entry goes as it
   came, unless the lookup finds an older one in its place. *)
HeadersRefused(t, nm) ==
  /\ Fails /\ Complete
  /\ EraseFirst /\ Received(t, Null, nm)

OlderErased(t, nm) ==
  /\ Fails /\ ~Visible /\ first # Null
  /\ \E e \in Id :
       /\ Unused(e)
       /\ obj' = [obj EXCEPT ![first] = NoEntry, ![e] = [NoEntry EXCEPT !.st = "responding"]]
       /\ tab' = (tab \ {first}) \cup {e}
       /\ first' \in tab'
  /\ Received(t, Null, nm)

HeadersIgnored(t, nm) ==
  /\ Received(t, Null, nm) /\ UNCHANGED <<obj, tab, first>>

(* No memory for the header strings, after SetState and before the pointer is
   stored: HeadersReceivedL is trapped and the connection goes on without its
   entry.  (A new entry left before SetState is not initialized; like one that
   is responding it is not complete.) *)
HeadersLeave(t) ==
  /\ Leaves /\ Received(t, Null, FALSE)
  /\ \/ Complete /\ SetState(first, "responding")
     \/ ~Visible /\ \E e \in Id : Insert(e, [NoEntry EXCEPT !.st = "responding"])

(* HeadersReceivedL: 200, or 304 if the request was conditional. *)
HeadersReceived(t) ==
  /\ conn[t].ph = "sent"
  /\ \/ \E nm \in {FALSE, conn[t].cond} :
          \/ HeadersUpdate(t, nm) \/ HeadersInsert(t, nm)
          \/ HeadersRefused(t, nm) \/ OlderErased(t, nm) \/ HeadersIgnored(t, nm)
     \/ HeadersLeave(t)
  /\ UNCHANGED mode

(* Mutant: the old body is kept. *)
SavedBodyMutant(t) ==
  LET r == obj[conn[t].ptr] IN [r EXCEPT !.body = Append(@, t), !.del = FALSE]

(* ReceivedResponseBodyDataL: the old body is removed first. *)
SavedBody(t) ==
  LET r == obj[conn[t].ptr]
  IN [r EXCEPT !.body = Append(IF r.del THEN <<>> ELSE @, t), !.del = FALSE]

BodyReceived(t) ==
  /\ conn[t].ph = "body" /\ ~conn[t].nm /\ conn[t].n < Chunks
  /\ \/ Dangling(t) /\ UsesFreed
     \/ /\ StateOf(t) = "responding"
        /\ \/ /\ obj' = [obj EXCEPT ![conn[t].ptr] = SavedBody(t)]
              /\ conn' = [conn EXCEPT ![t].n = @ + 1]
              /\ UNCHANGED <<tab, first>>
           \/ /\ Fails /\ DeleteCacheEntry
              /\ conn' = [conn EXCEPT ![t].n = @ + 1, ![t].ptr = Null]
        /\ UNCHANGED mode
     \/ /\ StateOf(t) \notin {"free", "responding"}
        /\ conn' = [conn EXCEPT ![t].n = @ + 1]
        /\ UNCHANGED <<obj, tab, first, mode>>

(* All parts have come, or there are none. *)
AllReceived(t) ==
  conn[t].ph = "body" /\ (conn[t].nm \/ conn[t].n = Chunks \/ (Empties /\ conn[t].n = 0))

(* CHttpCacheHandler::ResponseComplete; the flush may fail. *)
ResponseComplete(t) ==
  \/ StateOf(t) = "responding" /\ SetState(conn[t].ptr, "complete")
  \/ StateOf(t) = "responding" /\ Fails /\ DeleteCacheEntry
  \/ StateOf(t) = "destroyed" /\ DeleteCacheEntry
  \/ StateOf(t) \in {"none", "complete", "requesting"} /\ UNCHANGED <<obj, tab, first>>

(* ResponseCompleteL: the pointer goes when the entry was deleted. *)
ResponseCompleteL(t) ==
  /\ AllReceived(t) /\ ~conn[t].nm
  /\ \/ Dangling(t) /\ UsesFreed
     \/ /\ ~Dangling(t) /\ ResponseComplete(t)
        /\ conn' = [conn EXCEPT ![t].ph = "done",
                       ![t].ptr = IF @ = Null \/ obj'[@].st = "free" THEN Null ELSE @]
        /\ UNCHANGED mode

(* After a 304 "not modified needs body before response complete": the entry
   is requested from the cache, sent and closed, if Find finds it complete. *)
NotModifiedL(t) ==
  /\ AllReceived(t) /\ conn[t].nm
  /\ \/ Dangling(t) /\ UsesFreed
     \/ /\ ~Dangling(t)
        /\ ResponseComplete(t)
        /\ LET found == first' # Null /\ obj'[first'].st = "complete" /\ obj'[first'].body # <<>>
               left == IF conn[t].ptr = Null \/ obj'[conn[t].ptr].st = "free" THEN Null ELSE conn[t].ptr
           IN conn' = [conn EXCEPT ![t].ph = IF found THEN "done" ELSE "unserved",
                         ![t].ptr = IF found THEN first' ELSE left,
                         ![t].closed = found]
        /\ UNCHANGED mode

(* SupplyResponseL: headers, then the body, while the entry is being
   requested. *)
SupplyResponse(t) ==
  /\ conn[t].ph \in {"hitheaders", "hitbody"}
  /\ \/ Dangling(t) /\ UsesFreed
     \/ /\ ~Dangling(t)
        /\ conn' = [conn EXCEPT ![t].ph = IF StateOf(t) # "requesting" THEN "hitfail"
                                          ELSE IF @ = "hitheaders" THEN "hitbody" ELSE "hitend"]
        /\ UNCHANGED <<obj, tab, first, mode>>

(* RequestClosed. *)
RequestClosed(t) ==
  LET st == IF conn[t].closed THEN "none" ELSE StateOf(t)
  IN \/ st = "requesting" /\ SetState(conn[t].ptr, "complete")
     \/ st \in {"responding", "destroyed"} /\ DeleteCacheEntry
     \/ st \in {"none", "complete"} /\ UNCHANGED <<obj, tab, first>>

(* Mutant: a connection that is cancelled is not reported. *)
CloseRequestMutant(t) ==
  /\ conn[t].ph # "none"
  /\ conn' = [conn EXCEPT ![t] = NoConn]
  /\ \/ conn[t].ph = "body" /\ UNCHANGED <<obj, tab, first>>
     \/ conn[t].ph # "body" /\ RequestClosed(t)
  /\ UNCHANGED mode

(* The connection ends, or is cancelled at any time, and deletes its supply. *)
CloseRequest(t) ==
  /\ conn[t].ph # "none"
  /\ \/ Dangling(t) /\ ~conn[t].closed /\ UsesFreed
     \/ /\ ~Dangling(t) \/ conn[t].closed
        /\ RequestClosed(t)
        /\ conn' = [conn EXCEPT ![t] = NoConn]
        /\ UNCHANGED mode

-----------------------------------------------------------------------------
(* Mutant: an entry in use is erased like any other. *)
RemoveLMutant ==
  /\ Visible /\ (Evicts \/ Open = {})
  /\ EraseFirst
  /\ UNCHANGED <<conn, mode>>

(* RemoveL: an entry in use is marked, to be erased "when the trans is
   complete". *)
RemoveL ==
  /\ Visible /\ (Evicts \/ Open = {})
  /\ IF Complete THEN EraseFirst ELSE SetState(first, "destroyed")
  /\ UNCHANGED <<conn, mode>>

(* An eviction for another URL removes the entry, if it is complete. *)
Evict ==
  /\ first # Null /\ obj[first].st = "complete" /\ (Evicts \/ Open = {})
  /\ EraseFirst
  /\ UNCHANGED <<conn, mode>>

(* Mutant: the entries in use go too. *)
RemoveAllLMutant ==
  /\ tab # {} /\ (Evicts \/ Open = {})
  /\ obj' = [e \in Id |-> NoEntry]
  /\ tab' = {} /\ first' = Null
  /\ UNCHANGED <<conn, mode>>

(* RemoveAllL clears the slots of all complete entries. *)
RemoveAllL ==
  LET rest == {e \in tab : obj[e].st # "complete"}
  IN /\ tab # {} /\ (Evicts \/ Open = {})
     /\ obj' = [e \in Id |-> IF e \in rest THEN obj[e] ELSE NoEntry]
     /\ tab' = rest
     /\ first' \in (IF rest = {} THEN {Null} ELSE IF first \in rest THEN {first} ELSE rest)
     /\ UNCHANGED <<conn, mode>>

HidesBody(r) == r.st = "complete" /\ r.body = <<>>

Next ==
  /\ mode = "run"
  /\ \/ \E t \in Trans :
          \/ StartHit(t) \/ StartMiss(t) \/ HeadersReceived(t) \/ BodyReceived(t)
          \/ ResponseCompleteL(t) \/ NotModifiedL(t) \/ SupplyResponse(t) \/ CloseRequest(t)
     \/ RemoveL \/ Evict \/ RemoveAllL
  /\ emptied' = (emptied \/ \E e \in Id : HidesBody(obj'[e]))

Spec == Init /\ [][Next]_vars

-----------------------------------------------------------------------------
(* The table and its entries: what Probe finds is stored, what is stored was
   not deleted, and no entry lives outside the table, where neither an eviction
   nor a later request could reach it.  (With the types of the entries and of
   the connections; a supply starts without an entry.) *)
TableSound ==
  /\ obj \in [Id -> EntryRecord] /\ conn \in [Trans -> Conn]
  /\ mode \in {"run", "freed"} /\ emptied \in BOOLEAN
  /\ tab = {e \in Id : obj[e].st # "free"}
  /\ IF tab = {} THEN first = Null ELSE first \in tab

InUse(e) == obj[e].st \in {"responding", "requesting", "destroyed"}

(* An entry in use is the entry of a connection that will still release it:
   it can neither stay unusable for all later requests nor escape eviction
   for ever.  Until an entry without a body comes to be: then a URL may have
   two, and DeleteCacheEntry takes the wrong one. *)
Releases(t, e) == conn[t].ph # "none" /\ conn[t].ptr = e /\ ~conn[t].closed
AllReleased == \A e \in Id : InUse(e) => \E t \in Trans : Releases(t, e)
Released == ~emptied => AllReleased

(* The use of an entry is ended only by those who have a part in it: neither
   an eviction, nor a removal, nor a connection without a pointer to the entry
   deletes it, completes it or takes it over; a removal only marks it.  Again
   until an entry without a body comes to be. *)
InUseKept ==
  [][~emptied' => \A e \in Id :
       (InUse(e) /\ obj'[e].st # obj[e].st)
         => \/ obj'[e].st = "destroyed"
            \/ \E t \in Trans : conn[t].ptr = e /\ conn'[t] # conn[t]]_vars

(* A complete entry holds the whole body of one response, never parts of two
   that were saved through the same entry: while connections follow each other,
   whatever is evicted, cancelled, left or not saved in between. *)
Whole(b) == \E t \in Trans : b = [k \in 1..Chunks |-> t]
BodyWhole == \A e \in Id : obj[e].st \in {"complete", "requesting"} /\ obj[e].body # <<>> => Whole(obj[e].body)

(* A hit reads an entry in use to its end: evictions and the clearing of the
   cache spare it, and only a removal, which marks it as destroyed, cuts it
   off.  While connections follow each other; the closing of another hit of
   the same entry ends the use of this one. *)
Hit(t) == conn[t].ph \in {"hitheaders", "hitbody", "hitend", "hitfail"}
HitServed ==
  \A t \in Trans : Hit(t) =>
    StateOf(t) \in (IF conn[t].ph = "hitfail" THEN {"destroyed"} ELSE {"requesting", "destroyed"})

(* A 304 that the cache accepted is answered with the body from the cache: the
   RequestL that follows ResponseComplete finds an entry to serve.  Not if its
   headers could not be saved, nor if the entry went while the answer was on
   its way: then the 304 has made an entry without a body. *)
NotModifiedServed ==
  \A t \in Trans : conn[t].ph = "unserved" =>
    conn[t].ptr = Null \/ obj[conn[t].ptr].body = <<>>

-----------------------------------------------------------------------------
(* No connection uses an entry that was deleted behind its back: the pointer
   in THttpCacheEntry is read by BodyReceivedL, ResponseCompleteL, the supply's
   timer and CloseRequest without a lookup.  The code does not keep it: a
   complete entry that a 304 was about, or a response has filled, may be
   evicted before its connection is closed. *)
NoUseAfterFree == mode # "freed"

(* An accepted 304 always finds its body.  It does not if the entry was evicted
   while the answer was on its way. *)
AcceptedServed == \A t \in Trans : conn[t].ph = "unserved" => conn[t].ptr = Null
=============================================================================
