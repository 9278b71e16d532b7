----------------------- MODULE HttpCacheSupplyProofs -----------------------
(***************************************************************************)
(* Proofs about the transactions of one URL: the table stays sound for     *)
(* every set of connections, addresses and events; until an entry without  *)
(* a body comes to be, entries in use are released, and by nobody else;    *)
(* and if connections follow each other bodies are whole, and hits and     *)
(* accepted 304s are served, whatever is evicted in between.               *)
(***************************************************************************)
EXTENDS HttpCacheSupply, TLAPS

(* The parts of the first invariant. *)
Stored ==
  /\ tab = {e \in Id : obj[e].st # "free"}
  /\ IF tab = {} THEN first = Null ELSE first \in tab
StoreOK ==
  /\ obj \in [Id -> EntryRecord] /\ tab \subseteq Id /\ first \in Id \cup {Null}
  /\ Stored
ConnOK == conn \in [Trans -> Conn]
Sound == StoreOK /\ ConnOK /\ mode \in {"run", "freed"}

(* What is needed for Released, until an entry without a body comes to be: then
   the lookup never hides an entry, and there is one at most. *)
BodyFirst ==
  \A e \in Id : obj[e].body = <<>> => obj[e].st \in {"free", "responding", "destroyed"}
OneEntry == tab \subseteq {first}
NoneYet ==
  \A t \in Trans : conn[t].ph \in {"none", "sent"} =>
    conn[t].ptr = Null /\ ~conn[t].closed /\ conn[t].n = 0
Held == BodyFirst /\ OneEntry /\ NoneYet /\ AllReleased

LiveState == {"responding", "complete", "requesting", "destroyed"}

-----------------------------------------------------------------------------
(* The operations on the table keep it sound.                              *)

(* EraseCacheEntry: the slot goes with the entry. *)
LEMMA EraseSound ==
  ASSUME StoreOK, first # Null, EraseFirst
  PROVE  StoreOK'
<1>1. NoEntry \in EntryRecord
  BY DEF NoEntry, EntryRecord
<1>2. first \in tab
  BY NullAssumption DEF StoreOK, Stored
<1>3. obj' \in [Id -> EntryRecord] /\ tab' \subseteq Id /\ first' \in Id \cup {Null}
  BY <1>1, <1>2 DEF StoreOK, EraseFirst
<1>4. tab' = {e \in Id : obj'[e].st # "free"}
  BY <1>2 DEF StoreOK, Stored, EraseFirst, NoEntry
<1>5. IF tab' = {} THEN first' = Null ELSE first' \in tab'
  BY <1>2 DEF StoreOK, Stored, EraseFirst
<1>. QED
  BY <1>3, <1>4, <1>5 DEF StoreOK, Stored

(* DeleteCacheEntry: it does nothing when the lookup finds nothing. *)
LEMMA DeleteSound ==
  ASSUME StoreOK, DeleteCacheEntry
  PROVE  StoreOK'
<1>1. CASE first = Null
  BY <1>1 DEF DeleteCacheEntry, StoreOK, Stored
<1>2. CASE first # Null
  BY <1>2, EraseSound DEF DeleteCacheEntry
<1>. QED
  BY <1>1, <1>2

(* A live entry changes its state, its body or its flag. *)
LEMMA ChangeSound ==
  ASSUME StoreOK, NEW e \in Id, obj[e].st # "free",
         NEW r \in EntryRecord, r.st # "free",
         obj' = [obj EXCEPT ![e] = r], UNCHANGED <<tab, first>>
  PROVE  StoreOK'
<1>1. obj' \in [Id -> EntryRecord]
  BY DEF StoreOK
<1>2. tab' = {f \in Id : obj'[f].st # "free"}
  BY DEF StoreOK, Stored
<1>. QED
  BY <1>1, <1>2 DEF StoreOK, Stored

(* A live entry gets another state that is not "free". *)
LEMMA SetStateSound ==
  ASSUME StoreOK, NEW e \in Id, obj[e].st # "free", NEW st \in LiveState, SetState(e, st)
  PROVE  StoreOK'
<1>. DEFINE r == [obj[e] EXCEPT !.st = st]
<1>1. r \in EntryRecord /\ r.st # "free"
  BY DEF StoreOK, EntryRecord, LiveState
<1>2. obj' = [obj EXCEPT ![e] = r] /\ UNCHANGED <<tab, first>>
  BY DEF SetState
<1>. QED
  BY <1>1, <1>2, ChangeSound

(* InsertL stores a new entry. *)
LEMMA InsertSound ==
  ASSUME StoreOK, NEW e \in Id, NEW r \in EntryRecord, r.st # "free", Insert(e, r)
  PROVE  StoreOK'
<1>1. obj' \in [Id -> EntryRecord] /\ tab' \subseteq Id /\ first' \in Id \cup {Null}
  BY DEF StoreOK, Insert
<1>2. tab' = {f \in Id : obj'[f].st # "free"}
  BY DEF StoreOK, Stored, Insert
<1>3. first' \in tab'
  BY DEF StoreOK, Stored, Insert
<1>. QED
  BY <1>1, <1>2, <1>3 DEF StoreOK, Stored

(* What the lookup finds is an entry that was not deleted. *)
LEMMA FirstLive ==
  ASSUME StoreOK, first # Null
  PROVE  first \in Id /\ first \in tab /\ obj[first].st # "free"
BY DEF StoreOK, Stored

(* A connection's pointer that is neither null nor dangling. *)
LEMMA PtrLive ==
  ASSUME ConnOK, NEW t \in Trans, StateOf(t) \in LiveState
  PROVE  conn[t].ptr \in Id /\ obj[conn[t].ptr].st = StateOf(t) /\ conn[t].ptr # Null
<1>1. conn[t].ptr # Null
  BY DEF StateOf, LiveState
<1>2. conn[t].ptr \in Id \cup {Null}
  BY DEF ConnOK, Conn
<1>. QED
  BY <1>1, <1>2 DEF StateOf

(* A new entry has no body. *)
LEMMA NewEntryType ==
  ASSUME NEW st \in LiveState
  PROVE  LET r == [NoEntry EXCEPT !.st = st]
         IN r \in EntryRecord /\ r.st = st /\ r.body = <<>>
<1>1. NoEntry \in EntryRecord /\ NoEntry.body = <<>>
  BY DEF NoEntry, EntryRecord
<1>2. ASSUME NEW q \in EntryRecord
      PROVE  /\ [q EXCEPT !.st = st] \in EntryRecord
             /\ [q EXCEPT !.st = st].st = st /\ [q EXCEPT !.st = st].body = q.body
  BY DEF EntryRecord, LiveState
<1>. QED
  BY <1>1, <1>2

(* A connection that was not started has its type. *)
LEMMA NoConnType == NoConn \in Conn
BY NullAssumption, ChunkAssumption DEF NoConn, Conn

(* The use of a deleted entry ends the behaviour and changes nothing else. *)
LEMMA FreedSound ==
  ASSUME Sound, UsesFreed
  PROVE  Sound'
BY DEF Sound, StoreOK, Stored, ConnOK, UsesFreed

-----------------------------------------------------------------------------
(* Every action keeps the table sound.                                     *)

(* StartRequestL answered from the cache, or not. *)
LEMMA StartSound ==
  ASSUME Sound, NEW t \in Trans, StartHit(t) \/ StartMiss(t)
  PROVE  StoreOK' /\ ConnOK'
<1>. USE NoConnType DEF Sound
<1>1. CASE StartHit(t)
  <2>1. first # Null /\ obj[first].st # "free"
    BY <1>1 DEF StartHit, Complete, Visible
  <2>2. StoreOK'
    BY <1>1, <2>1, FirstLive, SetStateSound DEF StartHit, LiveState
  <2>3. [NoConn EXCEPT !.ph = "hitheaders", !.ptr = first] \in Conn
    BY <2>1, FirstLive DEF Conn
  <2>. QED
    BY <1>1, <2>2, <2>3 DEF StartHit, ConnOK
<1>2. CASE StartMiss(t)
  <2>1. StoreOK'
    BY <1>2 DEF StartMiss, StoreOK, Stored
  <2>2. PICK cond \in {FALSE, Complete} :
          conn' = [conn EXCEPT ![t] = [NoConn EXCEPT !.ph = "sent", !.cond = cond]]
    BY <1>2 DEF StartMiss
  <2>3. cond \in BOOLEAN
    BY <2>2 DEF Complete, Visible
  <2>4. [NoConn EXCEPT !.ph = "sent", !.cond = cond] \in Conn
    BY <2>3 DEF Conn
  <2>. QED
    BY <2>1, <2>2, <2>4 DEF ConnOK
<1>. QED
  BY <1>1, <1>2

(* HeadersReceivedL stores the pointer the handler returned. *)
LEMMA ReceivedType ==
  ASSUME ConnOK, NEW t \in Trans, NEW e \in Id \cup {Null}, NEW nm \in BOOLEAN, Received(t, e, nm)
  PROVE  ConnOK'
<1>1. [conn[t] EXCEPT !.ph = "body", !.ptr = e, !.nm = nm, !.cond = FALSE] \in Conn
  BY DEF ConnOK, Conn
<1>2. conn' = [conn EXCEPT ![t] = [conn[t] EXCEPT !.ph = "body", !.ptr = e, !.nm = nm, !.cond = FALSE]]
  BY DEF ConnOK, Received
<1>. QED
  BY <1>1, <1>2 DEF ConnOK

(* ReceivedResponseHeadersL. *)
LEMMA HeadersSound ==
  ASSUME Sound, NEW t \in Trans, HeadersReceived(t)
  PROVE  StoreOK' /\ ConnOK'
<1>. USE DEF Sound
<1>0. CASE HeadersLeave(t)
  <2>1. ConnOK'
    BY <1>0, ReceivedType DEF HeadersLeave
  <2>2. CASE Complete /\ SetState(first, "responding")
    <3>1. first \in Id /\ obj[first].st # "free"
      BY <2>2, FirstLive DEF Complete, Visible
    <3>. QED
      BY <2>1, <2>2, <3>1, SetStateSound DEF LiveState
  <2>3. CASE \E e \in Id : Insert(e, [NoEntry EXCEPT !.st = "responding"])
    <3>. DEFINE r == [NoEntry EXCEPT !.st = "responding"]
    <3>1. r \in EntryRecord /\ r.st # "free"
      BY NewEntryType DEF LiveState
    <3>. HIDE DEF r
    <3>2. StoreOK'
      BY <2>3, <3>1, InsertSound DEF r
    <3>. QED
      BY <2>1, <3>2
  <2>. QED
    BY <1>0, <2>1, <2>2, <2>3 DEF HeadersLeave
<1>1. SUFFICES ASSUME NEW nm \in {FALSE, conn[t].cond},
                      \/ HeadersUpdate(t, nm) \/ HeadersInsert(t, nm)
                      \/ HeadersRefused(t, nm) \/ OlderErased(t, nm) \/ HeadersIgnored(t, nm)
               PROVE  StoreOK' /\ ConnOK'
  BY <1>0 DEF HeadersReceived
<1>2. nm \in BOOLEAN
  BY DEF ConnOK, Conn
<1>3. CASE HeadersUpdate(t, nm)
  <2>1. first # Null
    BY <1>3 DEF HeadersUpdate, Complete, Visible
  <2>2. first \in Id /\ obj[first].st # "free"
    BY <2>1, FirstLive
  <2>3. ConnOK'
    BY <1>2, <1>3, <2>2, ReceivedType DEF HeadersUpdate
  <2>4. CASE SetState(first, "complete")
    BY <2>2, <2>3, <2>4, SetStateSound DEF LiveState
  <2>5. CASE /\ obj' = [obj EXCEPT ![first].st = "responding", ![first].del = TRUE]
             /\ UNCHANGED <<tab, first>>
    <3>. DEFINE r == [obj[first] EXCEPT !.st = "responding", !.del = TRUE]
    <3>1. r \in EntryRecord /\ r.st # "free"
      BY <2>2 DEF StoreOK, EntryRecord
    <3>2. obj' = [obj EXCEPT ![first] = r]
      BY <2>2, <2>5 DEF StoreOK
    <3>. QED
      BY <2>2, <2>3, <2>5, <3>1, <3>2, ChangeSound
  <2>. QED
    BY <1>3, <2>3, <2>4, <2>5 DEF HeadersUpdate
<1>4. CASE HeadersInsert(t, nm)
  <2>1. PICK e \in Id :
          /\ Insert(e, [NoEntry EXCEPT !.st = IF nm THEN "complete" ELSE "responding"])
          /\ Received(t, e, nm)
    BY <1>4 DEF HeadersInsert
  <2>. DEFINE r == [NoEntry EXCEPT !.st = IF nm THEN "complete" ELSE "responding"]
  <2>2. r \in EntryRecord /\ r.st # "free"
    <3>1. (IF nm THEN "complete" ELSE "responding") \in LiveState
      BY DEF LiveState
    <3>. QED
      BY <3>1, NewEntryType DEF LiveState
  <2>. HIDE DEF r
  <2>3. StoreOK'
    BY <2>1, <2>2, InsertSound DEF r
  <2>. QED
    BY <1>2, <2>1, <2>3, ReceivedType
<1>5. CASE HeadersRefused(t, nm)
  BY <1>2, <1>5, EraseSound, ReceivedType DEF HeadersRefused, Complete, Visible
<1>6. CASE OlderErased(t, nm)
  <2>1. PICK e \in Id :
          /\ Unused(e)
          /\ obj' = [obj EXCEPT ![first] = NoEntry, ![e] = [NoEntry EXCEPT !.st = "responding"]]
          /\ tab' = (tab \ {first}) \cup {e}
          /\ first' \in tab'
    BY <1>6 DEF OlderErased
  <2>2. first \in tab /\ first \in Id
    BY <1>6, FirstLive DEF OlderErased
  <2>3. NoEntry \in EntryRecord /\ [NoEntry EXCEPT !.st = "responding"] \in EntryRecord
        /\ NoEntry.st = "free" /\ [NoEntry EXCEPT !.st = "responding"].st = "responding"
    <3>1. NoEntry \in EntryRecord /\ NoEntry.st = "free"
      BY DEF NoEntry, EntryRecord
    <3>. QED
      BY <3>1, NewEntryType DEF LiveState
  <2>4. obj' \in [Id -> EntryRecord] /\ tab' \subseteq Id /\ first' \in Id
    BY <2>1, <2>2, <2>3 DEF StoreOK
  <2>5. tab' = {f \in Id : obj'[f].st # "free"}
    BY <2>1, <2>2, <2>3 DEF StoreOK, Stored
  <2>6. StoreOK'
    BY <2>1, <2>4, <2>5 DEF StoreOK, Stored
  <2>. QED
    BY <1>2, <1>6, <2>6, ReceivedType DEF OlderErased
<1>7. CASE HeadersIgnored(t, nm)
  BY <1>2, <1>7, ReceivedType DEF HeadersIgnored, StoreOK, Stored
<1>. QED
  BY <1>1, <1>3, <1>4, <1>5, <1>6, <1>7

(* The entry after a part of the body was saved. *)
LEMMA SavedBodyType ==
  ASSUME Sound, NEW t \in Trans, StateOf(t) = "responding"
  PROVE  /\ SavedBody(t) \in EntryRecord /\ SavedBody(t).st = "responding"
         /\ SavedBody(t).body # <<>>
<1>. DEFINE r == obj[conn[t].ptr]
            b == IF r.del THEN <<>> ELSE r.body
<1>1. r \in EntryRecord /\ r.st = "responding"
  BY PtrLive DEF Sound, StoreOK, LiveState
<1>2. r.body \in Seq(Trans) /\ <<>> \in Seq(Trans)
  BY <1>1 DEF EntryRecord
<1>3. b \in Seq(Trans)
  BY <1>2
<1>. DEFINE c == Append(b, t)
<1>4. c \in Seq(Trans) /\ c # <<>>
  <2>1. ASSUME NEW s \in Seq(Trans)
        PROVE  Append(s, t) \in Seq(Trans) /\ Len(Append(s, t)) = Len(s) + 1 /\ Len(s) \in Nat
    OBVIOUS
  <2>2. Len(c) # 0
    BY <1>3, <2>1
  <2>. QED
    BY <1>3, <2>1, <2>2
<1>5. SavedBody(t) = [r EXCEPT !.body = c, !.del = FALSE]
  BY DEF SavedBody
<1>. HIDE DEF r, c
<1>6. /\ [r EXCEPT !.body = c, !.del = FALSE] \in EntryRecord
      /\ [r EXCEPT !.body = c, !.del = FALSE].st = r.st
      /\ [r EXCEPT !.body = c, !.del = FALSE].body = c
  BY <1>1, <1>4 DEF EntryRecord
<1>. QED
  BY <1>1, <1>4, <1>5, <1>6

(* ReceivedResponseBodyDataL. *)
LEMMA BodySound ==
  ASSUME Sound, NEW t \in Trans, BodyReceived(t)
  PROVE  Sound'
<1>1. CASE Dangling(t) /\ UsesFreed
  BY <1>1, FreedSound
<1>. DEFINE n == conn[t].n + 1
<1>2. n \in 0..Chunks
  BY ChunkAssumption DEF BodyReceived, Sound, ConnOK, Conn
<1>3. ASSUME NEW c \in Conn
      PROVE  [c EXCEPT !.n = n] \in Conn /\ [c EXCEPT !.n = n, !.ptr = Null] \in Conn
  BY <1>2 DEF Conn
<1>4. ASSUME \/ conn' = [conn EXCEPT ![t].n = @ + 1]
             \/ conn' = [conn EXCEPT ![t].n = @ + 1, ![t].ptr = Null]
      PROVE  ConnOK'
  <2>. HIDE DEF n
  <2>1. conn[t] \in Conn
    BY DEF Sound, ConnOK
  <2>2. \/ conn' = [conn EXCEPT ![t] = [conn[t] EXCEPT !.n = n]]
        \/ conn' = [conn EXCEPT ![t] = [conn[t] EXCEPT !.n = n, !.ptr = Null]]
    BY <1>4 DEF n, Sound, ConnOK
  <2>. QED
    BY <1>3, <2>1, <2>2 DEF Sound, ConnOK
<1>5. CASE /\ StateOf(t) = "responding"
           /\ obj' = [obj EXCEPT ![conn[t].ptr] = SavedBody(t)]
           /\ conn' = [conn EXCEPT ![t].n = @ + 1]
           /\ UNCHANGED <<tab, first, mode>>
  <2>1. conn[t].ptr \in Id /\ obj[conn[t].ptr].st # "free"
    BY <1>5, PtrLive DEF Sound, LiveState
  <2>2. StoreOK'
    BY <1>5, <2>1, SavedBodyType, ChangeSound DEF Sound
  <2>. QED
    BY <1>4, <1>5, <2>2 DEF Sound
<1>6. CASE /\ DeleteCacheEntry /\ UNCHANGED mode
           /\ conn' = [conn EXCEPT ![t].n = @ + 1, ![t].ptr = Null]
  BY <1>4, <1>6, DeleteSound DEF Sound
<1>7. CASE /\ conn' = [conn EXCEPT ![t].n = @ + 1]
           /\ UNCHANGED <<obj, tab, first, mode>>
  BY <1>4, <1>7 DEF Sound, StoreOK, Stored
<1>. QED
  BY <1>1, <1>5, <1>6, <1>7 DEF BodyReceived

(* CHttpCacheHandler::ResponseComplete. *)
LEMMA CompleteSound ==
  ASSUME Sound, NEW t \in Trans, ResponseComplete(t)
  PROVE  StoreOK'
<1>1. CASE StateOf(t) = "responding" /\ SetState(conn[t].ptr, "complete")
  <2>1. conn[t].ptr \in Id /\ obj[conn[t].ptr].st # "free"
    BY <1>1, PtrLive DEF Sound, LiveState
  <2>. QED
    BY <1>1, <2>1, SetStateSound DEF Sound, LiveState
<1>2. CASE DeleteCacheEntry
  BY <1>2, DeleteSound DEF Sound
<1>3. CASE UNCHANGED <<obj, tab, first>>
  BY <1>3 DEF Sound, StoreOK, Stored
<1>. QED
  BY <1>1, <1>2, <1>3 DEF ResponseComplete

(* ResponseCompleteL: after a 200. *)
LEMMA CompleteLSound ==
  ASSUME Sound, NEW t \in Trans, ResponseCompleteL(t)
  PROVE  Sound'
<1>1. CASE UsesFreed
  BY <1>1, FreedSound
<1>2. CASE /\ ResponseComplete(t)
           /\ conn' = [conn EXCEPT ![t].ph = "done",
                          ![t].ptr = IF @ = Null \/ obj'[@].st = "free" THEN Null ELSE @]
           /\ UNCHANGED mode
  <2>. DEFINE p == IF conn[t].ptr = Null \/ obj'[conn[t].ptr].st = "free" THEN Null ELSE conn[t].ptr
  <2>1. conn[t] \in Conn /\ p \in Id \cup {Null}
    BY DEF Sound, ConnOK, Conn
  <2>2. conn' = [conn EXCEPT ![t] = [conn[t] EXCEPT !.ph = "done", !.ptr = p]]
    BY <1>2 DEF Sound, ConnOK
  <2>. HIDE DEF p
  <2>3. [conn[t] EXCEPT !.ph = "done", !.ptr = p] \in Conn
    BY <2>1 DEF Conn
  <2>. QED
    BY <1>2, <2>2, <2>3, CompleteSound DEF Sound, ConnOK
<1>. QED
  BY <1>1, <1>2 DEF ResponseCompleteL

(* ResponseCompleteL: after a 304. *)
LEMMA NotModifiedSound ==
  ASSUME Sound, NEW t \in Trans, NotModifiedL(t)
  PROVE  Sound'
<1>1. CASE UsesFreed
  BY <1>1, FreedSound
<1>2. CASE ~Dangling(t)
  <2>. DEFINE found == first' # Null /\ obj'[first'].st = "complete" /\ obj'[first'].body # <<>>
              left == IF conn[t].ptr = Null \/ obj'[conn[t].ptr].st = "free" THEN Null ELSE conn[t].ptr
              ph == IF found THEN "done" ELSE "unserved"
              p == IF found THEN first' ELSE left
  <2>0. UsesFreed \/ StoreOK'
    BY CompleteSound DEF NotModifiedL
  <2>1. CASE ~UsesFreed
    <3>1. StoreOK'
      BY <2>0, <2>1
    <3>2. conn[t] \in Conn /\ p \in Id \cup {Null} /\ found \in BOOLEAN /\ ph \in {"done", "unserved"}
      BY <3>1 DEF Sound, ConnOK, Conn, StoreOK
    <3>3. conn' = [conn EXCEPT ![t].ph = ph, ![t].ptr = p, ![t].closed = found] /\ UNCHANGED mode
      BY <2>1 DEF NotModifiedL
    <3>. HIDE DEF ph, p, found, left
    <3>4. conn' = [conn EXCEPT ![t] = [conn[t] EXCEPT !.ph = ph, !.ptr = p, !.closed = found]]
      BY <3>3 DEF Sound, ConnOK
    <3>5. [conn[t] EXCEPT !.ph = ph, !.ptr = p, !.closed = found] \in Conn
      BY <3>2 DEF Conn
    <3>. QED
      BY <3>1, <3>3, <3>4, <3>5 DEF Sound, ConnOK
  <2>. QED
    BY <2>1, <1>1
<1>. QED
  BY <1>1, <1>2 DEF NotModifiedL

(* SupplyResponseL only reads the entry. *)
LEMMA SupplySound ==
  ASSUME Sound, NEW t \in Trans, SupplyResponse(t)
  PROVE  Sound'
<1>1. CASE UsesFreed
  BY <1>1, FreedSound
<1>2. CASE ~UsesFreed
  <2>. DEFINE ph == IF StateOf(t) # "requesting" THEN "hitfail"
                    ELSE IF conn[t].ph = "hitheaders" THEN "hitbody" ELSE "hitend"
  <2>1. conn[t] \in Conn /\ ph \in {"hitfail", "hitbody", "hitend"}
    BY DEF Sound, ConnOK
  <2>2. conn' = [conn EXCEPT ![t] = [conn[t] EXCEPT !.ph = ph]] /\ UNCHANGED <<obj, tab, first, mode>>
    BY <1>2 DEF SupplyResponse, Sound, ConnOK
  <2>. HIDE DEF ph
  <2>3. [conn[t] EXCEPT !.ph = ph] \in Conn
    BY <2>1 DEF Conn
  <2>. QED
    BY <2>2, <2>3 DEF Sound, ConnOK, StoreOK, Stored
<1>. QED
  BY <1>1, <1>2

(* CloseRequest and RequestClosed. *)
LEMMA CloseSound ==
  ASSUME Sound, NEW t \in Trans, CloseRequest(t)
  PROVE  Sound'
<1>1. CASE UsesFreed
  BY <1>1, FreedSound
<1>2. CASE RequestClosed(t) /\ conn' = [conn EXCEPT ![t] = NoConn] /\ UNCHANGED mode
  <2>1. ConnOK'
    BY <1>2, NoConnType DEF Sound, ConnOK
  <2>2. CASE StateOf(t) = "requesting" /\ SetState(conn[t].ptr, "complete")
    <3>1. conn[t].ptr \in Id /\ obj[conn[t].ptr].st # "free"
      BY <2>2, PtrLive DEF Sound, LiveState
    <3>2. StoreOK'
      BY <2>2, <3>1, SetStateSound DEF Sound, LiveState
    <3>. QED
      BY <1>2, <2>1, <3>2 DEF Sound
  <2>3. CASE DeleteCacheEntry
    BY <1>2, <2>1, <2>3, DeleteSound DEF Sound
  <2>4. CASE UNCHANGED <<obj, tab, first>>
    BY <1>2, <2>1, <2>4 DEF Sound, StoreOK, Stored
  <2>. QED
    BY <1>2, <2>2, <2>3, <2>4 DEF RequestClosed
<1>. QED
  BY <1>1, <1>2 DEF CloseRequest

(* RemoveL, an eviction, RemoveAllL. *)
LEMMA RemovalSound ==
  ASSUME Sound, RemoveL \/ Evict \/ RemoveAllL
  PROVE  Sound'
<1>1. CASE RemoveL
  <2>1. first # Null
    BY <1>1 DEF RemoveL, Visible
  <2>2. first \in Id /\ obj[first].st # "free"
    BY <2>1, FirstLive DEF Sound
  <2>3. StoreOK'
    BY <1>1, <2>1, <2>2, EraseSound, SetStateSound DEF RemoveL, Sound, LiveState
  <2>. QED
    BY <1>1, <2>3 DEF RemoveL, Sound, ConnOK
<1>2. CASE Evict
  <2>1. StoreOK'
    BY <1>2, EraseSound DEF Evict, Sound
  <2>. QED
    BY <1>2, <2>1 DEF Evict, Sound, ConnOK
<1>3. CASE RemoveAllL
  <2>. DEFINE rest == {e \in tab : obj[e].st # "complete"}
  <2>1. NoEntry \in EntryRecord /\ NoEntry.st = "free"
    BY DEF NoEntry, EntryRecord
  <2>2. /\ obj' = [e \in Id |-> IF e \in rest THEN obj[e] ELSE NoEntry]
        /\ tab' = rest
        /\ first' \in (IF rest = {} THEN {Null} ELSE IF first \in rest THEN {first} ELSE rest)
        /\ UNCHANGED <<conn, mode>>
    BY <1>3 DEF RemoveAllL
  <2>3. rest \subseteq tab /\ tab \subseteq Id
    BY DEF Sound, StoreOK
  <2>4. \A e \in rest : obj[e].st # "free"
    BY DEF Sound, StoreOK, Stored
  <2>. HIDE DEF rest
  <2>5. obj' \in [Id -> EntryRecord] /\ tab' \subseteq Id /\ first' \in Id \cup {Null}
    BY <2>1, <2>2, <2>3 DEF Sound, StoreOK
  <2>6. tab' = {e \in Id : obj'[e].st # "free"}
    BY <2>1, <2>2, <2>3, <2>4
  <2>7. IF tab' = {} THEN first' = Null ELSE first' \in tab'
    BY <2>2
  <2>. QED
    BY <2>2, <2>5, <2>6, <2>7 DEF Sound, StoreOK, Stored, ConnOK
<1>. QED
  BY <1>1, <1>2, <1>3

(* CHttpCacheHandler starts with an empty table. *)
LEMMA SoundInit == Init => Sound
<1>1. NoEntry \in EntryRecord /\ NoEntry.st = "free"
  BY DEF NoEntry, EntryRecord
<1>. QED
  BY <1>1, NoConnType DEF Init, Sound, StoreOK, Stored, ConnOK

(* Every step keeps the table sound. *)
LEMMA SoundNext == Sound /\ [Next]_vars => Sound'
<1>. SUFFICES ASSUME Sound, [Next]_vars PROVE Sound'
  OBVIOUS
<1>1. CASE UNCHANGED vars
  BY <1>1 DEF vars, Sound, StoreOK, Stored, ConnOK
<1>2. ASSUME NEW t \in Trans, StartHit(t) \/ StartMiss(t) PROVE Sound'
  <2>1. UNCHANGED mode
    BY <1>2 DEF StartHit, StartMiss
  <2>. QED
    BY <1>2, <2>1, StartSound DEF Sound
<1>3. ASSUME NEW t \in Trans, HeadersReceived(t) PROVE Sound'
  <2>1. UNCHANGED mode
    BY <1>3 DEF HeadersReceived
  <2>. QED
    BY <1>3, <2>1, HeadersSound DEF Sound
<1>. QED
  BY <1>1, <1>2, <1>3, BodySound, CompleteLSound, NotModifiedSound, SupplySound, CloseSound,
     RemovalSound DEF Next

(* The first invariant. *)
LEMMA SoundAlways == Spec => []Sound
BY SoundInit, SoundNext, PTL DEF Spec

(* Whatever connections do at once and whatever fails, the table holds exactly
   the entries that were not deleted, and everything has its type. *)
THEOREM TableIsSound == Spec => []TableSound
<1>1. Init => emptied \in BOOLEAN
  BY DEF Init
<1>2. emptied \in BOOLEAN /\ [Next]_vars => (emptied \in BOOLEAN)'
  BY DEF Next, vars
<1>3. Sound /\ emptied \in BOOLEAN => TableSound
  BY DEF Sound, StoreOK, Stored, ConnOK, TableSound
<1>. QED
  BY <1>1, <1>2, <1>3, SoundAlways, PTL DEF Spec

-----------------------------------------------------------------------------
(* Until an entry without a body comes to be, entries in use are released.  *)

(* A live entry is the one the lookup finds. *)
LEMMA LiveIsFirst ==
  ASSUME Sound, Held, NEW e \in Id, obj[e].st # "free"
  PROVE  e = first /\ first # Null
<1>1. e \in tab
  BY DEF Sound, StoreOK, Stored
<1>. QED
  BY <1>1, NullAssumption DEF Held, OneEntry

(* When nothing is left there is nothing to release. *)
LEMMA NothingLeft ==
  ASSUME Sound', \A e \in Id : obj'[e].st = "free", NoneYet'
  PROVE  Held'
<1>1. tab' = {}
  BY DEF Sound, StoreOK, Stored
<1>2. BodyFirst' /\ OneEntry'
  BY <1>1 DEF BodyFirst, OneEntry
<1>3. AllReleased'
  BY DEF AllReleased, InUse
<1>. QED
  BY <1>2, <1>3 DEF Held

(* Erasing by URL erases the one entry there is. *)
LEMMA EraseLeavesNone ==
  ASSUME Sound, Held, EraseFirst, first # Null
  PROVE  \A e \in Id : obj'[e].st = "free"
<1>. SUFFICES ASSUME NEW e \in Id PROVE obj'[e].st = "free"
  OBVIOUS
<1>1. NoEntry.st = "free"
  BY DEF NoEntry
<1>2. obj' = [obj EXCEPT ![first] = NoEntry] /\ obj \in [Id -> EntryRecord] /\ first \in Id
  BY FirstLive DEF EraseFirst, Sound, StoreOK
<1>3. e # first => obj[e].st = "free"
  BY LiveIsFirst
<1>. QED
  BY <1>1, <1>2, <1>3

(* DeleteCacheEntry leaves no entry of the URL. *)
LEMMA DeleteLeavesNone ==
  ASSUME Sound, Held, DeleteCacheEntry
  PROVE  \A e \in Id : obj'[e].st = "free"
<1>1. CASE first = Null
  BY <1>1, LiveIsFirst DEF DeleteCacheEntry
<1>2. CASE first # Null
  BY <1>2, EraseLeavesNone DEF DeleteCacheEntry
<1>. QED
  BY <1>1, <1>2

(* Without entries that have no body, nothing in the table is hidden. *)
LEMMA NothingHidden ==
  ASSUME Sound, Held
  PROVE  Visible <=> first # Null
<1>1. ASSUME first # Null, obj[first].st = "complete", obj[first].body = <<>>
      PROVE  FALSE
  BY <1>1, FirstLive DEF Sound, Held, BodyFirst
<1>. QED
  BY <1>1 DEF Visible

(* A deleted entry is used, or nothing happens. *)
LEMMA FreedHeld ==
  ASSUME Held, UNCHANGED <<obj, tab, first, conn>>
  PROVE  Held'
BY DEF Held, BodyFirst, OneEntry, NoneYet, AllReleased, InUse, Releases

(* One connection takes a step: an entry in use is released by it, or by
   another one that would have released it before. *)
LEMMA OthersRelease ==
  ASSUME AllReleased, NEW t \in Trans, \A u \in Trans \ {t} : conn'[u] = conn[u],
         \A e \in Id : InUse(e)' => Releases(t, e)' \/ (InUse(e) /\ ~Releases(t, e))
  PROVE  AllReleased'
<1>. SUFFICES ASSUME NEW e \in Id, InUse(e)' PROVE \E u \in Trans : Releases(u, e)'
  BY DEF AllReleased
<1>1. CASE Releases(t, e)'
  BY <1>1
<1>2. CASE InUse(e) /\ ~Releases(t, e)
  <2>1. PICK u \in Trans : Releases(u, e)
    BY <1>2 DEF AllReleased
  <2>2. conn'[u] = conn[u]
    BY <1>2, <2>1
  <2>3. Releases(u, e)'
    BY <2>1, <2>2 DEF Releases
  <2>. QED
    BY <2>3
<1>. QED
  BY <1>1, <1>2

(* The connection that is answered from the cache releases the entry. *)
LEMMA StartHitHeld ==
  ASSUME Sound, Held, NEW t \in Trans, StartHit(t)
  PROVE  Held'
<1>. DEFINE c == [NoConn EXCEPT !.ph = "hitheaders", !.ptr = first]
            r == [obj[first] EXCEPT !.st = "requesting"]
<1>1. first # Null /\ first \in Id /\ obj[first].st = "complete" /\ obj[first].body # <<>>
  BY FirstLive DEF StartHit, Complete, Visible, Sound
<1>2. c.ph = "hitheaders" /\ c.ptr = first /\ c.closed = FALSE
  BY DEF NoConn
<1>3. r.st = "requesting" /\ r.body = obj[first].body
  BY <1>1 DEF Sound, StoreOK, EntryRecord
<1>4. obj' = [obj EXCEPT ![first] = r] /\ UNCHANGED <<tab, first>> /\ conn' = [conn EXCEPT ![t] = c]
  BY DEF StartHit, SetState
<1>. HIDE DEF c, r
<1>5. /\ \A e \in Id : obj'[e] = IF e = first THEN r ELSE obj[e]
      /\ \A u \in Trans : conn'[u] = IF u = t THEN c ELSE conn[u]
  BY <1>4 DEF Sound, StoreOK, ConnOK
<1>6. BodyFirst'
  BY <1>1, <1>3, <1>5 DEF Held, BodyFirst
<1>8. OneEntry' /\ NoneYet'
  BY <1>2, <1>4, <1>5 DEF Held, OneEntry, NoneYet
<1>9. AllReleased'
  <2>1. Releases(t, first)'
    BY <1>2, <1>4, <1>5 DEF Releases
  <2>2. \A e \in Id : InUse(e)' => Releases(t, e)' \/ (InUse(e) /\ ~Releases(t, e))
    <3>. SUFFICES ASSUME NEW e \in Id, InUse(e)', e # first PROVE InUse(e) /\ ~Releases(t, e)
      BY <1>4, <2>1
    <3>. QED
      BY <1>5 DEF InUse, Releases, StartHit
  <2>. QED
    BY <1>5, <2>2, OthersRelease DEF Held
<1>. QED
  BY <1>6, <1>8, <1>9 DEF Held

(* The connection that sends a request has no entry yet. *)
LEMMA StartMissHeld ==
  ASSUME Sound, Held, NEW t \in Trans, StartMiss(t)
  PROVE  Held'
<1>1. PICK cond \in {FALSE, Complete} :
        conn' = [conn EXCEPT ![t] = [NoConn EXCEPT !.ph = "sent", !.cond = cond]]
  BY DEF StartMiss
<1>. DEFINE c == [NoConn EXCEPT !.ph = "sent", !.cond = cond]
<1>2. c.ph = "sent" /\ c.ptr = Null /\ c.closed = FALSE /\ c.n = 0
  BY DEF NoConn
<1>. HIDE DEF c
<1>3. \A u \in Trans : conn'[u] = IF u = t THEN c ELSE conn[u]
  BY <1>1 DEF Sound, ConnOK, c
<1>4. UNCHANGED <<obj, tab, first>> /\ conn[t].ph = "none"
  BY DEF StartMiss
<1>5. BodyFirst' /\ OneEntry' /\ NoneYet'
  BY <1>2, <1>3, <1>4 DEF Held, BodyFirst, OneEntry, NoneYet
<1>7. AllReleased'
  <2>1. \A e \in Id : InUse(e)' => InUse(e) /\ ~Releases(t, e)
    BY <1>4 DEF InUse, Releases
  <2>. QED
    BY <1>3, <2>1, OthersRelease DEF Held
<1>. QED
  BY <1>5, <1>7 DEF Held

(* What ReceivedResponseHeadersL does to the connection. *)
LEMMA ReceivedConn ==
  ASSUME Sound, Held, NEW t \in Trans, conn[t].ph = "sent",
         NEW e \in Id \cup {Null}, NEW nm \in BOOLEAN, Received(t, e, nm)
  PROVE  /\ \A u \in Trans \ {t} : conn'[u] = conn[u]
         /\ conn'[t].ph = "body" /\ conn'[t].ptr = e /\ conn'[t].nm = nm
         /\ conn'[t].n = 0 /\ ~conn'[t].closed
         /\ NoneYet' /\ \A f \in Id : ~Releases(t, f)
<1>1. /\ conn[t] \in Conn /\ conn[t].ptr = Null /\ ~conn[t].closed /\ conn[t].n = 0
  BY DEF Sound, ConnOK, Held, NoneYet
<1>2. /\ conn' = [conn EXCEPT ![t] = [conn[t] EXCEPT !.ph = "body", !.ptr = e, !.nm = nm, !.cond = FALSE]]
      /\ conn \in [Trans -> Conn]
  BY DEF Received, Sound, ConnOK
<1>3. \A u \in Trans \ {t} : conn'[u] = conn[u]
  BY <1>2
<1>4. conn'[t] = [conn[t] EXCEPT !.ph = "body", !.ptr = e, !.nm = nm, !.cond = FALSE]
  BY <1>2
<1>5. /\ conn'[t].ph = "body" /\ conn'[t].ptr = e /\ conn'[t].nm = nm
      /\ conn'[t].n = 0 /\ ~conn'[t].closed
  BY <1>1, <1>4 DEF Conn
<1>6. NoneYet'
  BY <1>3, <1>5 DEF Held, NoneYet
<1>7. \A f \in Id : ~Releases(t, f)
  BY <1>1, NullAssumption DEF Releases
<1>. QED
  BY <1>3, <1>5, <1>6, <1>7

(* The stored entry is validated, or will be replaced. *)
LEMMA UpdateHeld ==
  ASSUME Sound, Held, NEW t \in Trans, conn[t].ph = "sent", NEW nm \in BOOLEAN, HeadersUpdate(t, nm)
  PROVE  Held'
<1>1. first # Null /\ first \in Id /\ obj[first].st = "complete" /\ obj[first].body # <<>>
  BY FirstLive DEF HeadersUpdate, Complete, Visible, Sound
<1>2. Received(t, first, nm) /\ UNCHANGED <<tab, first>>
  BY DEF HeadersUpdate, SetState
<1>3. /\ \A u \in Trans \ {t} : conn'[u] = conn[u]
      /\ conn'[t].ph = "body" /\ conn'[t].ptr = first /\ ~conn'[t].closed
      /\ NoneYet' /\ \A f \in Id : ~Releases(t, f)
  BY <1>1, <1>2, ReceivedConn
<1>4. /\ \A e \in Id \ {first} : obj'[e] = obj[e]
      /\ obj'[first].body = obj[first].body
  BY <1>1 DEF HeadersUpdate, SetState, Sound, StoreOK, EntryRecord
<1>5. BodyFirst'
  BY <1>1, <1>4 DEF Held, BodyFirst
<1>7. OneEntry'
  BY <1>2 DEF Held, OneEntry
<1>8. AllReleased'
  <2>1. Releases(t, first)'
    BY <1>2, <1>3 DEF Releases
  <2>2. \A e \in Id : InUse(e)' => Releases(t, e)' \/ (InUse(e) /\ ~Releases(t, e))
    <3>. SUFFICES ASSUME NEW e \in Id, InUse(e)', e # first PROVE InUse(e) /\ ~Releases(t, e)
      BY <1>2, <2>1
    <3>. QED
      BY <1>3, <1>4 DEF InUse
  <2>. QED
    BY <1>3, <2>2, OthersRelease DEF Held
<1>. QED
  BY <1>3, <1>5, <1>7, <1>8 DEF Held

(* A new entry is inserted into a table that had none. *)
LEMMA InsertHeld ==
  ASSUME Sound, Held, \A f \in Id : ~HidesBody(obj'[f]), NEW t \in Trans, conn[t].ph = "sent",
         NEW nm \in BOOLEAN, HeadersInsert(t, nm)
  PROVE  Held'
<1>0. ~nm
  <2>1. SUFFICES ASSUME nm PROVE FALSE
    OBVIOUS
  <2>2. PICK e \in Id : Insert(e, [NoEntry EXCEPT !.st = "complete"])
    BY <2>1 DEF HeadersInsert
  <2>. DEFINE r == [NoEntry EXCEPT !.st = "complete"]
  <2>3. r.st = "complete" /\ r.body = <<>>
    BY NewEntryType DEF LiveState
  <2>. HIDE DEF r
  <2>4. obj'[e] = r
    BY <2>2 DEF Insert, Sound, StoreOK, r
  <2>. QED
    BY <2>3, <2>4 DEF HidesBody
<1>1. first = Null /\ ~nm
  BY <1>0, NothingHidden DEF HeadersInsert
<1>2. PICK e \in Id : Insert(e, [NoEntry EXCEPT !.st = "responding"]) /\ Received(t, e, nm)
  BY <1>1 DEF HeadersInsert
<1>. DEFINE r == [NoEntry EXCEPT !.st = "responding"]
<1>3. r.st = "responding"
  BY NewEntryType DEF LiveState
<1>4. /\ obj' = [obj EXCEPT ![e] = r] /\ tab' = tab \cup {e} /\ first' = e
      /\ \A u \in Trans : conn[u].ptr # e
  BY <1>1, <1>2 DEF Insert, Unused
<1>. HIDE DEF r
<1>5. /\ \A u \in Trans \ {t} : conn'[u] = conn[u]
      /\ conn'[t].ph = "body" /\ conn'[t].ptr = e /\ conn'[t].nm = nm
      /\ conn'[t].n = 0 /\ ~conn'[t].closed
      /\ NoneYet' /\ \A f \in Id : ~Releases(t, f)
  BY <1>2, ReceivedConn
<1>6. /\ obj'[e] = r /\ \A f \in Id \ {e} : obj'[f] = obj[f]
  BY <1>4 DEF Sound, StoreOK
<1>7. tab = {}
  BY <1>1, NullAssumption DEF Sound, StoreOK, Stored, Held, OneEntry
<1>8. BodyFirst'
  BY <1>3, <1>6 DEF Held, BodyFirst
<1>10. OneEntry'
  BY <1>4, <1>7 DEF OneEntry
<1>11. AllReleased'
  <2>1. Releases(t, e)'
    BY <1>5 DEF Releases
  <2>2. \A f \in Id : InUse(f)' => Releases(t, f)' \/ (InUse(f) /\ ~Releases(t, f))
    <3>. SUFFICES ASSUME NEW f \in Id, InUse(f)', f # e PROVE InUse(f) /\ ~Releases(t, f)
      BY <2>1
    <3>. QED
      BY <1>5, <1>6 DEF InUse
  <2>. QED
    BY <1>5, <2>2, OthersRelease DEF Held
<1>. QED
  BY <1>5, <1>8, <1>10, <1>11 DEF Held

(* The headers are not saved, and the connection points to nothing. *)
LEMMA HeadersHeld ==
  ASSUME Sound, Held, Sound', \A f \in Id : ~HidesBody(obj'[f]), ~Leaves,
         NEW t \in Trans, HeadersReceived(t)
  PROVE  Held'
<1>1. PICK nm \in {FALSE, conn[t].cond} :
        \/ HeadersUpdate(t, nm) \/ HeadersInsert(t, nm)
        \/ HeadersRefused(t, nm) \/ OlderErased(t, nm) \/ HeadersIgnored(t, nm)
  BY DEF HeadersReceived, HeadersLeave
<1>2. nm \in BOOLEAN /\ conn[t].ph = "sent"
  BY <1>1 DEF HeadersReceived, Sound, ConnOK, Conn
<1>3. CASE HeadersUpdate(t, nm)
  BY <1>2, <1>3, UpdateHeld
<1>4. CASE HeadersInsert(t, nm)
  BY <1>2, <1>4, InsertHeld
<1>5. CASE HeadersRefused(t, nm)
  <2>1. NoneYet'
    BY <1>2, <1>5, ReceivedConn DEF HeadersRefused
  <2>. QED
    BY <1>5, <2>1, EraseLeavesNone, NothingLeft DEF HeadersRefused, Complete, Visible
<1>6. CASE OlderErased(t, nm)
  BY <1>6, NothingHidden DEF OlderErased
<1>7. CASE HeadersIgnored(t, nm)
  <2>1. /\ \A u \in Trans \ {t} : conn'[u] = conn[u]
        /\ conn'[t].ptr = Null /\ NoneYet' /\ \A f \in Id : ~Releases(t, f)
    BY <1>2, <1>7, ReceivedConn DEF HeadersIgnored
  <2>2. UNCHANGED <<obj, tab, first>>
    BY <1>7 DEF HeadersIgnored
  <2>3. BodyFirst' /\ OneEntry'
    BY <2>2 DEF Held, BodyFirst, OneEntry
  <2>5. \A e \in Id : InUse(e)' => InUse(e) /\ ~Releases(t, e)
    BY <2>1, <2>2 DEF InUse
  <2>6. AllReleased'
    BY <2>1, <2>5, OthersRelease DEF Held
  <2>. QED
    BY <2>1, <2>3, <2>6 DEF Held
<1>. QED
  BY <1>1, <1>3, <1>4, <1>5, <1>6, <1>7

(* A step of one connection that leaves the entries alone: it still releases
   what it would have released. *)
LEMMA SameStore ==
  ASSUME Held, NEW t \in Trans, \A u \in Trans \ {t} : conn'[u] = conn[u],
         UNCHANGED <<obj, tab, first>>, NoneYet',
         \A e \in Id : InUse(e) /\ Releases(t, e) => Releases(t, e)'
  PROVE  Held'
<1>1. BodyFirst' /\ OneEntry'
  BY DEF Held, BodyFirst, OneEntry
<1>3. \A e \in Id : InUse(e)' => Releases(t, e)' \/ (InUse(e) /\ ~Releases(t, e))
  BY DEF InUse
<1>4. AllReleased'
  BY <1>3, OthersRelease DEF Held
<1>. QED
  BY <1>1, <1>4 DEF Held

(* The one entry becomes complete: nothing is in use. *)
LEMMA CompletedHeld ==
  ASSUME Sound, Held, NEW e \in Id, obj[e].st # "free", obj[e].body # <<>>,
         SetState(e, "complete"), NoneYet'
  PROVE  Held'
<1>. DEFINE r == [obj[e] EXCEPT !.st = "complete"]
<1>1. r.st = "complete" /\ r.body = obj[e].body
  BY DEF Sound, StoreOK, EntryRecord
<1>2. obj' = [obj EXCEPT ![e] = r] /\ UNCHANGED <<tab, first>>
  BY DEF SetState
<1>. HIDE DEF r
<1>3. \A f \in Id : obj'[f] = IF f = e THEN r ELSE obj[f]
  BY <1>2 DEF Sound, StoreOK
<1>4. \A f \in Id : obj'[f].st \in {"free", "complete"}
  <2>1. \A f \in Id : f # e => obj[f].st = "free"
    BY LiveIsFirst
  <2>. QED
    BY <1>1, <1>3, <2>1
<1>5. BodyFirst'
  BY <1>1, <1>3 DEF Held, BodyFirst
<1>6. AllReleased'
  BY <1>4 DEF AllReleased, InUse
<1>7. OneEntry'
  BY <1>2 DEF Held, OneEntry
<1>. QED
  BY <1>5, <1>6, <1>7 DEF Held

(* ReceivedResponseBodyDataL: the entry has a body now, or is deleted. *)
LEMMA BodyHeld ==
  ASSUME Sound, Held, Sound', NEW t \in Trans, BodyReceived(t)
  PROVE  Held'
<1>. DEFINE e == conn[t].ptr
<1>0. conn[t].ph = "body" /\ conn \in [Trans -> Conn] /\ conn[t] \in Conn
  BY DEF BodyReceived, Sound, ConnOK
<1>1. CASE UsesFreed
  BY <1>1, FreedHeld DEF UsesFreed
<1>2. ASSUME conn' = [conn EXCEPT ![t].n = @ + 1]
      PROVE  /\ \A u \in Trans : /\ conn'[u].ph = conn[u].ph /\ conn'[u].ptr = conn[u].ptr
                                  /\ conn'[u].closed = conn[u].closed /\ conn'[u].nm = conn[u].nm
             /\ \A u \in Trans \ {t} : conn'[u] = conn[u]
             /\ NoneYet'
  <2>1. /\ \A u \in Trans : /\ conn'[u].ph = conn[u].ph /\ conn'[u].ptr = conn[u].ptr
                           /\ conn'[u].closed = conn[u].closed /\ conn'[u].nm = conn[u].nm
        /\ \A u \in Trans \ {t} : conn'[u] = conn[u]
    BY <1>0, <1>2 DEF Conn
  <2>. QED
    BY <1>0, <2>1 DEF Held, NoneYet
<1>3. CASE /\ StateOf(t) = "responding"
           /\ obj' = [obj EXCEPT ![e] = SavedBody(t)]
           /\ conn' = [conn EXCEPT ![t].n = @ + 1]
           /\ UNCHANGED <<tab, first>>
  <2>1. e \in Id /\ obj[e].st = "responding"
    BY <1>3, PtrLive DEF Sound, LiveState
  <2>2. SavedBody(t).st = "responding" /\ SavedBody(t).body # <<>>
    BY <1>3, SavedBodyType
  <2>3. obj'[e] = SavedBody(t) /\ \A f \in Id \ {e} : obj'[f] = obj[f]
    BY <1>3, <2>1 DEF Sound, StoreOK
  <2>. HIDE DEF e
  <2>4. \A f \in Id \ {e} : obj[f].st = "free"
    BY <2>1, LiveIsFirst
  <2>5. BodyFirst' /\ OneEntry'
    BY <1>3, <2>2, <2>3, <2>4 DEF Held, BodyFirst, OneEntry
  <2>6. \A f \in Id : InUse(f)' => InUse(f)
    BY <2>1, <2>3, <2>4 DEF InUse
  <2>7. \A f \in Id, u \in Trans : Releases(u, f) => Releases(u, f)'
    BY <1>2, <1>3 DEF Releases
  <2>8. AllReleased'
    BY <2>6, <2>7 DEF Held, AllReleased
  <2>. QED
    BY <1>2, <1>3, <2>5, <2>8 DEF Held
<1>4. CASE /\ DeleteCacheEntry
           /\ conn' = [conn EXCEPT ![t].n = @ + 1, ![t].ptr = Null]
  <2>1. conn'[t].ph = "body" /\ \A u \in Trans \ {t} : conn'[u] = conn[u]
    BY <1>0, <1>4 DEF Conn
  <2>2. NoneYet'
    BY <2>1 DEF Held, NoneYet
  <2>. QED
    BY <1>4, <2>2, DeleteLeavesNone, NothingLeft
<1>5. CASE /\ StateOf(t) \notin {"free", "responding"}
           /\ conn' = [conn EXCEPT ![t].n = @ + 1]
           /\ UNCHANGED <<obj, tab, first>>
  <2>1. \A f \in Id : conn'[t].ptr = f => obj[f].st # "responding"
    BY <1>2, <1>5, NullAssumption DEF StateOf
  <2>2. \A f \in Id : Releases(t, f) => Releases(t, f)'
    BY <1>2, <1>5 DEF Releases
  <2>. QED
    BY <1>2, <1>5, <2>1, <2>2, SameStore
<1>. QED
  BY <1>1, <1>3, <1>4, <1>5 DEF BodyReceived

(* ResponseComplete: the entry that becomes complete has got its body, the one
   that was marked is deleted. *)
LEMMA ResponseHeld ==
  ASSUME Sound, Held, Sound', \A f \in Id : ~HidesBody(obj'[f]),
         NEW t \in Trans, AllReceived(t), ResponseComplete(t), NoneYet',
         ~(StateOf(t) \in {"none", "complete", "requesting"} /\ UNCHANGED <<obj, tab, first>>)
  PROVE  Held'
<1>. DEFINE e == conn[t].ptr
<1>1. CASE StateOf(t) = "responding" /\ SetState(e, "complete")
  <2>1. e \in Id /\ obj[e].st = "responding"
    BY <1>1, PtrLive DEF Sound, LiveState
  <2>. DEFINE r == [obj[e] EXCEPT !.st = "complete"]
  <2>2. r.st = "complete" /\ r.body = obj[e].body
    BY <2>1 DEF Sound, StoreOK, EntryRecord
  <2>4. obj' = [obj EXCEPT ![e] = r]
    BY <1>1 DEF SetState
  <2>. HIDE DEF r
  <2>5. obj'[e] = r
    BY <2>1, <2>4 DEF Sound, StoreOK
  <2>3. obj[e].body # <<>>
    BY <2>1, <2>2, <2>5 DEF HidesBody
  <2>. QED
    BY <1>1, <2>1, <2>3, CompletedHeld
<1>2. CASE DeleteCacheEntry
  BY <1>2, DeleteLeavesNone, NothingLeft
<1>. QED
  BY <1>1, <1>2 DEF ResponseComplete

(* ResponseCompleteL after a 200. *)
LEMMA CompleteLHeld ==
  ASSUME Sound, Held, Sound', \A f \in Id : ~HidesBody(obj'[f]),
         NEW t \in Trans, ResponseCompleteL(t)
  PROVE  Held'
<1>1. CASE UsesFreed
  BY <1>1, FreedHeld DEF UsesFreed
<1>2. CASE /\ ~Dangling(t) /\ ResponseComplete(t)
           /\ conn' = [conn EXCEPT ![t].ph = "done",
                          ![t].ptr = IF @ = Null \/ obj'[@].st = "free" THEN Null ELSE @]
  <2>. DEFINE p == IF conn[t].ptr = Null \/ obj'[conn[t].ptr].st = "free" THEN Null ELSE conn[t].ptr
  <2>1. conn[t] \in Conn /\ conn \in [Trans -> Conn]
    BY DEF Sound, ConnOK
  <2>2. conn' = [conn EXCEPT ![t] = [conn[t] EXCEPT !.ph = "done", !.ptr = p]]
    BY <1>2, <2>1
  <2>. HIDE DEF p
  <2>3. /\ \A u \in Trans \ {t} : conn'[u] = conn[u]
        /\ conn'[t].ph = "done" /\ conn'[t].ptr = p /\ conn'[t].closed = conn[t].closed
    BY <2>1, <2>2 DEF Conn
  <2>4. NoneYet'
    BY <2>3 DEF Held, NoneYet
  <2>5. CASE StateOf(t) \in {"none", "complete", "requesting"} /\ UNCHANGED <<obj, tab, first>>
    <3>1. p = conn[t].ptr
      BY <1>2, <2>5 DEF p, Dangling, StateOf
    <3>2. \A e \in Id : conn'[t].ptr = e => obj[e].st # "responding"
      BY <2>3, <2>5, <3>1, NullAssumption DEF StateOf
    <3>3. \A e \in Id : Releases(t, e) => Releases(t, e)'
      BY <2>3, <3>1 DEF Releases
    <3>. QED
      BY <2>3, <2>4, <2>5, <3>2, <3>3, SameStore
  <2>. QED
    BY <1>2, <2>4, <2>5, ResponseHeld DEF ResponseCompleteL
<1>. QED
  BY <1>1, <1>2 DEF ResponseCompleteL

(* ResponseCompleteL after a 304: the supply that was closed at once had found
   the only entry complete, and so released. *)
LEMMA NotModifiedHeld ==
  ASSUME Sound, Held, Sound', \A f \in Id : ~HidesBody(obj'[f]),
         NEW t \in Trans, NotModifiedL(t)
  PROVE  Held'
<1>1. CASE UsesFreed
  BY <1>1, FreedHeld DEF UsesFreed
<1>. DEFINE found == first' # Null /\ obj'[first'].st = "complete" /\ obj'[first'].body # <<>>
            left == IF conn[t].ptr = Null \/ obj'[conn[t].ptr].st = "free" THEN Null ELSE conn[t].ptr
            ph == IF found THEN "done" ELSE "unserved"
            p == IF found THEN first' ELSE left
<1>2. CASE /\ ~Dangling(t) /\ ResponseComplete(t)
           /\ conn' = [conn EXCEPT ![t].ph = ph, ![t].ptr = p, ![t].closed = found]
  <2>1. conn[t] \in Conn /\ conn \in [Trans -> Conn] /\ ph \in {"done", "unserved"}
    BY DEF Sound, ConnOK
  <2>. HIDE DEF ph, p, found
  <2>2. conn' = [conn EXCEPT ![t] = [conn[t] EXCEPT !.ph = ph, !.ptr = p, !.closed = found]]
    BY <1>2, <2>1
  <2>3. /\ \A u \in Trans \ {t} : conn'[u] = conn[u]
        /\ conn'[t].ph = ph /\ conn'[t].ptr = p /\ conn'[t].closed = found
    BY <2>1, <2>2 DEF Conn
  <2>4. NoneYet'
    BY <2>1, <2>3 DEF Held, NoneYet
  <2>5. CASE /\ StateOf(t) \in {"none", "complete", "requesting"}
             /\ UNCHANGED <<obj, tab, first>>
    <3>1. CASE found
      <4>1. first # Null /\ obj[first].st = "complete"
        BY <2>5, <3>1 DEF found
      <4>2. \A e \in Id : obj[e].st \in {"free", "complete"}
        BY <4>1, LiveIsFirst
      <4>3. BodyFirst' /\ OneEntry'
        BY <2>5 DEF Held, BodyFirst, OneEntry
      <4>4. AllReleased'
        BY <2>5, <4>2 DEF AllReleased, InUse
      <4>. QED
        BY <2>4, <4>3, <4>4 DEF Held
    <3>2. CASE ~found
      <4>1. p = conn[t].ptr
        BY <1>2, <2>5, <3>2 DEF p, left, Dangling, StateOf
      <4>2. \A e \in Id : conn'[t].ptr = e => obj[e].st # "responding"
        BY <2>3, <2>5, <4>1, NullAssumption DEF StateOf
      <4>3. \A e \in Id : Releases(t, e) => Releases(t, e)'
        BY <2>1, <2>3, <3>2, <4>1 DEF Releases
      <4>. QED
        BY <2>3, <2>4, <2>5, <4>2, <4>3, SameStore
    <3>. QED
      BY <3>1, <3>2
  <2>. QED
    BY <1>2, <2>4, <2>5, ResponseHeld DEF NotModifiedL
<1>. QED
  BY <1>1, <1>2 DEF NotModifiedL

(* SupplyResponseL only reads. *)
LEMMA SupplyHeld ==
  ASSUME Sound, Held, NEW t \in Trans, SupplyResponse(t)
  PROVE  Held'
<1>1. CASE UsesFreed
  BY <1>1, FreedHeld DEF UsesFreed
<1>. DEFINE ph == IF StateOf(t) # "requesting" THEN "hitfail"
                  ELSE IF conn[t].ph = "hitheaders" THEN "hitbody" ELSE "hitend"
<1>2. CASE conn' = [conn EXCEPT ![t].ph = ph] /\ UNCHANGED <<obj, tab, first>>
  <2>1. conn[t] \in Conn /\ conn \in [Trans -> Conn] /\ ph \in {"hitfail", "hitbody", "hitend"}
    BY DEF Sound, ConnOK
  <2>. HIDE DEF ph
  <2>2. conn' = [conn EXCEPT ![t] = [conn[t] EXCEPT !.ph = ph]]
    BY <1>2, <2>1
  <2>3. /\ \A u \in Trans \ {t} : conn'[u] = conn[u]
        /\ conn'[t].ph = ph /\ conn'[t].ptr = conn[t].ptr /\ conn'[t].closed = conn[t].closed
    BY <2>1, <2>2 DEF Conn
  <2>4. NoneYet'
    BY <2>1, <2>3 DEF Held, NoneYet
  <2>5. \A u \in Trans, e \in Id : Releases(u, e) => Releases(u, e)'
    BY <2>1, <2>3 DEF Releases
  <2>6. AllReleased'
    BY <1>2, <2>5 DEF Held, AllReleased, InUse
  <2>7. conn[t].ph # "body" /\ \A u \in Trans : conn'[u].ptr = conn[u].ptr
    BY <2>3 DEF SupplyResponse
  <2>9. BodyFirst' /\ OneEntry'
    BY <1>2 DEF Held, BodyFirst, OneEntry
  <2>. QED
    BY <2>4, <2>6, <2>9 DEF Held
<1>. QED
  BY <1>1, <1>2 DEF SupplyResponse

(* RequestClosed: the connection releases its entry. *)
LEMMA CloseHeld ==
  ASSUME Sound, Held, Sound', NEW t \in Trans, CloseRequest(t)
  PROVE  Held'
<1>1. CASE UsesFreed
  BY <1>1, FreedHeld DEF UsesFreed
<1>2. CASE RequestClosed(t) /\ conn' = [conn EXCEPT ![t] = NoConn]
  <2>. DEFINE st == IF conn[t].closed THEN "none" ELSE StateOf(t)
  <2>1. /\ \A u \in Trans \ {t} : conn'[u] = conn[u]
        /\ conn'[t].ptr = Null /\ ~conn'[t].closed /\ conn'[t].n = 0
    BY <1>2 DEF Sound, ConnOK, NoConn
  <2>2. NoneYet'
    BY <2>1 DEF Held, NoneYet
  <2>3. CASE st = "requesting" /\ SetState(conn[t].ptr, "complete")
    <3>1. conn[t].ptr \in Id /\ obj[conn[t].ptr].st = "requesting"
      BY <2>3, PtrLive DEF Sound, LiveState
    <3>2. obj[conn[t].ptr].body # <<>>
      BY <3>1 DEF Held, BodyFirst
    <3>. QED
      BY <2>2, <2>3, <3>1, <3>2, CompletedHeld
  <2>4. CASE DeleteCacheEntry
    BY <2>2, <2>4, DeleteLeavesNone, NothingLeft
  <2>5. CASE st \in {"none", "complete"} /\ UNCHANGED <<obj, tab, first>>
    <3>1. \A e \in Id : ~(InUse(e) /\ Releases(t, e))
      BY <2>5, NullAssumption DEF InUse, Releases, StateOf
    <3>. QED
      BY <2>1, <2>2, <2>5, <3>1, NullAssumption, SameStore
  <2>. QED
    BY <1>2, <2>3, <2>4, <2>5 DEF RequestClosed
<1>. QED
  BY <1>1, <1>2 DEF CloseRequest

(* RemoveL marks an entry in use; the others delete only complete entries. *)
LEMMA RemovalHeld ==
  ASSUME Sound, Held, Sound', RemoveL \/ Evict \/ RemoveAllL
  PROVE  Held'
<1>1. UNCHANGED conn
  BY DEF RemoveL, Evict, RemoveAllL
<1>2. NoneYet' /\ \A u \in Trans, e \in Id : Releases(u, e) => Releases(u, e)'
  BY <1>1 DEF Held, NoneYet, Releases
<1>3. CASE EraseFirst /\ first # Null
  BY <1>2, <1>3, EraseLeavesNone, NothingLeft
<1>4. CASE RemoveL /\ ~Complete
  <2>. DEFINE r == [obj[first] EXCEPT !.st = "destroyed"]
  <2>1. first \in Id /\ InUse(first) /\ obj[first].st # "free"
    <3>1. first # Null /\ obj[first].st # "complete"
      BY <1>4 DEF RemoveL, Complete, Visible
    <3>. QED
      BY <3>1, FirstLive DEF Sound, StoreOK, EntryRecord, InUse
  <2>2. r.st = "destroyed"
    BY <2>1 DEF Sound, StoreOK, EntryRecord
  <2>3. obj' = [obj EXCEPT ![first] = r] /\ UNCHANGED <<tab, first>>
    BY <1>4 DEF RemoveL, SetState
  <2>. HIDE DEF r
  <2>4. \A e \in Id : obj'[e] = IF e = first THEN r ELSE obj[e]
    BY <2>3 DEF Sound, StoreOK
  <2>5. \A e \in Id : e # first => obj[e].st = "free"
    BY LiveIsFirst
  <2>6. BodyFirst' /\ OneEntry'
    BY <2>2, <2>3, <2>4, <2>5 DEF Held, BodyFirst, OneEntry
  <2>7. \A e \in Id : InUse(e)' => InUse(e)
    BY <2>1, <2>4 DEF InUse
  <2>8. AllReleased'
    BY <1>2, <2>7 DEF Held, AllReleased
  <2>. QED
    BY <1>2, <2>6, <2>8 DEF Held
<1>5. CASE RemoveAllL
  <2>. DEFINE rest == {e \in tab : obj[e].st # "complete"}
  <2>1. /\ obj' = [e \in Id |-> IF e \in rest THEN obj[e] ELSE NoEntry]
        /\ tab' = rest
        /\ first' \in (IF rest = {} THEN {Null} ELSE IF first \in rest THEN {first} ELSE rest)
    BY <1>5 DEF RemoveAllL
  <2>2. rest \subseteq {first}
    BY DEF Held, OneEntry
  <2>3. NoEntry.st = "free"
    BY DEF NoEntry
  <2>. HIDE DEF rest
  <2>4. OneEntry'
    BY <2>1, <2>2 DEF OneEntry
  <2>5. \A e \in Id : obj'[e] = obj[e] \/ obj'[e].st = "free"
    BY <2>1, <2>3
  <2>6. BodyFirst'
    BY <1>1, <2>5 DEF Held, BodyFirst
  <2>7. \A e \in Id : InUse(e)' => InUse(e)
    BY <2>5 DEF InUse
  <2>8. AllReleased'
    BY <1>2, <2>7 DEF Held, AllReleased
  <2>. QED
    BY <1>2, <2>4, <2>6, <2>8 DEF Held
<1>. QED
  BY <1>3, <1>4, <1>5 DEF RemoveL, Evict, Complete, Visible

(* The cache is empty and no connection is open. *)
LEMMA HeldInit == Init => Held
<1>1. NoEntry.st = "free" /\ NoConn.ptr = Null /\ NoConn.closed = FALSE /\ NoConn.n = 0
  BY DEF NoEntry, NoConn
<1>. QED
  BY <1>1 DEF Init, Held, BodyFirst, OneEntry, NoneYet, AllReleased, InUse

(* Until an entry without a body comes to be, every step keeps the second
   invariant. *)
LEMMA HeldNext ==
  ASSUME ~Leaves
  PROVE  Sound /\ Sound' /\ (~emptied => Held) /\ [Next]_vars => (~emptied => Held)'
<1>. SUFFICES ASSUME Sound, Sound', ~emptied => Held, [Next]_vars, ~emptied' PROVE Held'
  OBVIOUS
<1>1. CASE UNCHANGED vars
  BY <1>1, FreedHeld DEF vars
<1>2. CASE Next
  <2>1. ~emptied /\ \A f \in Id : ~HidesBody(obj'[f])
    BY <1>2 DEF Next
  <2>. QED
    BY <1>2, <2>1, StartHitHeld, StartMissHeld, HeadersHeld, BodyHeld, CompleteLHeld,
       NotModifiedHeld, SupplyHeld, CloseHeld, RemovalHeld DEF Next
<1>. QED
  BY <1>1, <1>2

(* The second invariant. *)
LEMMA HeldAlways ==
  ASSUME ~Leaves
  PROVE  Spec => [](~emptied => Held)
<1>1. Init => (~emptied => Held)
  BY HeldInit
<1>. QED
  BY <1>1, HeldNext, SoundAlways, PTL DEF Spec

(* Until an entry without a body comes to be, whatever connections share,
   whatever cannot be saved and whatever is evicted, an entry in use is the
   entry of a connection that will release it: none stays out of reach of later
   requests and evictions. *)
THEOREM EntriesReleased ==
  ASSUME ~Leaves
  PROVE  Spec => []Released
<1>1. (~emptied => Held) => Released
  BY DEF Held, Released
<1>. QED
  BY <1>1, HeldAlways, PTL

-----------------------------------------------------------------------------
(* The use of an entry                                                      *)

(* As long as the second invariant holds, an entry in use is the one the lookup
   finds, so whoever deletes or completes it points to it or is its removal. *)
LEMMA UseKept ==
  ASSUME Sound, Held, ~Leaves, Next, NEW e \in Id, InUse(e), obj'[e].st # obj[e].st
  PROVE  \/ obj'[e].st = "destroyed"
         \/ \E t \in Trans : conn[t].ptr = e /\ conn'[t] # conn[t]
<1>0. /\ obj[e].st # "free" /\ obj[e].st # "complete"
      /\ obj \in [Id -> EntryRecord] /\ conn \in [Trans -> Conn]
  BY DEF InUse, Sound, StoreOK, ConnOK
<1>1. e = first /\ first # Null /\ Visible /\ ~Complete
  BY <1>0, LiveIsFirst, NothingHidden DEF Complete
<1>2. ASSUME NEW t \in Trans, StartHit(t) \/ StartMiss(t) PROVE FALSE
  BY <1>1, <1>2 DEF StartHit, StartMiss
<1>3. ASSUME NEW t \in Trans, HeadersReceived(t) PROVE FALSE
  BY <1>1, <1>3 DEF HeadersReceived, HeadersUpdate, HeadersInsert, HeadersRefused, OlderErased,
                    HeadersIgnored, HeadersLeave
<1>4. ASSUME NEW t \in Trans, StateOf(t) \in LiveState PROVE conn[t].ptr = e
  <2>1. ConnOK
    BY DEF Sound
  <2>2. conn[t].ptr \in Id /\ obj[conn[t].ptr].st \in LiveState
    BY <1>4, <2>1, PtrLive
  <2>3. obj[conn[t].ptr].st # "free"
    BY <2>2 DEF LiveState
  <2>. QED
    BY <1>1, <2>2, <2>3, LiveIsFirst
<1>5. ASSUME NEW t \in Trans, BodyReceived(t)
      PROVE  conn[t].ptr = e /\ conn'[t] # conn[t]
  <2>1. StateOf(t) = "responding" /\ ~UsesFreed
    BY <1>5 DEF BodyReceived, UsesFreed, Dangling
  <2>2. conn[t].ptr = e
    BY <1>4, <2>1 DEF LiveState
  <2>3. conn'[t].n = conn[t].n + 1 /\ conn[t].n \in Nat
    <3>1. conn[t] \in Conn /\ conn[t].n \in Nat
      BY <1>0, ChunkAssumption DEF Conn
    <3>2. \/ conn' = [conn EXCEPT ![t].n = @ + 1]
          \/ conn' = [conn EXCEPT ![t].n = @ + 1, ![t].ptr = Null]
      BY <1>5, <2>1 DEF BodyReceived
    <3>. QED BY <1>0, <3>1, <3>2 DEF Conn
  <2>. QED BY <2>2, <2>3
<1>6. ASSUME NEW t \in Trans, ResponseCompleteL(t) \/ NotModifiedL(t)
      PROVE  conn[t].ptr = e /\ conn'[t] # conn[t]
  <2>1. ~UsesFreed
    BY DEF UsesFreed
  <2>2. ResponseComplete(t)
    BY <1>6, <2>1 DEF ResponseCompleteL, NotModifiedL
  <2>3. StateOf(t) \in {"responding", "destroyed"}
    BY <2>2 DEF ResponseComplete
  <2>4. conn[t].ptr = e
    BY <1>4, <2>3 DEF LiveState
  <2>5. conn[t].ph = "body" /\ conn[t] \in Conn
    BY <1>0, <1>6 DEF ResponseCompleteL, NotModifiedL, AllReceived
  <2>6. conn'[t].ph \in {"done", "unserved"}
    <3>1. CASE ResponseCompleteL(t)
      <4>. DEFINE p == IF conn[t].ptr = Null \/ obj'[conn[t].ptr].st = "free" THEN Null ELSE conn[t].ptr
      <4>1. conn' = [conn EXCEPT ![t].ph = "done", ![t].ptr = p]
        BY <1>0, <2>1, <3>1 DEF ResponseCompleteL
      <4>. HIDE DEF p
      <4>. QED BY <1>0, <2>5, <4>1 DEF Conn
    <3>2. CASE NotModifiedL(t)
      <4>. DEFINE found == first' # Null /\ obj'[first'].st = "complete" /\ obj'[first'].body # <<>>
                  left == IF conn[t].ptr = Null \/ obj'[conn[t].ptr].st = "free" THEN Null ELSE conn[t].ptr
                  ph == IF found THEN "done" ELSE "unserved"
                  p == IF found THEN first' ELSE left
      <4>1. conn' = [conn EXCEPT ![t].ph = ph, ![t].ptr = p, ![t].closed = found]
        BY <2>1, <3>2 DEF NotModifiedL
      <4>2. ph \in {"done", "unserved"}
        OBVIOUS
      <4>. HIDE DEF ph, p, found, left
      <4>. QED BY <1>0, <2>5, <4>1, <4>2 DEF Conn
    <3>. QED BY <1>6, <3>1, <3>2
  <2>. QED BY <2>4, <2>5, <2>6
<1>7. ASSUME NEW t \in Trans, SupplyResponse(t) PROVE FALSE
  BY <1>7 DEF SupplyResponse, UsesFreed
<1>8. ASSUME NEW t \in Trans, CloseRequest(t)
      PROVE  conn[t].ptr = e /\ conn'[t] # conn[t]
  <2>1. RequestClosed(t) /\ conn' = [conn EXCEPT ![t] = NoConn] /\ conn[t].ph # "none"
    BY <1>8 DEF CloseRequest, UsesFreed
  <2>2. StateOf(t) \in {"requesting", "responding", "destroyed"}
    BY <2>1 DEF RequestClosed
  <2>3. conn[t].ptr = e
    BY <1>4, <2>2 DEF LiveState
  <2>4. conn'[t].ph = "none"
    BY <1>0, <2>1 DEF NoConn
  <2>. QED BY <2>1, <2>3, <2>4
<1>9. CASE RemoveL
  <2>1. obj' = [obj EXCEPT ![e].st = "destroyed"]
    BY <1>1, <1>9 DEF RemoveL, SetState
  <2>. QED BY <1>0, <2>1 DEF EntryRecord
<1>10. CASE Evict
  BY <1>0, <1>1, <1>10 DEF Evict
<1>11. CASE RemoveAllL
  <2>1. e \in {f \in tab : obj[f].st # "complete"}
    BY <1>0 DEF Sound, StoreOK, Stored
  <2>2. obj'[e] = obj[e]
    BY <1>11, <2>1 DEF RemoveAllL
  <2>. QED BY <2>2
<1>. QED
  BY <1>2, <1>3, <1>5, <1>6, <1>7, <1>8, <1>9, <1>10, <1>11 DEF Next

(* Until an entry without a body comes to be, for any number of connections that
   share the URL, evictions, removals and failures to save: the use of an entry
   is ended only by a connection that points to it, or by a removal, which
   leaves its deletion to such a connection. *)
THEOREM UseIsKept ==
  ASSUME ~Leaves
  PROVE  Spec => InUseKept
<1>1. Sound /\ (~emptied => Held) /\ [Next]_vars
        => [~emptied' => \A e \in Id :
             (InUse(e) /\ obj'[e].st # obj[e].st)
               => \/ obj'[e].st = "destroyed"
                  \/ \E t \in Trans : conn[t].ptr = e /\ conn'[t] # conn[t]]_vars
  <2>. SUFFICES ASSUME Sound, ~emptied => Held, Next, ~emptied', NEW e \in Id,
                       InUse(e), obj'[e].st # obj[e].st
                PROVE  \/ obj'[e].st = "destroyed"
                       \/ \E t \in Trans : conn[t].ptr = e /\ conn'[t] # conn[t]
    BY DEF vars
  <2>1. ~emptied
    BY DEF Next
  <2>. QED BY <2>1, UseKept
<1>. QED
  BY <1>1, HeldAlways, SoundAlways, PTL DEF Spec, InUseKept

-----------------------------------------------------------------------------
(* If connections for the URL follow each other, each finds its entry as it *)
(* left it, or marked or deleted by a removal or an eviction.               *)

Alone == \A t, u \in Trans : conn[t].ph # "none" /\ conn[u].ph # "none" => t = u

(* What the connection t has saved of a response, in the entry r: nothing yet, with the
   old body still to be removed, or all parts up to the last one. *)
Filled(r, t, n) ==
  IF r.del THEN n = 0 /\ (r.body = <<>> \/ Whole(r.body)) ELSE r.body = [k \in 1..n |-> t]

(* What an open connection may expect of its entry: a hit of one in use, an
   accepted 304 of a complete one that the lookup finds or that has no body,
   a response of the parts it has saved. *)
Follows(t) ==
  /\ Hit(t) => /\ StateOf(t) \in {"requesting", "destroyed"}
               /\ conn[t].ph = "hitfail" => StateOf(t) = "destroyed"
  /\ conn[t].ph = "body" /\ conn[t].nm =>
       \/ StateOf(t) \in {"none", "free"}
       \/ StateOf(t) = "complete" /\ (conn[t].ptr = first \/ obj[conn[t].ptr].body = <<>>)
  /\ conn[t].ph = "body" /\ ~conn[t].nm /\ StateOf(t) = "responding" =>
       Filled(obj[conn[t].ptr], t, conn[t].n)
  /\ conn[t].ph = "unserved" => conn[t].ptr = Null \/ obj[conn[t].ptr].body = <<>>

(* The inductive invariant of connections that follow each other. *)
Serial == Alone /\ NoneYet /\ (\A t \in Trans : Follows(t)) /\ BodyWhole

(* A deleted entry is used, or nothing happens. *)
LEMMA FreedSerial ==
  ASSUME Serial, UNCHANGED <<obj, tab, first, conn>>
  PROVE  Serial'
BY DEF Serial, Alone, NoneYet, Follows, Hit, Filled, Whole, BodyWhole, StateOf

(* A step of the only open connection, or one that opens it. *)
OwnStep(t) == /\ conn[t].ph # "none" \/ Open = {}
              /\ \A u \in Trans \ {t} : conn'[u] = conn[u]

(* So a step concerns the connection that takes it alone. *)
LEMMA OwnStepSerial ==
  ASSUME Serial, NEW t \in Trans, OwnStep(t), Follows(t)', BodyWhole',
         conn'[t].ph \in {"none", "sent"} =>
           conn'[t].ptr = Null /\ ~conn'[t].closed /\ conn'[t].n = 0
  PROVE  Serial'
<1>1. \A u \in Trans \ {t} : conn[u].ph = "none" /\ conn[u].ptr = Null /\ conn'[u] = conn[u]
  BY DEF Serial, OwnStep, Alone, NoneYet, Open
<1>2. Alone'
  BY <1>1 DEF Alone
<1>3. NoneYet'
  BY <1>1 DEF Serial, NoneYet
<1>4. ASSUME NEW u \in Trans \ {t} PROVE Follows(u)'
  BY <1>1 DEF Follows, Hit, StateOf
<1>. QED
  BY <1>2, <1>3, <1>4 DEF Serial

(* Entries that are deleted are no reason for a body to be in parts. *)
LEMMA EraseWhole ==
  ASSUME BodyWhole, \A e \in Id : obj'[e] = NoEntry \/ obj'[e] = obj[e]
  PROVE  BodyWhole'
BY DEF BodyWhole, NoEntry, Whole

LEMMA DeleteWhole ==
  ASSUME Sound, BodyWhole, EraseFirst \/ DeleteCacheEntry
  PROVE  BodyWhole'
<1>1. CASE EraseFirst
  BY <1>1, EraseWhole DEF EraseFirst, Sound, StoreOK
<1>2. CASE UNCHANGED <<obj, tab, first>>
  BY <1>2, EraseWhole
<1>. QED
  BY <1>1, <1>2 DEF DeleteCacheEntry

(* One entry changes; if it ends up complete, its body is whole. *)
LEMMA ChangeWhole ==
  ASSUME Sound, BodyWhole, NEW e \in Id, NEW r, obj' = [obj EXCEPT ![e] = r],
         r.st \in {"complete", "requesting"} /\ r.body # <<>> => Whole(r.body)
  PROVE  BodyWhole'
BY DEF BodyWhole, Whole, Sound, StoreOK

(* What a change of state leaves alone. *)
LEMMA StateOnly ==
  ASSUME Sound, NEW e \in Id, NEW st, SetState(e, st)
  PROVE  /\ obj'[e].st = st /\ obj'[e].body = obj[e].body /\ obj'[e].del = obj[e].del
         /\ \A f \in Id \ {e} : obj'[f] = obj[f]
         /\ UNCHANGED <<tab, first>> /\ obj' = [obj EXCEPT ![e] = obj'[e]]
<1>1. obj[e] \in EntryRecord /\ obj \in [Id -> EntryRecord]
  BY DEF Sound, StoreOK
<1>. DEFINE r == [obj[e] EXCEPT !.st = st]
<1>2. obj' = [obj EXCEPT ![e] = r] /\ UNCHANGED <<tab, first>>
  BY DEF SetState
<1>3. r.st = st /\ r.body = obj[e].body /\ r.del = obj[e].del
  BY <1>1 DEF EntryRecord
<1>. HIDE DEF r
<1>4. obj'[e] = r /\ \A f \in Id \ {e} : obj'[f] = obj[f]
  BY <1>1, <1>2
<1>. QED
  BY <1>2, <1>3, <1>4

(* What the lookup finds complete has a whole body. *)
LEMMA CompleteWhole ==
  ASSUME Sound, BodyWhole, Complete
  PROVE  first \in Id /\ obj[first].st = "complete" /\ obj[first].body # <<>> /\ Whole(obj[first].body)
BY FirstLive DEF Sound, BodyWhole, Complete, Visible

-----------------------------------------------------------------------------
(* One lemma per action.                                                   *)

LEMMA StartSerial ==
  ASSUME ~Shares, Sound, Serial, NEW t \in Trans, StartHit(t) \/ StartMiss(t)
  PROVE  Serial'
<1>0. OwnStep(t) /\ conn \in [Trans -> Conn]
  <2>1. Open = {} /\ conn \in [Trans -> Conn]
    BY DEF StartHit, StartMiss, Sound, ConnOK
  <2>2. \A u \in Trans \ {t} : conn'[u] = conn[u]
    BY <2>1 DEF StartHit, StartMiss
  <2>. QED BY <2>1, <2>2 DEF OwnStep
<1>1. CASE StartHit(t)
  <2>. DEFINE c == [NoConn EXCEPT !.ph = "hitheaders", !.ptr = first]
  <2>1. c.ph = "hitheaders" /\ c.ptr = first
    BY DEF NoConn
  <2>2. conn'[t] = c
    BY <1>0, <1>1 DEF StartHit
  <2>. HIDE DEF c
  <2>3. first \in Id /\ first # Null /\ Whole(obj[first].body)
    BY <1>1, CompleteWhole, NullAssumption DEF StartHit, Serial
  <2>4. /\ obj'[first].st = "requesting" /\ obj'[first].body = obj[first].body
        /\ UNCHANGED <<tab, first>> /\ obj' = [obj EXCEPT ![first] = obj'[first]]
    BY <1>1, <2>3, StateOnly DEF StartHit
  <2>5. BodyWhole'
    BY <2>3, <2>4, ChangeWhole DEF Serial
  <2>6. StateOf(t)' = "requesting"
    BY <2>1, <2>2, <2>3, <2>4 DEF StateOf
  <2>7. Follows(t)'
    BY <2>1, <2>2, <2>6 DEF Follows, Hit
  <2>. QED
    BY <1>0, <2>1, <2>2, <2>5, <2>7, OwnStepSerial
<1>2. CASE StartMiss(t)
  <2>1. PICK cond \in {FALSE, Complete} :
          conn' = [conn EXCEPT ![t] = [NoConn EXCEPT !.ph = "sent", !.cond = cond]]
    BY <1>2 DEF StartMiss
  <2>. DEFINE c == [NoConn EXCEPT !.ph = "sent", !.cond = cond]
  <2>2. c.ph = "sent" /\ c.ptr = Null /\ c.closed = FALSE /\ c.n = 0 /\ c.cond = cond
    BY DEF NoConn
  <2>3. conn'[t] = c
    BY <1>0, <2>1
  <2>. HIDE DEF c
  <2>4. UNCHANGED <<obj, tab, first, mode>>
    BY <1>2 DEF StartMiss
  <2>8. Follows(t)'
    BY <2>2, <2>3 DEF Follows, Hit
  <2>9. BodyWhole'
    BY <2>4, EraseWhole DEF Serial
  <2>. QED
    BY <1>0, <2>2, <2>3, <2>8, <2>9, OwnStepSerial
<1>. QED
  BY <1>1, <1>2

(* What ReceivedResponseHeadersL leaves to a connection. *)
LEMMA ReceivedStep ==
  ASSUME Sound, Serial, NEW t \in Trans, conn[t].ph = "sent",
         NEW e \in Id \cup {Null}, NEW nm \in BOOLEAN, Received(t, e, nm)
  PROVE  /\ OwnStep(t)
         /\ conn'[t].ph = "body" /\ conn'[t].ptr = e /\ conn'[t].nm = nm /\ conn'[t].n = 0
<1>1. conn[t] \in Conn /\ conn[t].n = 0 /\ conn \in [Trans -> Conn]
  BY DEF Sound, ConnOK, Serial, NoneYet
<1>2. conn' = [conn EXCEPT ![t] = [conn[t] EXCEPT !.ph = "body", !.ptr = e, !.nm = nm, !.cond = FALSE]]
  BY <1>1 DEF Received
<1>. DEFINE c == [conn[t] EXCEPT !.ph = "body", !.ptr = e, !.nm = nm, !.cond = FALSE]
<1>3. c.ph = "body" /\ c.ptr = e /\ c.nm = nm /\ c.n = 0
  BY <1>1 DEF Conn
<1>. HIDE DEF c
<1>4. conn'[t] = c /\ \A u \in Trans \ {t} : conn'[u] = conn[u]
  BY <1>1, <1>2 DEF c
<1>. QED
  BY <1>3, <1>4 DEF OwnStep

(* The connection has its entry, in a state that fits the response. *)
LEMMA ReceivedSerial ==
  ASSUME Sound, Serial, NEW t \in Trans, conn[t].ph = "sent", BodyWhole',
         NEW e \in Id \cup {Null}, NEW nm \in BOOLEAN, Received(t, e, nm),
         e # Null => /\ nm => /\ obj'[e].st = "complete"
                              /\ e = first' \/ obj'[e].body = <<>>
                     /\ ~nm /\ obj'[e].st = "responding" => Filled(obj'[e], t, 0)
  PROVE  Serial'
<1>1. /\ OwnStep(t) /\ conn'[t].ph = "body" /\ conn'[t].ptr = e /\ conn'[t].nm = nm /\ conn'[t].n = 0
  BY ReceivedStep
<1>2. StateOf(t)' = IF e = Null THEN "none" ELSE obj'[e].st
  BY <1>1 DEF StateOf
<1>3. Filled(obj'[e], t, 0) => Filled(obj[conn[t].ptr], t, conn[t].n)'
  BY <1>1 DEF Filled, Whole
<1>4. Follows(t)'
  BY <1>1, <1>2, <1>3 DEF Follows, Hit
<1>. QED
  BY <1>1, <1>4, OwnStepSerial

LEMMA UpdateSerial ==
  ASSUME Sound, Serial, NEW t \in Trans, conn[t].ph = "sent", NEW nm \in BOOLEAN,
         HeadersUpdate(t, nm)
  PROVE  Serial'
<1>1. /\ first \in Id /\ first # Null /\ obj[first].st = "complete" /\ obj[first].body # <<>>
      /\ Whole(obj[first].body) /\ Received(t, first, nm)
  BY CompleteWhole, NullAssumption DEF HeadersUpdate, Serial
<1>2. CASE SetState(first, "complete")
  <2>1. /\ obj'[first].st = "complete" /\ obj'[first].body = obj[first].body
        /\ UNCHANGED <<tab, first>> /\ obj' = [obj EXCEPT ![first] = obj'[first]]
    BY <1>1, <1>2, StateOnly
  <2>2. BodyWhole'
    BY <1>1, <2>1, ChangeWhole DEF Serial
  <2>. QED
    BY <1>1, <2>1, <2>2, ReceivedSerial
<1>3. CASE /\ ~nm /\ obj' = [obj EXCEPT ![first].st = "responding", ![first].del = TRUE]
           /\ UNCHANGED <<tab, first>>
  <2>. DEFINE r == [obj[first] EXCEPT !.st = "responding", !.del = TRUE]
  <2>1. obj[first] \in EntryRecord /\ obj \in [Id -> EntryRecord]
    BY <1>1 DEF Sound, StoreOK
  <2>2. r.st = "responding" /\ r.del = TRUE /\ r.body = obj[first].body
    BY <2>1 DEF EntryRecord
  <2>3. obj' = [obj EXCEPT ![first] = r] /\ obj'[first] = r
    BY <1>1, <1>3, <2>1
  <2>. HIDE DEF r
  <2>4. BodyWhole'
    BY <1>1, <2>2, <2>3, ChangeWhole DEF Serial
  <2>5. Filled(obj'[first], t, 0)
    BY <1>1, <2>2, <2>3 DEF Filled
  <2>. QED
    BY <1>1, <1>3, <2>2, <2>3, <2>4, <2>5, ReceivedSerial
<1>. QED
  BY <1>2, <1>3 DEF HeadersUpdate

LEMMA InsertSerial ==
  ASSUME Sound, Serial, NEW t \in Trans, conn[t].ph = "sent", NEW nm \in BOOLEAN,
         HeadersInsert(t, nm)
  PROVE  Serial'
<1>. DEFINE st == IF nm THEN "complete" ELSE "responding"
            r == [NoEntry EXCEPT !.st = st]
<1>1. PICK e \in Id : Insert(e, r) /\ Received(t, e, nm)
  BY DEF HeadersInsert
<1>2. r.st = st /\ r.body = <<>> /\ r.del = FALSE
  BY DEF NoEntry
<1>. HIDE DEF r
<1>3. obj' = [obj EXCEPT ![e] = r] /\ obj'[e] = r
  BY <1>1 DEF Insert, Sound, StoreOK
<1>4. BodyWhole'
  BY <1>2, <1>3, ChangeWhole DEF Serial
<1>5. Filled(obj'[e], t, 0)
  BY <1>2, <1>3 DEF Filled
<1>. QED
  BY <1>1, <1>2, <1>3, <1>4, <1>5, ReceivedSerial

(* No memory for the header strings: the entry is not complete, and nobody's. *)
LEMMA LeaveSerial ==
  ASSUME Sound, Serial, NEW t \in Trans, conn[t].ph = "sent", HeadersLeave(t)
  PROVE  Serial'
<1>1. Received(t, Null, FALSE)
  BY DEF HeadersLeave
<1>2. BodyWhole'
  <2>1. CASE Complete /\ SetState(first, "responding")
    <3>1. first \in Id
      BY <2>1, FirstLive DEF Complete, Visible, Sound
    <3>2. obj'[first].st = "responding" /\ obj' = [obj EXCEPT ![first] = obj'[first]]
      BY <2>1, <3>1, StateOnly
    <3>. QED
      BY <3>1, <3>2, ChangeWhole DEF Serial
  <2>2. CASE \E e \in Id : Insert(e, [NoEntry EXCEPT !.st = "responding"])
    <3>. DEFINE r == [NoEntry EXCEPT !.st = "responding"]
    <3>1. PICK e \in Id : Insert(e, r)
      BY <2>2
    <3>2. r.st = "responding"
      BY DEF NoEntry
    <3>. HIDE DEF r
    <3>3. obj' = [obj EXCEPT ![e] = r]
      BY <3>1 DEF Insert
    <3>. QED
      BY <3>2, <3>3, ChangeWhole DEF Serial
  <2>. QED
    BY <2>1, <2>2 DEF HeadersLeave
<1>. QED
  BY <1>1, <1>2, ReceivedSerial

(* An accepted 304 finds the entry it was asked about, or makes one without a
   body; a 200 replaces it, or gets a new one, or is not saved. *)
LEMMA HeadersSerial ==
  ASSUME Sound, Serial, NEW t \in Trans, HeadersReceived(t)
  PROVE  Serial'
<1>0. CASE HeadersLeave(t)
  BY <1>0, LeaveSerial DEF HeadersReceived
<1>1. SUFFICES ASSUME NEW nm \in {FALSE, conn[t].cond},
                      \/ HeadersUpdate(t, nm) \/ HeadersInsert(t, nm)
                      \/ HeadersRefused(t, nm) \/ OlderErased(t, nm) \/ HeadersIgnored(t, nm)
               PROVE  Serial'
  BY <1>0 DEF HeadersReceived
<1>2. nm \in BOOLEAN
  <2>1. conn[t].cond \in BOOLEAN
    BY DEF Sound, ConnOK, Conn
  <2>. QED BY <2>1
<1>3. conn[t].ph = "sent"
  BY DEF HeadersReceived
<1>4. CASE HeadersUpdate(t, nm)
  BY <1>2, <1>3, <1>4, UpdateSerial
<1>5. CASE HeadersInsert(t, nm)
  BY <1>2, <1>3, <1>5, InsertSerial
<1>6. ASSUME Received(t, Null, nm), BodyWhole' PROVE Serial'
  BY <1>2, <1>3, <1>6, ReceivedSerial
<1>7. CASE HeadersRefused(t, nm)
  BY <1>6, <1>7, DeleteWhole DEF HeadersRefused, Serial
<1>8. CASE OlderErased(t, nm)
  <2>1. PICK e \in Id :
          obj' = [obj EXCEPT ![first] = NoEntry, ![e] = [NoEntry EXCEPT !.st = "responding"]]
    BY <1>8 DEF OlderErased
  <2>. DEFINE r == [NoEntry EXCEPT !.st = "responding"]
  <2>2. r.st = "responding"
    BY DEF NoEntry
  <2>. HIDE DEF r
  <2>3. \A f \in Id : obj'[f] = NoEntry \/ obj'[f] = obj[f] \/ obj'[f] = r
    BY <2>1 DEF Sound, StoreOK, r
  <2>4. BodyWhole'
    BY <2>2, <2>3 DEF Serial, BodyWhole, NoEntry, Whole
  <2>. QED
    BY <1>6, <1>8, <2>4 DEF OlderErased
<1>9. CASE HeadersIgnored(t, nm)
  BY <1>6, <1>9, EraseWhole DEF HeadersIgnored, Serial
<1>. QED
  BY <1>1, <1>4, <1>5, <1>7, <1>8, <1>9

-----------------------------------------------------------------------------
(* The next part is the one after those that were saved. *)
LEMMA AppendFilled ==
  ASSUME NEW t \in Trans, NEW n \in Nat
  PROVE  Append([k \in 1..n |-> t], t) = [k \in 1..n + 1 |-> t]
<1>. DEFINE s == [k \in 1..n |-> t]
<1>1. s \in Seq(Trans) /\ Len(s) = n
  OBVIOUS
<1>. QED
  BY <1>1

LEMMA SavedFilled ==
  ASSUME Sound, NEW t \in Trans, StateOf(t) = "responding", NEW n \in Nat,
         Filled(obj[conn[t].ptr], t, n)
  PROVE  Filled(SavedBody(t), t, n + 1) /\ SavedBody(t).st = "responding"
<1>. DEFINE r == obj[conn[t].ptr]
            b == IF r.del THEN <<>> ELSE r.body
<1>1. r \in EntryRecord /\ r.st = "responding"
  BY PtrLive DEF Sound, StoreOK, LiveState
<1>2. b = [k \in 1..n |-> t]
  BY DEF Filled
<1>. DEFINE c == [k \in 1..n + 1 |-> t]
<1>3. SavedBody(t) = [r EXCEPT !.body = c, !.del = FALSE]
  <2>1. Append(b, t) = c
    BY <1>2, AppendFilled
  <2>. QED BY <2>1 DEF SavedBody
<1>. HIDE DEF r, c
<1>4. [r EXCEPT !.body = c, !.del = FALSE].body = c /\ [r EXCEPT !.body = c, !.del = FALSE].del = FALSE
        /\ [r EXCEPT !.body = c, !.del = FALSE].st = r.st
  BY <1>1 DEF EntryRecord
<1>5. SavedBody(t).body = c /\ SavedBody(t).del = FALSE /\ SavedBody(t).st = "responding"
  BY <1>1, <1>3, <1>4
<1>. QED
  BY <1>5 DEF Filled, c

(* ReceivedResponseBodyDataL. *)
LEMMA BodySerial ==
  ASSUME Sound, Sound', Serial, NEW t \in Trans, BodyReceived(t)
  PROVE  Serial'
<1>. DEFINE n == conn[t].n + 1
            p == conn[t].ptr
<1>0. CASE UsesFreed
  BY <1>0, FreedSerial DEF UsesFreed
<1>1. /\ conn[t].ph = "body" /\ ~conn[t].nm /\ Follows(t)
      /\ conn \in [Trans -> Conn] /\ conn[t] \in Conn /\ conn[t].n \in Nat
  BY ChunkAssumption DEF BodyReceived, Serial, Sound, ConnOK, Conn
<1>2. ASSUME NEW q, \/ q = conn[t].ptr /\ conn' = [conn EXCEPT ![t].n = n]
                    \/ q = Null /\ conn' = [conn EXCEPT ![t].n = n, ![t].ptr = Null]
      PROVE  /\ OwnStep(t) /\ conn'[t].ph = "body" /\ ~conn'[t].nm
             /\ conn'[t].n = n /\ conn'[t].ptr = q
  <2>. HIDE DEF n
  <2>. DEFINE c == [conn[t] EXCEPT !.n = n]
              d == [conn[t] EXCEPT !.n = n, !.ptr = Null]
  <2>1. /\ c.ph = "body" /\ ~c.nm /\ c.n = n /\ c.ptr = conn[t].ptr
        /\ d.ph = "body" /\ ~d.nm /\ d.n = n /\ d.ptr = Null
    BY <1>1 DEF Conn
  <2>2. \/ q = conn[t].ptr /\ conn' = [conn EXCEPT ![t] = c]
        \/ q = Null /\ conn' = [conn EXCEPT ![t] = d]
    BY <1>1, <1>2
  <2>. HIDE DEF c, d
  <2>3. /\ \A u \in Trans \ {t} : conn'[u] = conn[u]
        /\ (q = conn[t].ptr /\ conn'[t] = c) \/ (q = Null /\ conn'[t] = d)
    BY <1>1, <2>2
  <2>. QED
    BY <1>1, <2>1, <2>3 DEF OwnStep
<1>3. CASE /\ StateOf(t) = "responding"
           /\ obj' = [obj EXCEPT ![p] = SavedBody(t)]
           /\ conn' = [conn EXCEPT ![t].n = n]
           /\ UNCHANGED <<tab, first, mode>>
  <2>1. p \in Id /\ p # Null
    BY <1>3, PtrLive DEF Sound, LiveState
  <2>2. Filled(SavedBody(t), t, n) /\ SavedBody(t).st = "responding"
    BY <1>1, <1>3, SavedFilled DEF Follows
  <2>3. obj'[p] = SavedBody(t)
    BY <1>3, <2>1 DEF Sound, StoreOK
  <2>4. BodyWhole'
    BY <1>3, <2>1, <2>2, ChangeWhole DEF Serial
  <2>5. /\ OwnStep(t) /\ conn'[t].ph = "body" /\ ~conn'[t].nm /\ conn'[t].n = n /\ conn'[t].ptr = p
    BY <1>2, <1>3
  <2>. HIDE DEF n, p
  <2>6. StateOf(t)' = "responding" /\ Filled(obj[conn[t].ptr], t, conn[t].n)'
    <3>1. Filled(obj'[p], t, n)
      BY <2>2, <2>3
    <3>. QED BY <2>1, <2>2, <2>3, <2>5, <3>1 DEF StateOf, Filled, Whole
  <2>7. Follows(t)'
    BY <2>5, <2>6 DEF Follows, Hit
  <2>. QED
    BY <1>1, <1>3, <2>4, <2>5, <2>7, OwnStepSerial
<1>4. CASE /\ DeleteCacheEntry /\ UNCHANGED mode
           /\ conn' = [conn EXCEPT ![t].n = n, ![t].ptr = Null]
  <2>1. /\ OwnStep(t) /\ conn'[t].ph = "body" /\ ~conn'[t].nm /\ conn'[t].ptr = Null
    BY <1>2, <1>4
  <2>2. BodyWhole'
    BY <1>4, DeleteWhole DEF Serial
  <2>3. Follows(t)'
    BY <2>1 DEF Follows, Hit, StateOf
  <2>. QED
    BY <1>1, <1>4, <2>1, <2>2, <2>3, OwnStepSerial
<1>5. CASE /\ StateOf(t) \notin {"free", "responding"}
           /\ conn' = [conn EXCEPT ![t].n = n]
           /\ UNCHANGED <<obj, tab, first, mode>>
  <2>1. /\ OwnStep(t) /\ conn'[t].ph = "body" /\ ~conn'[t].nm /\ conn'[t].ptr = p
    BY <1>2, <1>5
  <2>2. BodyWhole'
    BY <1>5, EraseWhole DEF Serial
  <2>3. StateOf(t)' = StateOf(t)
    BY <1>5, <2>1 DEF StateOf
  <2>4. Follows(t)'
    BY <1>5, <2>1, <2>3 DEF Follows, Hit
  <2>. QED
    BY <1>1, <1>5, <2>1, <2>2, <2>4, OwnStepSerial
<1>. QED
  BY <1>0, <1>3, <1>4, <1>5 DEF BodyReceived

(* CHttpCacheHandler::ResponseComplete, after the whole body or without any. *)
LEMMA ResponseWhole ==
  ASSUME Sound, Serial, NEW t \in Trans, AllReceived(t), ~conn[t].nm, ResponseComplete(t)
  PROVE  BodyWhole'
<1>. DEFINE e == conn[t].ptr
<1>1. CASE StateOf(t) = "responding" /\ SetState(e, "complete")
  <2>1. e \in Id
    BY <1>1, PtrLive DEF Sound, LiveState
  <2>2. obj'[e].body = obj[e].body /\ obj' = [obj EXCEPT ![e] = obj'[e]]
    BY <1>1, <2>1, StateOnly
  <2>3. Filled(obj[e], t, conn[t].n)
    BY <1>1 DEF Serial, Follows, AllReceived
  <2>4. obj[e].body = <<>> \/ Whole(obj[e].body)
    <3>1. CASE obj[e].del
      BY <2>3, <3>1 DEF Filled
    <3>2. CASE ~obj[e].del
      <4>1. obj[e].body = [k \in 1..conn[t].n |-> t]
        BY <2>3, <3>2 DEF Filled
      <4>2. conn[t].n = Chunks \/ conn[t].n = 0
        BY DEF AllReceived
      <4>3. CASE conn[t].n = Chunks
        BY <4>1, <4>3 DEF Whole
      <4>4. CASE conn[t].n = 0
        BY <4>1, <4>4
      <4>. QED BY <4>2, <4>3, <4>4
    <3>. QED BY <3>1, <3>2
  <2>. HIDE DEF e
  <2>. QED
    BY <2>1, <2>2, <2>4, ChangeWhole DEF Serial
<1>2. CASE DeleteCacheEntry
  BY <1>2, DeleteWhole DEF Serial
<1>3. CASE UNCHANGED <<obj, tab, first>>
  BY <1>3, EraseWhole DEF Serial
<1>. QED
  BY <1>1, <1>2, <1>3 DEF ResponseComplete

LEMMA CompleteLSerial ==
  ASSUME Sound, Sound', Serial, NEW t \in Trans, ResponseCompleteL(t)
  PROVE  Serial'
<1>0. CASE UsesFreed
  BY <1>0, FreedSerial DEF UsesFreed
<1>. SUFFICES ASSUME ~UsesFreed PROVE Serial'
  BY <1>0
<1>1. /\ AllReceived(t) /\ ~conn[t].nm /\ conn[t].ph = "body"
      /\ conn \in [Trans -> Conn] /\ conn[t] \in Conn
  BY DEF ResponseCompleteL, Sound, ConnOK, AllReceived
<1>. DEFINE p == IF conn[t].ptr = Null \/ obj'[conn[t].ptr].st = "free" THEN Null ELSE conn[t].ptr
<1>2. /\ ResponseComplete(t)
      /\ conn' = [conn EXCEPT ![t] = [conn[t] EXCEPT !.ph = "done", !.ptr = p]]
  BY <1>1 DEF ResponseCompleteL
<1>. HIDE DEF p
<1>. DEFINE c == [conn[t] EXCEPT !.ph = "done", !.ptr = p]
<1>4. c.ph = "done" /\ c.ptr = p
  BY <1>1 DEF Conn
<1>. HIDE DEF c
<1>5. conn'[t] = c /\ \A u \in Trans \ {t} : conn'[u] = conn[u]
  BY <1>1, <1>2 DEF c
<1>6. OwnStep(t)
  BY <1>1, <1>5 DEF OwnStep
<1>7. Follows(t)'
  BY <1>4, <1>5 DEF Follows, Hit
<1>8. BodyWhole'
  BY <1>1, <1>2, ResponseWhole
<1>. QED
  BY <1>1, <1>2, <1>4, <1>5, <1>6, <1>7, <1>8, OwnStepSerial

(* No entry's state is that of no entry. *)
LEMMA NoneIsNull ==
  ASSUME StoreOK, ConnOK, NEW t \in Trans, StateOf(t) = "none"
  PROVE  conn[t].ptr = Null
BY DEF StoreOK, ConnOK, Conn, EntryRecord, StateOf

(* After a 304 the entry it was about is still complete, or has no body, or is
   gone. *)
LEMMA NotModifiedSerial ==
  ASSUME Sound, Sound', Serial, NEW t \in Trans, NotModifiedL(t)
  PROVE  Serial'
<1>0. CASE UsesFreed
  BY <1>0, FreedSerial DEF UsesFreed
<1>. SUFFICES ASSUME ~UsesFreed PROVE Serial'
  BY <1>0
<1>1. /\ conn[t].nm /\ conn[t].ph = "body"
      /\ conn \in [Trans -> Conn] /\ conn[t] \in Conn
  BY DEF NotModifiedL, Sound, ConnOK, AllReceived
<1>2. \/ StateOf(t) = "none"
      \/ StateOf(t) = "complete" /\ (conn[t].ptr = first \/ obj[conn[t].ptr].body = <<>>)
  BY <1>1 DEF NotModifiedL, Serial, Follows, Dangling
<1>3. ResponseComplete(t)
  BY DEF NotModifiedL
<1>4. UNCHANGED <<obj, tab, first>>
  BY <1>2, <1>3 DEF ResponseComplete
<1>. DEFINE found == first' # Null /\ obj'[first'].st = "complete" /\ obj'[first'].body # <<>>
            left == IF conn[t].ptr = Null \/ obj'[conn[t].ptr].st = "free" THEN Null ELSE conn[t].ptr
            ph == IF found THEN "done" ELSE "unserved"
            p == IF found THEN first' ELSE left
<1>5. conn' = [conn EXCEPT ![t] = [conn[t] EXCEPT !.ph = ph, !.ptr = p, !.closed = found]]
  <2>1. conn' = [conn EXCEPT ![t].ph = ph, ![t].ptr = p, ![t].closed = found]
    BY DEF NotModifiedL
  <2>. HIDE DEF ph, p, found
  <2>. QED BY <1>1, <2>1
<1>6. CASE found
  <2>1. ph = "done"
    BY <1>6
  <2>. HIDE DEF ph, p, found
  <2>. DEFINE c == [conn[t] EXCEPT !.ph = ph, !.ptr = p, !.closed = found]
  <2>2. c.ph = "done" /\ c.ptr = p
    BY <1>1, <2>1 DEF Conn
  <2>. HIDE DEF c
  <2>3. conn'[t] = c /\ \A u \in Trans \ {t} : conn'[u] = conn[u]
    BY <1>1, <1>5 DEF c
  <2>4. Follows(t)'
    BY <2>2, <2>3 DEF Follows, Hit
  <2>5. OwnStep(t) /\ BodyWhole'
    BY <1>1, <1>4, <2>3, EraseWhole DEF OwnStep, Serial
  <2>. QED
    BY <2>2, <2>3, <2>4, <2>5, OwnStepSerial
<1>7. CASE ~found
  <2>1. conn[t].ptr = Null \/ obj[conn[t].ptr].body = <<>>
    <3>1. CASE StateOf(t) = "none"
      BY <3>1, NoneIsNull DEF Sound
    <3>2. CASE StateOf(t) = "complete" /\ conn[t].ptr = first
      <4>1. first # Null /\ obj[first].st = "complete"
        BY <3>2 DEF StateOf
      <4>. QED
        BY <1>4, <1>7, <3>2, <4>1
    <3>. QED
      BY <1>2, <3>1, <3>2
  <2>2. ph = "unserved" /\ (p = Null \/ obj'[p].body = <<>>)
    BY <1>4, <1>7, <2>1
  <2>. HIDE DEF ph, p, found
  <2>. DEFINE c == [conn[t] EXCEPT !.ph = ph, !.ptr = p, !.closed = found]
  <2>3. c.ph = "unserved" /\ c.ptr = p
    BY <1>1, <2>2 DEF Conn
  <2>. HIDE DEF c
  <2>4. conn'[t] = c /\ \A u \in Trans \ {t} : conn'[u] = conn[u]
    BY <1>1, <1>5 DEF c
  <2>5. Follows(t)'
    BY <2>2, <2>3, <2>4 DEF Follows, Hit
  <2>6. OwnStep(t) /\ BodyWhole'
    BY <1>1, <1>4, <2>4, EraseWhole DEF OwnStep, Serial
  <2>. QED
    BY <2>3, <2>4, <2>5, <2>6, OwnStepSerial
<1>. QED
  BY <1>6, <1>7

(* The entry is still in use when its headers and its body are read, if it was
   not marked. *)
LEMMA SupplySerial ==
  ASSUME Sound, Serial, NEW t \in Trans, SupplyResponse(t)
  PROVE  Serial'
<1>0. CASE UsesFreed
  BY <1>0, FreedSerial DEF UsesFreed
<1>. SUFFICES ASSUME ~UsesFreed PROVE Serial'
  BY <1>0
<1>1. /\ StateOf(t) \in {"requesting", "destroyed"} /\ conn[t].ph # "none"
      /\ conn \in [Trans -> Conn] /\ conn[t] \in Conn
  BY DEF SupplyResponse, Serial, Follows, Hit, Sound, ConnOK
<1>. DEFINE ph == IF StateOf(t) # "requesting" THEN "hitfail"
                  ELSE IF conn[t].ph = "hitheaders" THEN "hitbody" ELSE "hitend"
<1>2. conn' = [conn EXCEPT ![t] = [conn[t] EXCEPT !.ph = ph]] /\ UNCHANGED <<obj, tab, first>>
  BY <1>1 DEF SupplyResponse
<1>3. /\ ph \in {"hitbody", "hitend", "hitfail"}
      /\ ph = "hitfail" => StateOf(t) = "destroyed"
  BY <1>1
<1>. HIDE DEF ph
<1>. DEFINE c == [conn[t] EXCEPT !.ph = ph]
<1>4. c.ph = ph /\ c.ptr = conn[t].ptr
  BY <1>1 DEF Conn
<1>. HIDE DEF c
<1>5. conn'[t] = c /\ \A u \in Trans \ {t} : conn'[u] = conn[u]
  BY <1>1, <1>2 DEF c
<1>6. StateOf(t)' = StateOf(t)
  BY <1>2, <1>4, <1>5 DEF StateOf
<1>7. Follows(t)'
  BY <1>1, <1>3, <1>4, <1>5, <1>6 DEF Follows, Hit
<1>8. OwnStep(t) /\ BodyWhole'
  BY <1>1, <1>2, <1>5, EraseWhole DEF OwnStep, Serial
<1>. QED
  BY <1>3, <1>4, <1>5, <1>7, <1>8, OwnStepSerial

LEMMA CloseSerial ==
  ASSUME Sound, Serial, NEW t \in Trans, CloseRequest(t)
  PROVE  Serial'
<1>0. CASE UsesFreed
  BY <1>0, FreedSerial DEF UsesFreed
<1>. SUFFICES ASSUME ~UsesFreed PROVE Serial'
  BY <1>0
<1>1. conn[t].ph # "none" /\ conn \in [Trans -> Conn]
  BY DEF CloseRequest, Sound, ConnOK
<1>2. RequestClosed(t) /\ conn' = [conn EXCEPT ![t] = NoConn]
  BY <1>1 DEF CloseRequest
<1>3. /\ conn'[t].ph = "none" /\ conn'[t].ptr = Null /\ conn'[t].closed = FALSE /\ conn'[t].n = 0
      /\ \A u \in Trans \ {t} : conn'[u] = conn[u]
  BY <1>1, <1>2 DEF NoConn
<1>4. OwnStep(t) /\ Follows(t)'
  BY <1>1, <1>3 DEF OwnStep, Follows, Hit
<1>. DEFINE st == IF conn[t].closed THEN "none" ELSE StateOf(t)
<1>5. BodyWhole'
  <2>1. CASE st = "requesting" /\ SetState(conn[t].ptr, "complete")
    <3>1. StateOf(t) = "requesting" /\ SetState(conn[t].ptr, "complete")
      BY <2>1
    <3>2. conn[t].ptr \in Id /\ obj[conn[t].ptr].st = "requesting"
      BY <3>1, PtrLive DEF Sound, LiveState
    <3>3. obj[conn[t].ptr].body # <<>> => Whole(obj[conn[t].ptr].body)
      BY <3>2 DEF Serial, BodyWhole
    <3>4. /\ obj'[conn[t].ptr].body = obj[conn[t].ptr].body
          /\ obj' = [obj EXCEPT ![conn[t].ptr] = obj'[conn[t].ptr]]
      BY <3>1, <3>2, StateOnly
    <3>. QED
      BY <3>2, <3>3, <3>4, ChangeWhole DEF Serial
  <2>2. CASE DeleteCacheEntry
    BY <2>2, DeleteWhole DEF Serial
  <2>3. CASE UNCHANGED <<obj, tab, first>>
    BY <2>3, EraseWhole DEF Serial
  <2>. QED
    BY <1>2, <2>1, <2>2, <2>3 DEF RequestClosed
<1>. QED
  BY <1>3, <1>4, <1>5, OwnStepSerial

(* Removals and evictions delete complete entries only; others are marked. *)
LEMMA RemovalSerial ==
  ASSUME Sound, Serial, RemoveL \/ Evict \/ RemoveAllL
  PROVE  Serial'
<1>0. UNCHANGED conn /\ obj \in [Id -> EntryRecord]
  BY DEF RemoveL, Evict, RemoveAllL, Sound, StoreOK
<1>1. Alone' /\ NoneYet'
  BY <1>0 DEF Serial, Alone, NoneYet
<1>2. NoEntry.st = "free" /\ NoEntry.body = <<>>
  BY DEF NoEntry
<1>3. ASSUME NEW t \in Trans, conn[t].ptr = Null PROVE Follows(t)'
  <2>1. StateOf(t)' = "none" /\ StateOf(t) = "none"
    BY <1>0, <1>3 DEF StateOf
  <2>. QED
    BY <1>0, <1>3, <2>1 DEF Serial, Follows, Hit
(* The entry that is deleted was complete. *)
<1>4. ASSUME NEW t \in Trans, conn[t].ptr \in Id,
             \/ obj'[conn[t].ptr] = obj[conn[t].ptr]
                /\ (obj[conn[t].ptr].st = "complete" => conn[t].ptr # first)
             \/ obj'[conn[t].ptr] = NoEntry /\ obj[conn[t].ptr].st \in {"free", "complete"}
      PROVE  Follows(t)'
  <2>1. conn[t].ptr # Null
    BY <1>4, NullAssumption
  <2>2. StateOf(t) = obj[conn[t].ptr].st /\ StateOf(t)' = obj'[conn[t].ptr].st
    BY <1>0, <2>1 DEF StateOf
  <2>3. Filled(obj[conn[t].ptr], t, conn[t].n)' <=> Filled(obj'[conn[t].ptr], t, conn[t].n)
    BY <1>0 DEF Filled, Whole
  <2>. QED
    BY <1>0, <1>2, <1>4, <2>1, <2>2, <2>3 DEF Serial, Follows, Hit
<1>5. \A t \in Trans : conn[t].ptr \in Id \cup {Null}
  BY DEF Sound, ConnOK, Conn
<1>6. CASE EraseFirst /\ first # Null /\ obj[first].st = "complete"
  <2>1. first \in Id /\ obj' = [obj EXCEPT ![first] = NoEntry]
    BY <1>6, FirstLive DEF EraseFirst, Sound
  <2>2. \A t \in Trans : Follows(t)'
    BY <1>0, <1>3, <1>4, <1>5, <1>6, <2>1
  <2>3. BodyWhole'
    BY <1>6, DeleteWhole DEF Serial
  <2>. QED
    BY <1>1, <2>2, <2>3 DEF Serial
<1>7. CASE Visible /\ obj[first].st # "complete" /\ SetState(first, "destroyed")
  <2>1. first \in Id /\ obj[first].st \notin {"free", "none"}
    BY <1>7, FirstLive DEF Visible, Sound, StoreOK, EntryRecord
  <2>2. /\ obj'[first].st = "destroyed" /\ obj'[first].body = obj[first].body
        /\ \A f \in Id \ {first} : obj'[f] = obj[f]
        /\ UNCHANGED first /\ obj' = [obj EXCEPT ![first] = obj'[first]]
    BY <1>7, <2>1, StateOnly
  <2>3. ASSUME NEW t \in Trans PROVE Follows(t)'
    <3>1. CASE conn[t].ptr = first
      <4>1. StateOf(t) = obj[first].st /\ StateOf(t)' = "destroyed"
        BY <1>0, <2>1, <2>2, <3>1, NullAssumption DEF StateOf
      <4>. QED
        BY <1>0, <1>7, <2>1, <2>2, <3>1, <4>1 DEF Serial, Follows, Hit
    <3>2. CASE conn[t].ptr \in Id \ {first}
      BY <1>4, <2>2, <3>2
    <3>. QED
      BY <1>3, <1>5, <3>1, <3>2
  <2>4. BodyWhole'
    BY <2>1, <2>2, ChangeWhole DEF Serial
  <2>. QED
    BY <1>1, <2>3, <2>4 DEF Serial
<1>8. CASE RemoveAllL
  <2>. DEFINE rest == {e \in tab : obj[e].st # "complete"}
  <2>1. obj' = [e \in Id |-> IF e \in rest THEN obj[e] ELSE NoEntry]
    BY <1>8 DEF RemoveAllL
  <2>2. \A e \in Id : e \in rest <=> obj[e].st \notin {"free", "complete"}
    BY DEF Sound, StoreOK, Stored
  <2>. HIDE DEF rest
  <2>3. \A e \in Id : \/ obj'[e] = obj[e] /\ obj[e].st # "complete"
                      \/ obj'[e] = NoEntry /\ obj[e].st \in {"free", "complete"}
    BY <2>1, <2>2
  <2>4. \A t \in Trans : Follows(t)'
    BY <1>3, <1>4, <1>5, <2>3
  <2>5. BodyWhole'
    BY <2>3, EraseWhole DEF Serial
  <2>. QED
    BY <1>1, <2>4, <2>5 DEF Serial
<1>. QED
  <2>1. first # Null => obj[first].st # "complete" \/ Complete \/ ~Visible
    BY DEF Complete
  <2>. QED
    BY <1>6, <1>7, <1>8, <2>1 DEF RemoveL, Evict, Complete, Visible

LEMMA SerialInit == Init => Serial
<1>. SUFFICES ASSUME Init PROVE Serial
  OBVIOUS
<1>1. NoEntry.st = "free" /\ NoConn.ph = "none" /\ NoConn.ptr = Null /\ NoConn.closed = FALSE
        /\ NoConn.n = 0
  BY DEF NoEntry, NoConn
<1>2. \A t \in Trans : Follows(t)
  BY <1>1 DEF Init, Follows, Hit
<1>. QED
  BY <1>1, <1>2 DEF Init, Serial, Alone, NoneYet, BodyWhole

(* Every step keeps the third invariant. *)
LEMMA SerialNext ==
  ASSUME ~Shares
  PROVE  Sound /\ Sound' /\ Serial /\ [Next]_vars => Serial'
<1>. SUFFICES ASSUME Sound, Sound', Serial, [Next]_vars PROVE Serial'
  OBVIOUS
<1>1. CASE UNCHANGED vars
  BY <1>1, FreedSerial DEF vars
<1>. QED
  BY <1>1, StartSerial, HeadersSerial, BodySerial, CompleteLSerial, NotModifiedSerial,
     SupplySerial, CloseSerial, RemovalSerial DEF Next

LEMMA SerialAlways ==
  ASSUME ~Shares
  PROVE  Spec => []Serial
BY SoundAlways, SerialInit, SerialNext, PTL DEF Spec

(* If one connection loads the URL at a time, a complete entry holds the whole
   body of one response, for any number of parts: a new response never mixes
   with the body it replaces, wherever connections break off, and whatever is
   evicted, not saved or left in the middle. *)
THEOREM BodiesWhole ==
  ASSUME ~Shares
  PROVE  Spec => []BodyWhole
<1>1. Serial => BodyWhole
  BY DEF Serial
<1>. QED
  BY <1>1, SerialAlways, PTL

(* Then neither evictions nor the clearing of the cache take the entry of a hit
   away, and only a removal cuts the hit off. *)
THEOREM HitsServed ==
  ASSUME ~Shares
  PROVE  Spec => []HitServed
<1>1. Serial => HitServed
  BY DEF Serial, Follows, Hit, HitServed
<1>. QED
  BY <1>1, SerialAlways, PTL

(* Then a 304 is answered with the body from the cache, unless its headers could
   not be saved or its entry went before it came. *)
THEOREM NotModifiedIsServed ==
  ASSUME ~Shares
  PROVE  Spec => []NotModifiedServed
<1>1. Serial => NotModifiedServed
  BY DEF Serial, Follows, NotModifiedServed
<1>. QED
  BY <1>1, SerialAlways, PTL
=============================================================================
