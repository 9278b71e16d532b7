------------------------ MODULE HttpCacheLookupTable ------------------------
(***************************************************************************)
(* CHttpCacheLookupTable: the hash table that finds the cache entry of a   *)
(* URL.  Open addressing with quadratic probing: the c-th probe looks at   *)
(* slot (hash + c^2) mod size.  Erasing leaves a tombstone, the table is   *)
(* rehashed into one of the next prime above twice its size when more than *)
(* half of it is in use or when no slot is found for an entry.  The first  *)
(* table has 217 slots, which is not a prime.                              *)
(*                                                                         *)
(* An operation runs to its end before the next one starts; its loops      *)
(* (rehash, merge, load) are steps here, pc says which one is running.     *)
(***************************************************************************)
EXTENDS Integers, FiniteSets

CONSTANTS
  Url,
  Id,           \* addresses of CHttpCacheEntry objects
  Null,         \* NULL: a slot that was never used
  Deleted,      \* 0xffffffff: a tombstone
  InitialSize,  \* KHttpCacheLookupTableSize, 217
  MaxHash,      \* bound: HashUrl before its final modulo is 0..MaxHash
  Events        \* which of the events below may happen

ASSUME SlotAssumption == Null \notin Id \cup Url /\ Deleted \notin Id /\ Null # Deleted
ASSUME SizeAssumption == InitialSize \in Nat \ {0} /\ MaxHash \in Nat
ASSUME EventAssumption == Events \subseteq {"zero", "heap", "merge", "reload"}

Zeros == "zero" \in Events       \* a response may have no body
MemErrors == "heap" \in Events   \* heap allocations may fail
Merges == "merge" \in Events     \* another process rewrites index.dat
Reloads == "reload" \in Events   \* the cache may be closed and opened again

VARIABLES
  fold,     \* what CompareF compares: a URL's form without case
  hash,     \* HashUrl without its final modulo, which does look at case
  size,     \* iEntries->Count()
  slot,     \* iEntries
  count,    \* iCount
  obj,      \* the entries
  held,     \* entries an open transaction points to
  disk,     \* URLs that have a body file
  pc,       \* the loop that is running
  ins,      \* the entry InsertL is inserting
  why,      \* who called InsertL
  retried,  \* InsertL has rehashed the table to find a slot
  placed,   \* InsertL has stored its entry
  old, i,   \* ReHashL: the old table and its loop index; MergeL's first loop
  new,      \* MergeL: URLs of the new index not dealt with yet
  loading   \* InternalizeL: entries not read yet

table == <<size, slot, count>>
loop == <<pc, ins, why, retried, placed, old, i, new, loading>>
vars == <<fold, hash, table, obj, held, disk, loop>>

NoTable == [k \in {} |-> Null]

(* body is "none" when BodySize() is 0; otherwise it says whether
   BodyDataCached() holds ("mem") or the body is in its file. *)
EntryObject == [url : Url \cup {Null}, st : {"free", "new", "complete", "requesting"},
                body : {"none", "mem", "file"}]
NoEntry == [url |-> Null, st |-> "free", body |-> "none"]
NewEntry(u) == [url |-> u, st |-> "new", body |-> "none"]

Init ==
  /\ fold \in {f \in [Url -> Url] : \A u \in Url : f[f[u]] = f[u]}
  /\ hash \in [Url -> 0..MaxHash]
  /\ size = InitialSize /\ slot = [p \in 0..InitialSize - 1 |-> Null] /\ count = 0
  /\ obj = [e \in Id |-> NoEntry]
  /\ held = {} /\ disk = {}
  /\ pc = "idle" /\ ins = Null /\ why = "url"
  /\ retried = FALSE /\ placed = FALSE
  /\ old = NoTable /\ i = 0 /\ new = {} /\ loading = {}

-----------------------------------------------------------------------------
(* Probing.                                                                *)

Pos(u, c) == (hash[u] + c * c) % size
Valid(p) == slot[p] \in Id
Same(u, w) == fold[u] = fold[w]
Matches(u, p) == Valid(p) /\ Same(obj[slot[p]].url, u)

(* Probe( aKey, ETrue ) stops after c collisions. *)
InsertStops(u, c) ==
  /\ c < size \div 2 => ~Valid(Pos(u, c))
  /\ \A d \in 0..c - 1 : Valid(Pos(u, d))

(* Probe( aKey, EFalse ) stops at the entry it looks for after c collisions. *)
FindStops(u, c) ==
  /\ Matches(u, Pos(u, c))
  /\ \A d \in 0..c - 1 : slot[Pos(u, d)] # Null /\ ~Matches(u, Pos(u, d))

(* The slot of u: one or none. *)
Probe(u) == {Pos(u, c) : c \in {d \in 0..size + 1 : FindStops(u, d)}}

(* Find hides a complete entry without a body. *)
Hidden(e) == obj[e].st = "complete" /\ obj[e].body = "none"
Find(u) == {e \in {slot[p] : p \in Probe(u)} : ~Hidden(e)}

(* NextPrime( aNum ) is m. *)
OddDivisor(m) == \E d \in 3..m : d % 2 = 1 /\ d * d <= m /\ m % d = 0
IsNextPrime(n, m) ==
  /\ m >= n /\ m % 2 = 1 /\ ~OddDivisor(m)
  /\ \A k \in n..m - 1 : k % 2 = 0 \/ OddDivisor(k)

Free(e) == [obj EXCEPT ![e] = NoEntry]

(* Mutants of Erase: the slot becomes empty instead of a tombstone; the count
   stays. *)
EraseEmptyMutant(p) ==
  /\ slot' = [slot EXCEPT ![p] = Null]
  /\ count' = count - 1
  /\ obj' = Free(slot[p])
  /\ disk' = disk \ {obj[slot[p]].url}
  /\ UNCHANGED size

EraseCountMutant(p) ==
  /\ slot' = [slot EXCEPT ![p] = Deleted]
  /\ obj' = Free(slot[p])
  /\ disk' = disk \ {obj[slot[p]].url}
  /\ UNCHANGED <<size, count>>

(* Erase: the entry and its file are deleted, its slot becomes a tombstone. *)
Erase(p) ==
  /\ slot' = [slot EXCEPT ![p] = Deleted]
  /\ count' = count - 1
  /\ obj' = Free(slot[p])
  /\ disk' = disk \ {obj[slot[p]].url}
  /\ UNCHANGED size

-----------------------------------------------------------------------------
(* InsertL and ReHashL.                                                    *)

Start(e, caller) ==
  /\ ins' = e /\ why' = caller /\ pc' = "probe"
  /\ UNCHANGED <<retried, placed, old, i>>

(* ReceivedResponseHeadersL or SaveL: "check if the entry is already in the
   cache" and insert a new one if it is not. *)
InsertL(u) ==
  /\ pc = "idle" /\ Find(u) = {}
  /\ \E e \in Id :
       /\ obj[e].st = "free"
       /\ obj' = [obj EXCEPT ![e] = NewEntry(u)]
       /\ Start(e, "url")
  /\ UNCHANGED <<fold, hash, table, held, disk, new, loading>>

Return == CASE why = "url" -> "idle" [] why = "merge" -> "adopt" [] why = "load" -> "load"

(* InsertL returns to its caller. *)
Returned == ins' = Null /\ why' = "url" /\ retried' = FALSE /\ placed' = FALSE

(* InsertL( aUrl ) after the entry was stored: InitialiseCacheEntryL deletes
   the files a former entry of this URL may have left.  MergeL then sets the
   state of the entry to complete. *)
Inserted ==
  /\ disk' = IF why = "load" THEN disk ELSE disk \ {obj[ins].url}
  /\ held' = IF why = "url" THEN held \cup {ins} ELSE held
  /\ obj' = IF why = "merge" THEN [obj EXCEPT ![ins].st = "complete"] ELSE obj
  /\ pc' = Return /\ Returned

(* It leaves instead: the cleanup stack deletes an entry the table points to. *)
InitialiseLeaves ==
  /\ MemErrors /\ why # "load"
  /\ obj' = Free(ins) /\ pc' = "dangling" /\ Returned
  /\ UNCHANGED <<held, disk>>

(* Mutant: the loop over the old table starts at 1. *)
BeginRehashSkipMutant(entries, m) ==
  /\ size' = m /\ slot' = [p \in 0..m - 1 |-> Null]
  /\ old' = entries /\ i' = 1
  /\ pc' = "rehash"
  /\ UNCHANGED <<obj, held, disk, ins, why, new>>

(* ReHashL: a new table takes the place of the old one, filled with NULL. *)
BeginRehash(entries, m) ==
  /\ size' = m /\ slot' = [p \in 0..m - 1 |-> Null]
  /\ old' = entries /\ i' = 0
  /\ pc' = "rehash"
  /\ UNCHANGED <<obj, held, disk, ins, why, new>>

ReHashL(entries) ==
  \E m \in 2 * size .. 4 * size + 3 : IsNextPrime(2 * size, m) /\ BeginRehash(entries, m)

(* ReHashL leaves when the new table cannot be allocated, or when its slots
   cannot: then it is already in place, with no slots, and the old one is gone. *)
ReHashLeaves(entries, stored) ==
  /\ MemErrors /\ why # "load"
  /\ \/ size' = size /\ slot' = entries /\ pc' = IF stored THEN "dangling" ELSE "idle"
     \/ size' = 0 /\ slot' = NoTable /\ pc' = "noslots"
  /\ obj' = Free(ins) /\ Returned
  /\ new' = {}
  /\ UNCHANGED <<held, disk, old, i>>

(* InsertL( aCacheEntry ) found a slot. *)
Place(c) ==
  LET p == Pos(obj[ins].url, c)
      entries == [slot EXCEPT ![p] = ins]
  IN /\ pc = "probe" /\ InsertStops(obj[ins].url, c) /\ ~Valid(p)
     /\ count' = count + 1
     /\ IF count + 1 > size \div 2
        THEN \/ ReHashL(entries) /\ placed' = TRUE /\ UNCHANGED retried
             \/ ReHashLeaves(entries, TRUE)
        ELSE /\ slot' = entries
             /\ Inserted \/ InitialiseLeaves
             /\ UNCHANGED <<size, old, i, new>>
     /\ UNCHANGED <<fold, hash, loading>>

(* It did not: rehash and try once more, then give up.  MergeL does not
   expect that. *)
NoSlot(c) ==
  /\ pc = "probe" /\ InsertStops(obj[ins].url, c) /\ Valid(Pos(obj[ins].url, c))
  /\ IF ~retried
     THEN \/ ReHashL(slot) /\ retried' = TRUE /\ UNCHANGED placed
          \/ ReHashLeaves(slot, FALSE)
     ELSE /\ obj' = Free(ins)
          /\ pc' = IF why = "merge" THEN "panic" ELSE Return
          /\ Returned
          /\ UNCHANGED <<size, slot, old, i, new, held, disk>>
  /\ UNCHANGED <<fold, hash, count, loading>>

(* One round of ReHashL's loop: an entry without a slot in the new table
   would be lost. *)
ToMove == {k \in DOMAIN old : k >= i /\ old[k] \in Id}

RehashMove(k, c) ==
  LET p == Pos(obj[old[k]].url, c)
  IN /\ pc = "rehash" /\ k \in ToMove /\ \A j \in ToMove : k <= j
     /\ InsertStops(obj[old[k]].url, c)
     /\ slot' = IF Valid(p) THEN slot ELSE [slot EXCEPT ![p] = old[k]]
     /\ i' = k + 1
     /\ UNCHANGED <<fold, hash, size, count, obj, held, disk, pc, ins, why, retried, placed, old, new, loading>>

RehashDone ==
  /\ pc = "rehash" /\ ToMove = {}
  /\ old' = NoTable /\ i' = 0
  /\ IF placed THEN Inserted \/ InitialiseLeaves
     ELSE pc' = "probe" /\ UNCHANGED <<obj, held, disk, ins, why, retried, placed>>
  /\ UNCHANGED <<fold, hash, table, new, loading>>

-----------------------------------------------------------------------------
(* What the cache handler does with the entries.                           *)

Idle == pc = "idle" /\ UNCHANGED <<fold, hash, loop>>

(* ResponseComplete: the body stays in memory until it is written. *)
ResponseComplete(e) ==
  /\ Idle /\ e \in held /\ obj[e].st = "new"
  /\ \E b \in {"mem"} \cup (IF Zeros THEN {"none"} ELSE {}) :
       obj' = [obj EXCEPT ![e].st = "complete", ![e].body = b]
  /\ held' = held \ {e}
  /\ UNCHANGED <<table, disk>>

Flush(e) ==
  /\ Idle /\ obj[e].st # "free" /\ obj[e].body = "mem"
  /\ obj' = [obj EXCEPT ![e].body = "file"]
  /\ disk' = disk \cup {obj[e].url}
  /\ UNCHANGED <<table, held>>

RequestL(u) ==
  /\ Idle
  /\ \E e \in Find(u) :
       /\ obj[e].st = "complete"
       /\ obj' = [obj EXCEPT ![e].st = "requesting"]
       /\ held' = held \cup {e}
  /\ UNCHANGED <<table, disk>>

(* RequestClosed after a hit. *)
RequestClosed(e) ==
  /\ Idle /\ e \in held /\ obj[e].st = "requesting"
  /\ obj' = [obj EXCEPT ![e].st = "complete"]
  /\ held' = held \ {e}
  /\ UNCHANGED <<table, disk>>

(* DeleteCacheEntry: a response that fails or is closed early; EraseCacheEntry
   looks its URL up again. *)
DeleteCacheEntry(e) ==
  /\ Idle /\ e \in held /\ obj[e].st = "new"
  /\ IF Probe(obj[e].url) = {} THEN UNCHANGED <<table, obj, disk>>
     ELSE \E p \in Probe(obj[e].url) : Erase(p)
  /\ held' = held \ {e}

(* Remove: only an entry that is not in use. *)
Remove(u) ==
  /\ Idle
  /\ \E p \in Probe(u) : obj[slot[p]].st = "complete" /\ Erase(p)
  /\ UNCHANGED held

RemoveAll ==
  LET gone == {p \in 0..size - 1 : Valid(p) /\ obj[slot[p]].st = "complete"}
  IN /\ Idle /\ gone # {}
     /\ slot' = [p \in 0..size - 1 |-> IF p \in gone THEN Deleted ELSE slot[p]]
     /\ count' = count - Cardinality(gone)
     /\ obj' = [e \in Id |-> IF \E p \in gone : slot[p] = e THEN NoEntry ELSE obj[e]]
     /\ disk' = disk \ {obj[slot[p]].url : p \in gone}
     /\ UNCHANGED <<size, held>>

-----------------------------------------------------------------------------
(* MergeL: another process has rewritten index.dat and files of bodies.    *)

MergeL ==
  /\ pc = "idle" /\ Merges
  /\ new' \in SUBSET Url /\ disk' \in SUBSET Url
  /\ Cardinality(new') <= Cardinality({e \in Id : obj[e].st = "free"})
  /\ pc' = "drop" /\ i' = size - 1
  /\ UNCHANGED <<fold, hash, table, obj, held, ins, why, retried, placed, old, loading>>

(* First loop: an entry of ours that is in neither index nor on disk goes,
   unless its body is still in memory. *)
MergeDrop(p) ==
  LET e == slot[p]
      u == obj[e].url
  IN /\ pc = "drop" /\ p \in 0..i /\ Valid(p) /\ \A q \in p + 1..i : ~Valid(q)
     /\ IF u \in new THEN new' = new \ {u} /\ UNCHANGED <<table, obj, disk>>
        ELSE /\ IF obj[e].body = "mem" \/ u \in disk THEN UNCHANGED <<table, obj, disk>>
                ELSE \E q \in Probe(u) : Erase(q)
             /\ UNCHANGED new
     /\ i' = p - 1
     /\ UNCHANGED <<fold, hash, held, pc, ins, why, retried, placed, old, loading>>

MergeDropped ==
  /\ pc = "drop" /\ \A p \in 0..i : ~Valid(p)
  /\ pc' = "adopt" /\ i' = 0
  /\ UNCHANGED <<fold, hash, table, obj, held, disk, ins, why, retried, placed, old, new, loading>>

(* Second loop: entries of the new index whose files exist are inserted. *)
MergeAdopt(u) ==
  /\ pc = "adopt" /\ u \in new
  /\ new' = new \ {u}
  /\ IF u \in disk
     THEN \E e \in Id :
            /\ obj[e].st = "free"
            /\ obj' = [obj EXCEPT ![e] = NewEntry(u)]
            /\ Start(e, "merge")
     ELSE UNCHANGED <<obj, pc, ins, why, retried, placed, old, i>>
  /\ UNCHANGED <<fold, hash, table, held, disk, loading>>

MergeDone ==
  /\ pc = "adopt" /\ new = {}
  /\ pc' = "idle"
  /\ UNCHANGED <<fold, hash, table, obj, held, disk, ins, why, retried, placed, old, i, new, loading>>

-----------------------------------------------------------------------------
(* The cache is closed, which saves every entry with a body, and opened.   *)

Reread(e) == [url |-> obj[e].url, st |-> "complete", body |-> "file"]

Reload ==
  LET stored == {slot[p] : p \in {q \in 0..size - 1 : Valid(q)}}
      saved == {e \in stored : obj[e].body # "none"}
  IN /\ pc = "idle" /\ Reloads /\ held = {}
     /\ size' = InitialSize /\ slot' = [p \in 0..InitialSize - 1 |-> Null] /\ count' = 0
     /\ obj' = [e \in Id |-> IF e \in saved THEN Reread(e) ELSE NoEntry]
     /\ disk' = disk \cup {obj[e].url : e \in {f \in saved : obj[f].body = "mem"}}
     /\ loading' = saved /\ pc' = "load"
     /\ UNCHANGED <<fold, hash, held, ins, why, retried, placed, old, i, new>>

LoadEntry(e) ==
  /\ pc = "load" /\ e \in loading
  /\ loading' = loading \ {e}
  /\ Start(e, "load")
  /\ UNCHANGED <<fold, hash, table, obj, held, disk, new>>

(* Reading an entry leaves: ConstructL starts with an empty table instead. *)
LoadLeaves ==
  /\ pc = "load" /\ loading # {} /\ MemErrors
  /\ size' = InitialSize /\ slot' = [p \in 0..InitialSize - 1 |-> Null] /\ count' = 0
  /\ obj' = [e \in Id |-> NoEntry]
  /\ loading' = {} /\ pc' = "idle"
  /\ UNCHANGED <<fold, hash, held, disk, ins, why, retried, placed, old, i, new>>

LoadDone ==
  /\ pc = "load" /\ loading = {}
  /\ pc' = "idle"
  /\ UNCHANGED <<fold, hash, table, obj, held, disk, ins, why, retried, placed, old, i, new, loading>>

-----------------------------------------------------------------------------
Next ==
  \/ \E u \in Url : InsertL(u) \/ RequestL(u) \/ Remove(u) \/ MergeAdopt(u)
  \/ \E c \in 0..size \div 2 : Place(c) \/ NoSlot(c) \/ \E k \in ToMove : RehashMove(k, c)
  \/ RehashDone
  \/ \E e \in Id : \/ ResponseComplete(e) \/ Flush(e) \/ RequestClosed(e)
                   \/ DeleteCacheEntry(e) \/ LoadEntry(e)
  \/ RemoveAll \/ MergeL \/ (\E p \in 0..size - 1 : MergeDrop(p)) \/ MergeDropped \/ MergeDone
  \/ Reload \/ LoadLeaves \/ LoadDone

Spec == Init /\ [][Next]_vars

-----------------------------------------------------------------------------
Slot == Id \cup {Null, Deleted}

(* The slots of the table hold addresses, null or the tombstone, within the
   size ReHashL allocated, in every step of its loops. *)
TypeOK ==
  /\ fold \in [Url -> Url] /\ hash \in [Url -> Nat]
  /\ size \in Nat /\ slot \in [0..size - 1 -> Slot] /\ count \in Int
  /\ obj \in [Id -> EntryObject]
  /\ held \subseteq Id /\ disk \subseteq Url
  /\ pc \in {"idle", "probe", "rehash", "drop", "adopt", "load", "dangling", "noslots", "panic"}
  /\ ins \in Id \cup {Null} /\ why \in {"url", "merge", "load"}
  /\ retried \in BOOLEAN /\ placed \in BOOLEAN
  /\ i \in Int /\ DOMAIN old \subseteq Nat /\ old \in [DOMAIN old -> Slot]
  /\ new \subseteq Url /\ loading \subseteq Id

(* Find finds what is stored: whatever was inserted, erased and rehashed,
   the probe sequence of a stored entry's URL ends at an entry of that URL. *)
Findable ==
  /\ TypeOK
  /\ pc \in {"idle", "probe", "drop", "adopt", "load"} =>
    \A p \in 0..size - 1 : Valid(p) => Probe(obj[slot[p]].url) # {}

Stored == {p \in 0..size - 1 : Valid(p)}

(* iCount is the number of stored entries, those still in the old table
   included, so the table is never more than half full between two
   insertions. *)
Counted ==
  size > 0 => /\ count = Cardinality(Stored) + Cardinality(ToMove)
              /\ pc \notin {"rehash", "dangling"} => count <= size \div 2

(* Probing, tombstones, rehashing and reloading are invisible: the table
   implements a set of entries that only the operations on it change. An
   entry belongs to it from the call of InsertL on: no insertion is given up. *)
Contents == {slot[p] : p \in Stored} \cup {old[k] : k \in ToMove} \cup loading
              \cup (IF pc \in {"probe", "rehash"} /\ ~placed THEN {ins} ELSE {})
IndexEntry(e) == [url |-> obj[e].url, used |-> obj[e].st # "complete", body |-> obj[e].body # "none"]
IndexEntries == [e \in Contents |-> IndexEntry(e)]
Index == INSTANCE HttpCacheIndex WITH entry <- IndexEntries
IndexSpec == Index!Spec

-----------------------------------------------------------------------------
(* What comments in the code say, and the code does not keep.              *)

(* One entry for a URL: ReceivedResponseHeadersL checks "if the entry is
   already in the cache" before it inserts one. *)
OneEntryPerUrl ==
  \A p, q \in Stored : Same(obj[slot[p]].url, obj[slot[q]].url) => p = q

(* A transaction never points to a deleted entry: MergeL keeps an entry that
   "may not be on disk yet". *)
HeldAlive == \A e \in held : obj[e].st # "free"

(* DeleteCacheEntry removes the entry it is given "from the lookuptable". *)
EraseIntended ==
  [][\A e \in Id : DeleteCacheEntry(e) => obj'[e].st = "free"]_vars

(* "lookuptable takes ownership" of an entry: it points to live ones only. *)
SlotsAlive == \A p \in Stored : obj[slot[p]].st # "free"

(* InitialiseCacheEntryL deletes "files left over with no index entry", never
   the file of an entry MergeL takes from the new index. *)
LeftoversOnly ==
  [][(pc \in {"probe", "rehash"} /\ why = "merge") => (disk \subseteq disk')]_vars

=============================================================================
