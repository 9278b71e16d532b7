---------------------- MODULE HttpCacheEvictionHandler ----------------------
(***************************************************************************)
(* CHttpCacheEvictionHandler and the space accounting around it.  Complete *)
(* entries wait in five lists (buckets), chosen by the logarithm of body   *)
(* size / reference count, the least recently used first.  Before headers  *)
(* or body data are saved, CacheNeedsSpaceL compares iContentSize with the *)
(* size of the cache and lets EvictL choose the entries that have to go:   *)
(* of the first entries of the buckets, always the one with the largest    *)
(* age * size / references.                                                *)
(*                                                                         *)
(* An operation runs to its end before the next one starts.  The one that  *)
(* saves data is job; the rounds of EvictL's loop are its steps.           *)
(***************************************************************************)
EXTENDS Integers, Sequences, FiniteSets, SequencesExt

CONSTANTS
  Entry,
  HeaderLen,    \* lengths of saved headers
  ChunkLen,     \* lengths of received body data
  Size,         \* iSize: the capacity of the cache
  ProtectedRef, \* reference count of a protected entry, 50
  RefModulus,   \* iRef has 16 bits: 65536
  Word,         \* a TUint has 32 bits: 2^32
  MaxBody,      \* bound on the body size
  MaxRef,       \* bound on the reference counts that are still accessed
  MaxTime,      \* bound on the clock
  Events        \* which of the events below may happen

ASSUME EntryAssumption == IsFiniteSet(Entry)
ASSUME LenAssumption == HeaderLen \subseteq Nat \ {0} /\ ChunkLen \subseteq Nat \ {0}
ASSUME RangeAssumption ==
  /\ Size \in Nat /\ MaxBody \in Nat /\ MaxTime \in Nat /\ MaxRef \in Nat
  /\ RefModulus \in Nat \ {0, 1} /\ Word \in Nat \ {0} /\ Word % 2 = 0
  /\ ProtectedRef \in 1..RefModulus - 1
ASSUME EventAssumption ==
  Events \subseteq {"disk", "create", "heap", "merge", "header", "restart", "clock"}

DiskErrors == "disk" \in Events    \* the disk may be too full for headers
CreateErrors == "create" \in Events \* no memory, and no body file can be created
MemErrors == "heap" \in Events     \* EvictL may run out of memory
Merges == "merge" \in Events       \* another process rewrites index.dat
AddsHeaders == "header" \in Events \* the browser adds headers to entries
Restarts == "restart" \in Events   \* the cache may be closed and opened again
ClockJumps == "clock" \in Events   \* the home time may be set back

VARIABLES
  ent,     \* the entries
  bucket,  \* iBuckets
  content, \* CHttpCacheStreamHandler::iContentSize
  clock,   \* TTime::HomeTime, in seconds
  job,     \* the SaveBuffer that is running
  need,    \* EvictL: aSpaceNeeded
  evicted  \* EvictL: evictedEntries

vars == <<ent, bucket, content, clock, job, need, evicted>>

Buckets == 0..4   \* KHttpCacheBucketNum

EntryRecord == [st : {"free", "responding", "complete", "requesting", "destroyed"},
                size : Nat, hdr : Nat, ref : Nat, last : Int,
                cand : BOOLEAN,  \* iEvictionCandidate
                del : BOOLEAN,   \* BodyFileDeleteNeeded
                body : {"none", "mem", "writing", "file"}]
NoEntry == [st |-> "free", size |-> 0, hdr |-> 0, ref |-> 0, last |-> 0,
            cand |-> FALSE, del |-> FALSE, body |-> "none"]

(* What is saved, for which entry and whether CacheNeedsSpaceL had to evict. *)
Job == [kind : {"none", "freed", "new", "update", "merged", "original", "add", "restore", "body"},
        e : Entry \cup {"none"}, n : Nat, old : Nat, full : BOOLEAN]
NoJob == [kind |-> "none", e |-> "none", n |-> 0, old |-> 0, full |-> FALSE]

Init ==
  /\ ent = [e \in Entry |-> NoEntry]
  /\ bucket = [b \in Buckets |-> <<>>]
  /\ content = 0 /\ clock = 0
  /\ job = NoJob /\ need = 0 /\ evicted = {}

-----------------------------------------------------------------------------
(* Buckets.                                                                *)

(* The logarithm rounded up, 0 for 0: how many powers of two are
   less (up to 2^31; all that is above goes to the last bucket). *)
FastLog2(n) == Cardinality({l \in 0..30 : 2^l < n})

BucketIndex(v) ==
  CASE v = 1 -> 0
    [] v # 1 /\ v < 4 -> 1
    [] v \in 4..7 -> 2
    [] v \in 8..15 -> 3
    [] v > 15 -> 4

IndexOf(size, ref) == BucketIndex(FastLog2(size \div ref))
Home(r) == IndexOf(r.size, r.ref)

In(s, e) == e \in ToSet(s)

(* Mutant: the bucket is chosen by the size alone. *)
InsertMutant(bs, e, r) ==
  [bs EXCEPT ![IndexOf(r.size, 1)] = Append(@, e)]

(* Insert of entry e, whose fields are r, into the buckets bs. *)
Insert(bs, e, r) == [bs EXCEPT ![Home(r)] = Append(@, e)]

(* Remove looks only in the bucket that fits the fields. *)
RemoveFrom(bs, e, r) == [bs EXCEPT ![Home(r)] = RemoveFirst(@, e)]

(* Accessed, after Ref() has become r.ref: the entry is moved when it is in
   the bucket of the count before. *)
Moved(bs, e, r) ==
  LET old == IndexOf(r.size, r.ref - 1)
  IN IF r.ref > 1 /\ In(bs[old], e)
     THEN Insert([bs EXCEPT ![old] = RemoveFirst(@, e)], e, r)
     ELSE bs

(* CHttpCacheEntry::SetState( ECacheComplete ) inserts an entry that is not
   in a bucket. *)
SetComplete(bs, e, r) == IF r.cand THEN bs ELSE Insert(bs, e, r)
Completed(r) == [r EXCEPT !.st = "complete", !.cand = TRUE]

(* CHttpCacheEntry::SetBodySize( 0 ). *)
Emptied(r) == IF r.size > 0 THEN [r EXCEPT !.size = 0, !.cand = FALSE] ELSE r
EmptiedBuckets(bs, e, r) == IF r.size > 0 /\ r.cand THEN RemoveFrom(bs, e, r) ELSE bs

(* The destructor takes a candidate out of its bucket. *)
Destroyed(bs, e, r) == IF r.cand THEN RemoveFrom(bs, e, r) ELSE bs

Occupied(r) == r.size + r.hdr
BytesOf(S, es) == UNION {{e} \X (1..Occupied(es[e])) : e \in S}
TotalOf(S, es) == Cardinality(BytesOf(S, es))

(* Mutant of Erase: the headers are not subtracted. *)
EraseMutant(e, es, bs, c) ==
  /\ ent' = [es EXCEPT ![e] = NoEntry]
  /\ bucket' = Destroyed(bs, e, es[e])
  /\ content' = c - es[e].size

(* Erase of an entry, from entries es, buckets bs and a content size of c. *)
Erase(e, es, bs, c) ==
  /\ ent' = [es EXCEPT ![e] = NoEntry]
  /\ bucket' = Destroyed(bs, e, es[e])
  /\ content' = c - Occupied(es[e])

-----------------------------------------------------------------------------
(* SaveBuffer and CacheNeedsSpaceL.                                        *)

Idle == job = NoJob

(* Mutant: the size before the save is compared with the capacity. *)
SaveBufferMutant(kind, e, n, old, c) ==
  /\ job' = [kind |-> kind, e |-> e, n |-> n, old |-> old, full |-> c > Size]
  /\ need' = IF c > Size THEN n ELSE 0
  /\ evicted' = {}

(* SaveBuffer of n bytes when c bytes are occupied: "check if we need extra
   space". *)
SaveBuffer(kind, e, n, old, c) ==
  /\ job' = [kind |-> kind, e |-> e, n |-> n, old |-> old, full |-> c + n > Size]
  /\ need' = IF c + n > Size THEN n ELSE 0
  /\ evicted' = {}

(* EvictL looks at the first entry of each bucket, if it is not in use. *)
Evictable(e) == ent[e].st = "complete" /\ ent[e].body # "writing"
Heads == {b \in Buckets : bucket[b] # <<>> /\ Evictable(Head(bucket[b]))}

(* DeltaT * Size / Ref, and what 32 bits make of it: an unsigned quotient
   that is read as a signed number. *)
Cost(e) == ((clock - ent[e].last) * ent[e].size) \div ent[e].ref
Val(e) ==
  LET v == (((clock - ent[e].last) * ent[e].size) % Word) \div ent[e].ref
  IN IF v < Word \div 2 THEN v ELSE v - Word

(* Mutant: maxVal starts with 0. *)
ChosenMutant ==
  {b \in Heads : LET v == Val(Head(bucket[b])) IN
     v > 0 /\ \A c \in Heads : IF c < b THEN Val(Head(bucket[c])) < v
                                         ELSE Val(Head(bucket[c])) <= v}

(* The bucket whose first entry goes: the first of those with the largest
   value, which must not be negative. *)
Chosen ==
  {b \in Heads : LET v == Val(Head(bucket[b])) IN
     v > -1 /\ \A c \in Heads : IF c < b THEN Val(Head(bucket[c])) < v
                                          ELSE Val(Head(bucket[c])) <= v}

EvictL(b) ==
  LET e == Head(bucket[b])
  IN /\ job.kind # "freed" /\ need > 0 /\ b \in Chosen
     /\ bucket' = [bucket EXCEPT ![b] = Tail(@)]
     /\ need' = need - Occupied(ent[e])
     /\ evicted' = evicted \cup {e}
     /\ UNCHANGED <<ent, content, clock, job>>

(* EvictL has returned: the entries it chose are deleted; they are no longer
   candidates, so their destructors leave the buckets alone. *)
EvictEnds == ~Idle /\ job.kind # "freed" /\ (need <= 0 \/ Chosen = {})
Left == [e \in Entry |-> IF e \in evicted THEN NoEntry ELSE ent[e]]
LeftContent == content - TotalOf(evicted, ent)

Enough == job.full => evicted # {} /\ LeftContent + job.n < Size

(* SaveHeaders succeeded: a 304 makes the entry complete again. *)
HeadersSaved(r) ==
  LET saved == [r EXCEPT !.hdr = job.n]
  IN CASE job.kind = "new" -> saved
       [] job.kind = "update" -> [saved EXCEPT !.del = r.size > 0]
       [] job.kind \in {"merged", "original"} -> Completed(saved)
       [] job.kind \in {"add", "restore"} -> saved

Saved ==
  /\ EvictEnds /\ Enough /\ job.e \notin evicted
  /\ LET r == ent[job.e]
     IN /\ ent' = [Left EXCEPT ![job.e] =
                     IF job.kind = "body" THEN [r EXCEPT !.size = @ + job.n, !.body = "mem"]
                     ELSE HeadersSaved(r)]
        /\ bucket' = IF job.kind \in {"merged", "original"}
                     THEN SetComplete(bucket, job.e, r) ELSE bucket
  /\ content' = LeftContent + job.n
  /\ job' = NoJob /\ need' = 0 /\ evicted' = {}
  /\ UNCHANGED clock

(* It failed.  The original headers are tried once; then, and for all other
   data, the entry is deleted. *)
Fail(es, bs) ==
  /\ IF job.kind \in {"merged", "add"} /\ job.old > 0
     THEN /\ ent' = es /\ bucket' = bs /\ content' = LeftContent
          /\ SaveBuffer(IF job.kind = "add" THEN "restore" ELSE "original",
                        job.e, job.old, 0, LeftContent)
     ELSE /\ Erase(job.e, es, bs, LeftContent)
          /\ job' = NoJob /\ need' = 0 /\ evicted' = {}
  /\ UNCHANGED clock

NotSaved ==
  /\ EvictEnds /\ job.e \notin evicted
  /\ ~Enough \/ (DiskErrors /\ job.kind # "body")
  /\ Fail(Left, bucket)

(* SaveBodyData has no memory for the data and cannot create the body file. *)
BodyNotSaved ==
  /\ EvictEnds /\ Enough /\ CreateErrors /\ job.kind = "body" /\ job.e \notin evicted
  /\ Fail([Left EXCEPT ![job.e] = Emptied(@)], EmptiedBuckets(bucket, job.e, ent[job.e]))

(* EvictL has deleted the very entry that is to be saved. *)
SavesFreed ==
  /\ EvictEnds /\ job.e \in evicted
  /\ ent' = Left /\ content' = LeftContent
  /\ job' = [job EXCEPT !.kind = "freed"] /\ need' = 0 /\ evicted' = {}
  /\ UNCHANGED <<bucket, clock>>

(* The first evictedEntries->AppendL leaves: what was taken out of the
   buckets stays out. *)
EvictLeaves(b) ==
  /\ MemErrors /\ job.kind # "freed" /\ need > 0 /\ b \in Chosen /\ evicted = {}
  /\ Fail(ent, [bucket EXCEPT ![b] = Tail(@)])

-----------------------------------------------------------------------------
(* Operations of the cache handler.                                        *)

(* ReceivedResponseHeadersL: InsertL accesses the new entry once, SetProtected
   gives it its count. *)
NewResponse(e) ==
  /\ Idle /\ ent[e].st = "free"
  /\ \E ref \in {1, ProtectedRef}, n \in HeaderLen :
       /\ ent' = [ent EXCEPT ![e] = [NoEntry EXCEPT !.st = "responding", !.ref = ref, !.last = clock]]
       /\ SaveBuffer("new", e, n, 0, content)
  /\ UNCHANGED <<bucket, content, clock>>

Findable(e) == ent[e].st # "free" /\ ~(ent[e].st = "complete" /\ ent[e].size = 0)

(* RemoveHeaders, then SaveBuffer of the new ones. *)
ReplaceHeaders(kind, e, r) ==
  /\ ent' = [ent EXCEPT ![e] = [r EXCEPT !.hdr = 0]]
  /\ content' = content - r.hdr
  /\ \E n \in HeaderLen : SaveBuffer(kind, e, n, r.hdr, content - r.hdr)
  /\ UNCHANGED <<bucket, clock>>

(* Mutant: the entry is complete while its new headers are saved. *)
UpdatedResponseMutant(e) ==
  /\ Idle /\ ent[e].st = "complete" /\ Findable(e)
  /\ \E kind \in {"update", "merged"} : ReplaceHeaders(kind, e, ent[e])

(* HandleResponseOkL and HandleResponseNotModifiedL. *)
UpdatedResponse(e) ==
  /\ Idle /\ ent[e].st = "complete" /\ Findable(e)
  /\ \E kind \in {"update", "merged"} :
       ReplaceHeaders(kind, e, [ent[e] EXCEPT !.st = "responding"])

AddHeaderL(e) ==
  /\ Idle /\ AddsHeaders /\ Findable(e)
  /\ ReplaceHeaders("add", e, ent[e])

(* RemoveBodyData if the old body must go, then SaveBuffer. *)
ReceivedResponseBodyDataL(e, n) ==
  /\ Idle /\ ent[e].st = "responding"
  /\ LET r == ent[e]
         c == IF r.del THEN content - r.size ELSE content
     IN /\ (IF r.del THEN 0 ELSE r.size) + n <= MaxBody
        /\ ent' = [ent EXCEPT ![e] = IF r.del THEN [Emptied(r) EXCEPT !.del = FALSE] ELSE r]
        /\ bucket' = IF r.del THEN EmptiedBuckets(bucket, e, r) ELSE bucket
        /\ content' = c
        /\ SaveBuffer("body", e, n, 0, c)
  /\ UNCHANGED clock

(* ResponseComplete: the body is flushed now or written later. *)
ResponseComplete(e) ==
  /\ Idle /\ ent[e].st = "responding"
  /\ \E body \in {ent[e].body, IF ent[e].body = "none" THEN "none" ELSE "file"} :
       ent' = [ent EXCEPT ![e] = [Completed(@) EXCEPT !.body = body]]
  /\ bucket' = SetComplete(bucket, e, ent[e])
  /\ UNCHANGED <<content, clock, job, need, evicted>>

(* Flush cannot create the body file: SetBodySize( 0 ), then deletion. *)
FlushFails(e) ==
  /\ Idle /\ CreateErrors /\ ent[e].st = "responding"
  /\ Erase(e, [ent EXCEPT ![e] = Emptied(@)], EmptiedBuckets(bucket, e, ent[e]), content)
  /\ UNCHANGED <<clock, job, need, evicted>>

WriteStarts(e) ==
  /\ Idle /\ ent[e].st \in {"complete", "requesting"} /\ ent[e].body = "mem"
  /\ ent' = [ent EXCEPT ![e].body = "writing"]
  /\ UNCHANGED <<bucket, content, clock, job, need, evicted>>

WriteEnds(e) ==
  /\ Idle /\ ent[e].body = "writing"
  /\ ent' = [ent EXCEPT ![e].body = "file"]
  /\ UNCHANGED <<bucket, content, clock, job, need, evicted>>

(* CHttpCacheEntry::Accessed. *)
Accessed(r, la, ref) == [r EXCEPT !.last = la, !.ref = ref % RefModulus]

RequestL(e) ==
  /\ Idle /\ ent[e].st = "complete" /\ Findable(e) /\ ent[e].ref < MaxRef
  /\ LET r == Accessed(ent[e], clock, ent[e].ref + 1)
     IN /\ ent' = [ent EXCEPT ![e] = [r EXCEPT !.st = "requesting"]]
        /\ bucket' = IF r.cand THEN Moved(bucket, e, r) ELSE bucket
  /\ UNCHANGED <<content, clock, job, need, evicted>>

(* RequestClosed: after a hit, or before the response was complete. *)
RequestClosed(e) ==
  /\ Idle
  /\ \/ /\ ent[e].st = "requesting"
        /\ ent' = [ent EXCEPT ![e] = Completed(@)]
        /\ bucket' = SetComplete(bucket, e, ent[e])
        /\ UNCHANGED content
     \/ ent[e].st \in {"responding", "destroyed"} /\ Erase(e, ent, bucket, content)
  /\ UNCHANGED <<clock, job, need, evicted>>

(* RemoveL: an entry in use is deleted when its transaction ends. *)
RemoveL(e) ==
  /\ Idle /\ Findable(e)
  /\ \/ ent[e].st = "complete" /\ Erase(e, ent, bucket, content)
     \/ /\ ent[e].st \in {"responding", "requesting"}
        /\ ent' = [ent EXCEPT ![e].st = "destroyed"]
        /\ UNCHANGED <<bucket, content>>
  /\ UNCHANGED <<clock, job, need, evicted>>

(* The cache is closed and opened: the index keeps the entries with a body
   and InternalizeL inserts them in the order of the hash table. *)
Live == {e \in Entry : ent[e].st # "free"}
Orders(S) == {f \in [1..Cardinality(S) -> S] : \A j, k \in DOMAIN f : f[j] = f[k] => j = k}
Restart ==
  LET kept == {e \in Live : ent[e].size > 0}
      At(b) == Orders({e \in kept : Home(ent[e]) = b})
  IN /\ Idle /\ Restarts /\ \A e \in Live : ent[e].st = "complete"
     /\ \E s0 \in At(0), s1 \in At(1), s2 \in At(2), s3 \in At(3), s4 \in At(4) :
          bucket' = [b \in Buckets |-> CASE b = 0 -> s0 [] b = 1 -> s1 [] b = 2 -> s2
                                          [] b = 3 -> s3 [] b = 4 -> s4]
     /\ ent' = [e \in Entry |-> IF e \in kept
                                THEN [ent[e] EXCEPT !.cand = TRUE, !.del = FALSE, !.body = "file"]
                                ELSE NoEntry]
     /\ content' = TotalOf(kept, ent)
     /\ UNCHANGED <<clock, job, need, evicted>>

(* UpdateLookupTableL: InternalizeL of the other process's index sets
   iContentSize; MergeL takes over a later access of an entry. *)
MergeL(e) ==
  /\ Idle /\ Merges /\ ent[e].st # "free"
  /\ content' \in 0..Size
  /\ \E la \in ent[e].last + 1..clock, ref \in 1..MaxRef :
       LET r == Accessed(ent[e], la, ref)
       IN /\ ent' = [ent EXCEPT ![e] = r]
          /\ bucket' = IF r.cand THEN Moved(bucket, e, r) ELSE bucket
  /\ UNCHANGED <<clock, job, need, evicted>>

Tick ==
  /\ Idle
  /\ \/ clock < MaxTime /\ clock' = clock + 1
     \/ ClockJumps /\ clock > 0 /\ clock' = 0
  /\ UNCHANGED <<ent, bucket, content, job, need, evicted>>

Next ==
  \/ \E e \in Entry :
       \/ NewResponse(e) \/ UpdatedResponse(e) \/ AddHeaderL(e)
       \/ \E n \in ChunkLen : ReceivedResponseBodyDataL(e, n)
       \/ ResponseComplete(e) \/ FlushFails(e) \/ WriteStarts(e) \/ WriteEnds(e)
       \/ RequestL(e) \/ RequestClosed(e) \/ RemoveL(e) \/ MergeL(e)
  \/ \E b \in Buckets : EvictL(b) \/ EvictLeaves(b)
  \/ Saved \/ NotSaved \/ BodyNotSaved \/ SavesFreed
  \/ Restart \/ Tick

Spec == Init /\ [][Next]_vars

-----------------------------------------------------------------------------
(* The entries, the buckets and the save in progress. *)
TypeOK ==
  /\ ent \in [Entry -> EntryRecord]
  /\ bucket \in [Buckets -> Seq(Entry)]
  /\ content \in Int /\ clock \in Nat
  /\ job \in Job /\ need \in Int /\ evicted \subseteq Entry

(* Whatever happens to the size and the count of an entry, it stays in the
   bucket where Remove and Accessed will look for it: a candidate is linked
   once, there, and nothing else, no deleted entry above all, is linked. *)
CandidatesLinked ==
  \A e \in Entry : ent[e].cand /\ e \notin evicted => In(bucket[Home(ent[e])], e)
OnlyCandidates ==
  \A b \in Buckets : \A e \in ToSet(bucket[b]) :
    ent[e].st # "free" /\ ent[e].cand /\ e \notin evicted /\ Home(ent[e]) = b
LinkedOnce ==
  \A b \in Buckets : \A j, k \in 1..Len(bucket[b]) : bucket[b][j] = bucket[b][k] => j = k
Linked == TypeOK /\ CandidatesLinked /\ OnlyCandidates /\ LinkedOnce

(* iContentSize is what the entries occupy, through every save, eviction,
   replacement, failure and reload. *)
Accounted == content = TotalOf(Live, ent)

(* The cache never outgrows its capacity. *)
WithinSize == content <= Size

(* Data is never saved into an entry that its own save has evicted. *)
TargetAlive == job.kind # "freed"

(* Room is found when there is any: a save that the capacity forbids is
   refused only if another entry is in use, or the entry itself still stands
   in a bucket, or its data would fill the cache up. *)
InUse(e) == ent[e].st # "free" /\ ~Evictable(e)
RoomFound ==
  (EvictEnds /\ ~Enough) =>
    \/ \E e \in Entry \ {job.e} : InUse(e)
    \/ ent[job.e].cand
    \/ Occupied(ent[job.e]) + job.n >= Size
    \/ LeftContent + job.n = Size

-----------------------------------------------------------------------------
(* What comments in the code say, and the code does not keep.              *)

(* "Buckets are orderd by LRU": an entry is inserted when its response is
   complete, which may be long after it was last accessed. *)
LruOrder ==
  \A b \in Buckets : \A j, k \in 1..Len(bucket[b]) :
    j < k => ent[bucket[b][j]].last <= ent[bucket[b][k]].last

(* ConstructL lists the buckets: "size/nref = 1 to 1", "2 to 3", "4 to 7",
   "8 to 15" and "> 15"; BucketIndex takes the logarithm for the quotient. *)
Listed(b) == CASE b = 0 -> 1..1 [] b = 1 -> 2..3 [] b = 2 -> 4..7 [] b = 3 -> 8..15
               [] b = 4 -> {q \in 0..MaxBody : q > 15}
BucketsAsListed ==
  \A b \in Buckets : \A k \in 1..Len(bucket[b]) :
    LET r == ent[bucket[b][k]] IN r.size > 0 => r.size \div r.ref \in Listed(b)

(* EvictL purges "the object with largest ( DeltaT * Size / Ref )". *)
LargestGoes ==
  [][\A b \in Buckets : EvictL(b) => \A c \in Heads : Cost(Head(bucket[c])) <= Cost(Head(bucket[b]))]_vars

(* "nobody can be evicted" means that every entry is in use: an entry in use
   at the head of a bucket hides those behind it. *)
GivesUpOnlyIfNone ==
  [][(need > 0 /\ EvictEnds) => \A b \in Buckets : \A k \in 1..Len(bucket[b]) : ~Evictable(bucket[b][k])]_vars

(* CacheNeedsSpaceL answers "ETrue if there is enough space". *)
EnoughMeansFits == (EvictEnds /\ evicted # {} /\ LeftContent + job.n <= Size) => Enough

(* No entry has a count of 0, by which Remove and EvictL would divide:
   "entry with 0 starting refcount??? doh." *)
RefPositive == \A e \in Live : ent[e].ref > 0
=============================================================================
