------------------- MODULE HttpCacheEvictionHandlerProofs -------------------
(***************************************************************************)
(* Proofs about the space accounting and the buckets of the cache.          *)
(***************************************************************************)
EXTENDS HttpCacheEvictionHandler, QueueLemmas, FiniteSetTheorems

-----------------------------------------------------------------------------
(* What the entries occupy                                                  *)

(* What an entry occupies is a number. *)
LEMMA OccupiedType ==
  ASSUME NEW r \in EntryRecord
  PROVE  Occupied(r) \in Nat
BY DEF Occupied, EntryRecord

(* The bytes of one entry. *)
LEMMA OneEntry ==
  ASSUME NEW e, NEW n \in Nat
  PROVE  IsFiniteSet({e} \X (1..n)) /\ Cardinality({e} \X (1..n)) = n
<1>1. IsFiniteSet({e}) /\ Cardinality({e}) = 1
  BY FS_Singleton
<1>2. IsFiniteSet(1..n) /\ Cardinality(1..n) = n
  BY FS_Interval
<1>3. IsFiniteSet({e} \X (1..n)) /\ Cardinality({e} \X (1..n)) = Cardinality({e}) * Cardinality(1..n)
  BY <1>1, <1>2, FS_Product, Zenon
<1>4. Cardinality({e} \X (1..n)) = 1 * n
  BY <1>1, <1>2, <1>3, Zenon
<1>. QED BY <1>3, <1>4

(* The bytes of finitely many entries are finitely many. *)
LEMMA BytesFinite ==
  ASSUME NEW S \in SUBSET Entry, NEW es \in [Entry -> EntryRecord]
  PROVE  IsFiniteSet(BytesOf(S, es)) /\ TotalOf(S, es) \in Nat
<1> DEFINE f == [e \in S |-> {e} \X (1..Occupied(es[e]))]
           T == {f[e] : e \in S}
<1>1. IsFiniteSet(S)
  BY EntryAssumption, FS_Subset
<1>2. f \in Surjection(S, T)
  BY DEF Surjection
<1>3. IsFiniteSet(T)
  BY <1>1, <1>2, FS_Surjection, Zenon
<1>4. \A s \in T : IsFiniteSet(s)
  <2> SUFFICES ASSUME NEW e \in S PROVE IsFiniteSet(f[e])
    OBVIOUS
  <2>1. Occupied(es[e]) \in Nat
    BY OccupiedType
  <2>. QED BY <2>1, OneEntry
<1>5. BytesOf(S, es) = UNION T
  BY DEF BytesOf
<1> HIDE DEF T
<1>6. IsFiniteSet(BytesOf(S, es))
  BY <1>3, <1>4, <1>5, FS_UNION
<1>. QED BY <1>6, FS_CardinalityType DEF TotalOf

(* No entries occupy nothing. *)
LEMMA TotalOfNone ==
  ASSUME NEW es
  PROVE  TotalOf({}, es) = 0
<1>1. BytesOf({}, es) = {}
  BY DEF BytesOf
<1>. QED BY <1>1, FS_EmptySet DEF TotalOf

(* Only what the entries of a set occupy counts for its total. *)
LEMMA TotalSame ==
  ASSUME NEW S \in SUBSET Entry, NEW es, NEW fs,
         \A e \in S : Occupied(fs[e]) = Occupied(es[e])
  PROVE  BytesOf(S, fs) = BytesOf(S, es) /\ TotalOf(S, fs) = TotalOf(S, es)
<1>1. BytesOf(S, fs) = BytesOf(S, es)
  BY DEF BytesOf
<1>. QED BY <1>1 DEF TotalOf

(* The totals of two disjoint sets add up. *)
LEMMA TotalSplit ==
  ASSUME NEW S \in SUBSET Entry, NEW T \in SUBSET Entry, S \cap T = {},
         NEW es \in [Entry -> EntryRecord]
  PROVE  TotalOf(S \cup T, es) = TotalOf(S, es) + TotalOf(T, es)
<1>1. BytesOf(S \cup T, es) = BytesOf(S, es) \cup BytesOf(T, es)
  BY DEF BytesOf
<1>2. BytesOf(S, es) \cap BytesOf(T, es) = {}
  BY DEF BytesOf
<1>3. IsFiniteSet(BytesOf(S, es)) /\ IsFiniteSet(BytesOf(T, es))
  BY BytesFinite
<1>4. Cardinality(BytesOf(S, es)) \in Nat /\ Cardinality(BytesOf(T, es)) \in Nat
  BY <1>3, FS_CardinalityType
<1>5. Cardinality({}) = 0
  BY FS_EmptySet
<1>6. Cardinality(BytesOf(S, es) \cup BytesOf(T, es))
        = Cardinality(BytesOf(S, es)) + Cardinality(BytesOf(T, es))
            - Cardinality(BytesOf(S, es) \cap BytesOf(T, es))
  BY <1>3, FS_Union
<1>7. Cardinality(BytesOf(S \cup T, es)) = Cardinality(BytesOf(S, es)) + Cardinality(BytesOf(T, es)) - 0
  BY <1>1, <1>2, <1>5, <1>6, Zenon
<1>. QED BY <1>4, <1>7 DEF TotalOf

(* The total of one entry. *)
LEMMA TotalOfOne ==
  ASSUME NEW e \in Entry, NEW es \in [Entry -> EntryRecord]
  PROVE  TotalOf({e}, es) = Occupied(es[e])
<1>1. BytesOf({e}, es) = {e} \X (1..Occupied(es[e]))
  BY DEF BytesOf
<1>. QED BY <1>1, OneEntry, OccupiedType DEF TotalOf

(* What one entry more or less occupies, the whole does. *)
LEMMA TotalUpdate ==
  ASSUME NEW e \in Entry,
         NEW es \in [Entry -> EntryRecord], NEW fs \in [Entry -> EntryRecord],
         \A x \in Entry \ {e} : Occupied(fs[x]) = Occupied(es[x])
  PROVE  TotalOf(Entry, fs) = TotalOf(Entry, es) - Occupied(es[e]) + Occupied(fs[e])
<1> DEFINE R == Entry \ {e}
<1>1. R \in SUBSET Entry /\ {e} \in SUBSET Entry /\ R \cap {e} = {} /\ R \cup {e} = Entry
  OBVIOUS
<1>2. TotalOf(R, fs) = TotalOf(R, es)
  BY <1>1, TotalSame
<1>3. ASSUME NEW gs \in [Entry -> EntryRecord]
      PROVE  TotalOf(Entry, gs) = TotalOf(R, gs) + Occupied(gs[e])
  <2> HIDE DEF R
  <2>1. TotalOf(R \cup {e}, gs) = TotalOf(R, gs) + TotalOf({e}, gs)
    BY <1>1, TotalSplit
  <2>2. TotalOf({e}, gs) = Occupied(gs[e])
    BY TotalOfOne
  <2>. QED BY <1>1, <2>1, <2>2
<1>4. /\ TotalOf(Entry, fs) = TotalOf(R, fs) + Occupied(fs[e])
      /\ TotalOf(Entry, es) = TotalOf(R, es) + Occupied(es[e])
  BY <1>3
<1>5. TotalOf(R, es) \in Nat /\ Occupied(es[e]) \in Nat /\ Occupied(fs[e]) \in Nat
  BY <1>1, BytesFinite, OccupiedType
<1> HIDE DEF R
<1>. QED BY <1>2, <1>4, <1>5

(* Entries that are emptied give back what they occupied. *)
LEMMA TotalWithout ==
  ASSUME NEW S \in SUBSET Entry,
         NEW es \in [Entry -> EntryRecord], NEW fs \in [Entry -> EntryRecord],
         \A x \in Entry : Occupied(fs[x]) = IF x \in S THEN 0 ELSE Occupied(es[x])
  PROVE  TotalOf(Entry, fs) = TotalOf(Entry, es) - TotalOf(S, es)
<1> DEFINE R == Entry \ S
<1>1. R \in SUBSET Entry /\ R \cap S = {} /\ R \cup S = Entry
  OBVIOUS
<1>2. TotalOf(R, fs) = TotalOf(R, es)
  BY <1>1, TotalSame
<1>3. ASSUME NEW gs \in [Entry -> EntryRecord]
      PROVE  TotalOf(Entry, gs) = TotalOf(R, gs) + TotalOf(S, gs)
  <2> HIDE DEF R
  <2>1. TotalOf(R \cup S, gs) = TotalOf(R, gs) + TotalOf(S, gs)
    BY <1>1, TotalSplit
  <2>. QED BY <1>1, <2>1
<1>4. /\ TotalOf(Entry, fs) = TotalOf(R, fs) + TotalOf(S, fs)
      /\ TotalOf(Entry, es) = TotalOf(R, es) + TotalOf(S, es)
  BY <1>3
<1>5. BytesOf(S, fs) = {}
  BY DEF BytesOf
<1>6. TotalOf(S, fs) = 0
  BY <1>5, FS_EmptySet DEF TotalOf
<1>7. TotalOf(R, es) \in Nat /\ TotalOf(S, es) \in Nat
  BY <1>1, BytesFinite
<1> HIDE DEF R
<1>. QED BY <1>2, <1>4, <1>6, <1>7

-----------------------------------------------------------------------------
(* Types                                                                    *)

(* What the helpers make of an entry. *)
LEMMA CompletedFields ==
  ASSUME NEW r \in EntryRecord, NEW s, s = Completed(r)
  PROVE  /\ s \in EntryRecord /\ s.st = "complete" /\ s.cand = TRUE
         /\ s.size = r.size /\ s.hdr = r.hdr /\ s.ref = r.ref /\ s.last = r.last
         /\ s.del = r.del /\ s.body = r.body
<1>1. PICK q : q = [r EXCEPT !.st = "complete"]
  OBVIOUS
<1>2. /\ q \in EntryRecord /\ q.st = "complete"
      /\ q.size = r.size /\ q.hdr = r.hdr /\ q.ref = r.ref /\ q.last = r.last
      /\ q.del = r.del /\ q.body = r.body /\ q.cand = r.cand
  BY <1>1 DEF EntryRecord
<1>3. s = [q EXCEPT !.cand = TRUE]
  BY <1>1, Zenon DEF Completed
<1>. QED BY <1>2, <1>3 DEF EntryRecord

LEMMA EmptiedFields ==
  ASSUME NEW r \in EntryRecord, NEW s, s = Emptied(r)
  PROVE  /\ s \in EntryRecord /\ s.st = r.st /\ s.size = 0
         /\ s.cand = IF r.size > 0 THEN FALSE ELSE r.cand
         /\ s.hdr = r.hdr /\ s.ref = r.ref /\ s.last = r.last
         /\ s.del = r.del /\ s.body = r.body
<1>1. CASE r.size > 0
  <2>1. PICK q : q = [r EXCEPT !.size = 0]
    OBVIOUS
  <2>2. /\ q \in EntryRecord /\ q.st = r.st
        /\ q.size = 0 /\ q.hdr = r.hdr /\ q.ref = r.ref /\ q.last = r.last
        /\ q.del = r.del /\ q.body = r.body /\ q.cand = r.cand
    BY <2>1 DEF EntryRecord
  <2>3. s = [q EXCEPT !.cand = FALSE]
    BY <1>1, <2>1, Zenon DEF Emptied
  <2>. QED BY <1>1, <2>2, <2>3 DEF EntryRecord
<1>2. CASE ~(r.size > 0)
  BY <1>2 DEF Emptied, EntryRecord
<1>. QED BY <1>1, <1>2

LEMMA AccessedFields ==
  ASSUME NEW r \in EntryRecord, NEW la \in Int, NEW ref \in Nat, NEW s, s = Accessed(r, la, ref)
  PROVE  /\ s \in EntryRecord /\ s.st = r.st /\ s.size = r.size /\ s.hdr = r.hdr
         /\ s.ref = ref % RefModulus /\ s.last = la
         /\ s.cand = r.cand /\ s.del = r.del /\ s.body = r.body
<1>1. PICK q : q = [r EXCEPT !.last = la]
  OBVIOUS
<1>2. /\ q \in EntryRecord /\ q.st = r.st
      /\ q.size = r.size /\ q.hdr = r.hdr /\ q.ref = r.ref /\ q.last = la
      /\ q.del = r.del /\ q.body = r.body /\ q.cand = r.cand
  BY <1>1 DEF EntryRecord
<1>3. ref % RefModulus \in Nat
  BY RangeAssumption
<1>4. s = [q EXCEPT !.ref = ref % RefModulus]
  BY <1>1, Zenon DEF Accessed
<1>. QED BY <1>2, <1>3, <1>4 DEF EntryRecord

(* Headers that are saved change the length and, by kind, the state. *)
LEMMA HeadersSavedFields ==
  ASSUME NEW r \in EntryRecord, job.n \in Nat, NEW s, s = HeadersSaved(r),
         job.kind \in {"new", "update", "merged", "original", "add", "restore"}
  PROVE  /\ s \in EntryRecord /\ s.size = r.size /\ s.hdr = job.n
         /\ s.ref = r.ref /\ s.last = r.last /\ s.body = r.body
         /\ IF job.kind \in {"merged", "original"}
            THEN s.st = "complete" /\ s.cand = TRUE /\ s.del = r.del
            ELSE s.st = r.st /\ s.cand = r.cand
                 /\ s.del = IF job.kind = "update" THEN r.size > 0 ELSE r.del
<1>1. PICK q : q = [r EXCEPT !.hdr = job.n]
  OBVIOUS
<1>2. /\ q \in EntryRecord /\ q.st = r.st
      /\ q.size = r.size /\ q.hdr = job.n /\ q.ref = r.ref /\ q.last = r.last
      /\ q.del = r.del /\ q.body = r.body /\ q.cand = r.cand
  BY <1>1 DEF EntryRecord
<1>3. CASE job.kind \in {"merged", "original"}
  <2>1. s = Completed(q)
    BY <1>1, <1>3 DEF HeadersSaved
  <2>. QED BY <1>2, <1>3, <2>1, CompletedFields
<1>4. CASE job.kind = "update"
  <2>1. s = [q EXCEPT !.del = r.size > 0]
    BY <1>1, <1>4 DEF HeadersSaved
  <2>2. (r.size > 0) \in BOOLEAN
    OBVIOUS
  <2>. QED BY <1>2, <1>4, <2>1, <2>2 DEF EntryRecord
<1>5. CASE job.kind \in {"new", "add", "restore"}
  <2>1. s = q
    BY <1>1, <1>5 DEF HeadersSaved
  <2>. QED BY <1>2, <1>5, <2>1
<1>. QED BY <1>3, <1>4, <1>5

LEMMA BodySavedFields ==
  ASSUME NEW r \in EntryRecord, job.n \in Nat,
         NEW s, s = [r EXCEPT !.size = @ + job.n, !.body = "mem"]
  PROVE  /\ s \in EntryRecord /\ s.st = r.st /\ s.size = r.size + job.n /\ s.hdr = r.hdr
         /\ s.ref = r.ref /\ s.last = r.last /\ s.cand = r.cand /\ s.del = r.del
<1>1. PICK q : q = [r EXCEPT !.size = @ + job.n]
  OBVIOUS
<1>2. /\ q \in EntryRecord /\ q.st = r.st
      /\ q.size = r.size + job.n /\ q.hdr = r.hdr /\ q.ref = r.ref /\ q.last = r.last
      /\ q.del = r.del /\ q.body = r.body /\ q.cand = r.cand
  BY <1>1 DEF EntryRecord
<1>3. s = [q EXCEPT !.body = "mem"]
  BY <1>1, Zenon
<1>. QED BY <1>2, <1>3 DEF EntryRecord

(* An entry that is not there, and a new one. *)
LEMMA NoEntryFields ==
  /\ NoEntry \in EntryRecord
  /\ NoEntry.st = "free" /\ NoEntry.size = 0 /\ NoEntry.hdr = 0 /\ NoEntry.ref = 0
  /\ NoEntry.last = 0 /\ NoEntry.cand = FALSE /\ NoEntry.del = FALSE /\ NoEntry.body = "none"
BY DEF NoEntry, EntryRecord

NewEntry(ref, la) == [NoEntry EXCEPT !.st = "responding", !.ref = ref, !.last = la]

LEMMA NewFields ==
  \A ref \in Nat, la \in Int : \E s \in EntryRecord :
    /\ s = NewEntry(ref, la)
    /\ s.st = "responding" /\ s.size = 0 /\ s.hdr = 0
    /\ s.ref = ref /\ s.last = la /\ s.cand = FALSE /\ s.del = FALSE
<1> SUFFICES ASSUME NEW ref \in Nat, NEW la \in Int
             PROVE  \E s \in EntryRecord :
                      /\ s = NewEntry(ref, la)
                      /\ s.st = "responding" /\ s.size = 0 /\ s.hdr = 0
                      /\ s.ref = ref /\ s.last = la /\ s.cand = FALSE /\ s.del = FALSE
  OBVIOUS
<1>1. PICK p : p = [NoEntry EXCEPT !.st = "responding"]
  OBVIOUS
<1>2. /\ p \in EntryRecord /\ p.st = "responding" /\ p.size = 0 /\ p.hdr = 0
      /\ p.cand = FALSE /\ p.del = FALSE
  BY <1>1, NoEntryFields DEF EntryRecord
<1>3. PICK q : q = [p EXCEPT !.ref = ref]
  OBVIOUS
<1>4. /\ q \in EntryRecord /\ q.st = "responding" /\ q.size = 0 /\ q.hdr = 0 /\ q.ref = ref
      /\ q.cand = FALSE /\ q.del = FALSE
  BY <1>2, <1>3 DEF EntryRecord
<1>5. PICK s : s = [q EXCEPT !.last = la]
  OBVIOUS
<1>6. /\ s \in EntryRecord /\ s.st = "responding" /\ s.size = 0 /\ s.hdr = 0
      /\ s.ref = ref /\ s.last = la /\ s.cand = FALSE /\ s.del = FALSE
  BY <1>4, <1>5 DEF EntryRecord
<1>7. s = NewEntry(ref, la)
  BY <1>1, <1>3, <1>5, Zenon DEF NewEntry
<1>. QED BY <1>6, <1>7, Zenon

(* What a list is left with when an element is taken out is a list of entries. *)
LEMMA RemoveFirstType ==
  ASSUME NEW q \in Seq(Entry), NEW e
  PROVE  RemoveFirst(q, e) \in Seq(Entry)
<1>1. CASE ~ \E i \in 1..Len(q) : q[i] = e
  BY <1>1 DEF RemoveFirst
<1>2. CASE \E i \in 1..Len(q) : q[i] = e
  <2> DEFINE P == {i \in 1..Len(q) : q[i] = e}
  <2>1. P \subseteq Nat /\ P # {} /\ P \subseteq 1..Len(q)
    BY <1>2, LenProperties
  <2>2. PICK k \in P : \A i \in P : k <= i
    <3>1. OpToRel(<, Nat) = {ss \in Nat \X Nat : ss[1] < ss[2]}
      BY Zenon DEF OpToRel
    <3> DEFINE R == {ss \in Nat \X Nat : ss[1] < ss[2]}
    <3>2. IsWellFoundedOn(R, Nat)
      BY <3>1, NatLessThanWellFounded, Zenon
    <3>3. PICK k \in P : \A i \in P : ~(<<i, k>> \in R)
      <4> HIDE DEF P, R
      <4>. QED BY <2>1, <3>2, WFMin, Zenon
    <3>4. \A i \in P : ~(i < k)
      BY <2>1, <3>3
    <3>. QED BY <2>1, <3>4
  <2>3. Min(P) = k
    BY <2>1, <2>2 DEF Min
  <2>4. SelectInSeq(q, LAMBDA v : v = e) = k
    BY <1>2, <2>3 DEF SelectInSeq
  <2>5. RemoveFirst(q, e) = SubSeq(q, 1, k - 1) \o SubSeq(q, k + 1, Len(q))
    BY <1>2, <2>4 DEF RemoveFirst, RemoveAt
  <2>6. SubSeq(q, 1, k - 1) \in Seq(Entry) /\ SubSeq(q, k + 1, Len(q)) \in Seq(Entry)
    BY <2>1, SubSeqProperties
  <2>. QED BY <2>5, <2>6, ConcatProperties
<1>. QED BY <1>1, <1>2

BucketsType == [Buckets -> Seq(Entry)]

(* The buckets are lists of entries whatever is done to them. *)
LEMMA BucketsAreLists ==
  ASSUME NEW bs \in BucketsType, NEW e \in Entry, NEW r
  PROVE  /\ Insert(bs, e, r) \in BucketsType /\ RemoveFrom(bs, e, r) \in BucketsType
         /\ Moved(bs, e, r) \in BucketsType /\ SetComplete(bs, e, r) \in BucketsType
         /\ EmptiedBuckets(bs, e, r) \in BucketsType /\ Destroyed(bs, e, r) \in BucketsType
<1> USE DEF BucketsType
<1>1. ASSUME NEW cs \in BucketsType, NEW x PROVE [cs EXCEPT ![x] = Append(@, e)] \in BucketsType
  BY AppendProperties
<1>2. ASSUME NEW x PROVE [bs EXCEPT ![x] = RemoveFirst(@, e)] \in BucketsType
  BY RemoveFirstType
<1> HIDE DEF BucketsType
<1>3. Insert(bs, e, r) \in BucketsType /\ RemoveFrom(bs, e, r) \in BucketsType
  BY <1>1, <1>2 DEF Insert, RemoveFrom
<1>4. Moved(bs, e, r) \in BucketsType
  BY <1>1, <1>2 DEF Moved, Insert
<1>. QED BY <1>3, <1>4 DEF SetComplete, EmptiedBuckets, Destroyed

(* The first entry of a bucket that is not empty is an entry, and taking it
   off leaves a list. *)
LEMMA FirstOut ==
  ASSUME NEW bs \in BucketsType, NEW b \in Buckets, bs[b] # <<>>
  PROVE  /\ Head(bs[b]) \in Entry /\ [bs EXCEPT ![b] = Tail(@)] \in BucketsType
<1>1. bs[b] \in Seq(Entry)
  BY DEF BucketsType
<1>2. Head(bs[b]) \in Entry /\ Tail(bs[b]) \in Seq(Entry)
  BY <1>1, HeadTailProperties
<1>. QED BY <1>2 DEF BucketsType

Saving == {"new", "update", "merged", "original", "add", "restore", "body"}
Active == job.kind \in Saving

(* SaveBuffer sets up the save. *)
LEMMA SaveBufferFields ==
  ASSUME NEW kind \in Saving, NEW e \in Entry, NEW n \in Nat, NEW old \in Nat, NEW c \in Int,
         SaveBuffer(kind, e, n, old, c)
  PROVE  /\ job' \in Job /\ job'.kind = kind /\ job'.e = e /\ job'.n = n /\ job'.old = old
         /\ need' \in Int /\ evicted' = {}
         /\ ~job'.full => c + n <= Size /\ need' = 0
<1>1. job' = [kind |-> kind, e |-> e, n |-> n, old |-> old, full |-> c + n > Size]
  BY DEF SaveBuffer
<1>2. (c + n > Size) \in BOOLEAN
  OBVIOUS
<1>3. kind \in {"none", "freed", "new", "update", "merged", "original", "add", "restore", "body"}
  BY DEF Saving
<1>4. job' \in Job
  BY <1>1, <1>2, <1>3 DEF Job
<1>5. /\ job'.kind = kind /\ job'.e = e /\ job'.n = n /\ job'.old = old
      /\ job'.full = (c + n > Size)
  BY <1>1
<1>6. need' \in Int /\ evicted' = {} /\ (~(c + n > Size) => need' = 0)
  BY DEF SaveBuffer
<1>7. ~(c + n > Size) => c + n <= Size
  BY RangeAssumption
<1>8. ~job'.full => c + n <= Size /\ need' = 0
  BY <1>5, <1>6, <1>7, Zenon
<1>. QED BY <1>4, <1>5, <1>6, <1>8

(* A save in progress has an entry; EvictL runs for a save only. *)
JobShape ==
  /\ job \in Job /\ need \in Int /\ evicted \in SUBSET Entry
  /\ job.kind = "none" => job = NoJob
  /\ job.kind # "none" => job.e \in Entry
  /\ ~Active => need = 0 /\ evicted = {}

(* The types, with the shape of the save. *)
Types ==
  /\ ent \in [Entry -> EntryRecord] /\ bucket \in BucketsType
  /\ content \in Int /\ clock \in Nat
  /\ JobShape

LEMMA TypesGiveTypeOK == Types => TypeOK
BY DEF Types, JobShape, TypeOK, BucketsType

LEMMA NoJobFields == NoJob \in Job /\ NoJob.kind = "none"
BY DEF NoJob, Job

(* A save that has not lost its entry has one; nothing else runs beside it. *)
LEMMA ActiveLemma ==
  ASSUME Types
  PROVE  /\ Active => job.e \in Entry /\ job.n \in Nat /\ job.old \in Nat /\ ~Idle
         /\ ~Idle /\ job.kind # "freed" => Active
         /\ Idle => ~Active /\ job.kind = "none"
BY NoJobFields DEF Types, JobShape, Active, Saving, Job, Idle

(* The end of a save. *)
LEMMA JobEnds ==
  ASSUME job' = NoJob, need' = 0, evicted' = {}
  PROVE  JobShape' /\ ~Active' /\ job'.kind # "freed"
BY NoJobFields DEF JobShape, Active, Saving

(* The start of a save. *)
LEMMA JobStarts ==
  ASSUME NEW kind \in Saving, NEW e \in Entry, NEW n \in Nat, NEW old \in Nat, NEW c \in Int,
         SaveBuffer(kind, e, n, old, c)
  PROVE  JobShape' /\ Active'
<1>1. kind # "none"
  BY DEF Saving
<1>2. job' \in Job /\ job'.kind = kind /\ job'.e = e /\ need' \in Int /\ evicted' = {}
  BY SaveBufferFields
<1>. QED BY <1>1, <1>2 DEF JobShape, Active

(* What eviction leaves. *)
LEMMA LeftLemma ==
  ASSUME Types
  PROVE  /\ Left \in [Entry -> EntryRecord] /\ LeftContent \in Int
         /\ \A e \in Entry : Left[e] = IF e \in evicted THEN NoEntry ELSE ent[e]
         /\ TotalOf(evicted, ent) \in Nat
         /\ LeftContent = content - TotalOf(evicted, ent)
<1>1. TotalOf(evicted, ent) \in Nat
  BY BytesFinite DEF Types, JobShape
<1>. QED BY <1>1, NoEntryFields DEF Left, LeftContent, Types

(* The one entry in question changes. *)
LEMMA OneChanges ==
  ASSUME NEW es \in [Entry -> EntryRecord], NEW e \in Entry, NEW r \in EntryRecord
  PROVE  /\ [es EXCEPT ![e] = r] \in [Entry -> EntryRecord]
         /\ [es EXCEPT ![e] = r][e] = r
         /\ \A x \in Entry \ {e} : [es EXCEPT ![e] = r][x] = es[x]
OBVIOUS

LEMMA EraseTypes ==
  ASSUME NEW es \in [Entry -> EntryRecord], NEW bs \in BucketsType, NEW c \in Int,
         NEW e \in Entry, Erase(e, es, bs, c)
  PROVE  /\ ent' \in [Entry -> EntryRecord] /\ bucket' \in BucketsType
         /\ content' \in Int /\ content' = c - Occupied(es[e])
         /\ ent'[e] = NoEntry /\ \A x \in Entry \ {e} : ent'[x] = es[x]
<1>1. Occupied(es[e]) \in Nat
  BY OccupiedType
<1>. QED BY <1>1, NoEntryFields, OneChanges, BucketsAreLists DEF Erase

(* How a save fails: once more with the headers of before, or for good. *)
LEMMA FailLemma ==
  ASSUME Types, Active, NEW es \in [Entry -> EntryRecord], NEW bs \in BucketsType, Fail(es, bs)
  PROVE  \/ /\ job.kind \in {"merged", "add"}
            /\ ent' = es /\ bucket' = bs /\ content' = LeftContent
            /\ \E kind \in {"restore", "original"} :
                 SaveBuffer(kind, job.e, job.old, 0, LeftContent)
         \/ /\ Erase(job.e, es, bs, LeftContent)
            /\ job' = NoJob /\ need' = 0 /\ evicted' = {}
BY DEF Fail

LEMMA FailTypes ==
  ASSUME Types, Active, NEW es \in [Entry -> EntryRecord], NEW bs \in BucketsType, Fail(es, bs)
  PROVE  Types'
<1>1. job.e \in Entry /\ job.old \in Nat /\ LeftContent \in Int /\ clock \in Nat
  BY ActiveLemma, LeftLemma DEF Types
<1>2. clock' \in Nat
  BY <1>1 DEF Fail
<1>3. CASE /\ job.kind \in {"merged", "add"}
           /\ ent' = es /\ bucket' = bs /\ content' = LeftContent
           /\ \E kind \in {"restore", "original"} :
                SaveBuffer(kind, job.e, job.old, 0, LeftContent)
  <2>1. PICK kind \in {"restore", "original"} : SaveBuffer(kind, job.e, job.old, 0, LeftContent)
    BY <1>3
  <2>2. kind \in Saving
    BY DEF Saving
  <2>3. JobShape'
    BY <1>1, <2>1, <2>2, JobStarts
  <2>. QED BY <1>1, <1>2, <1>3, <2>3 DEF Types
<1>4. CASE Erase(job.e, es, bs, LeftContent) /\ job' = NoJob /\ need' = 0 /\ evicted' = {}
  <2>1. ent' \in [Entry -> EntryRecord] /\ bucket' \in BucketsType /\ content' \in Int
    BY <1>1, <1>4, EraseTypes
  <2>. QED BY <1>2, <1>4, <2>1, JobEnds DEF Types
<1>. QED BY <1>3, <1>4, FailLemma

(* Headers are replaced. *)
LEMMA ReplaceHeadersFields ==
  ASSUME Types, NEW kind \in Saving, NEW e \in Entry, NEW r \in EntryRecord,
         ReplaceHeaders(kind, e, r)
  PROVE  /\ Types'
         /\ job'.kind = kind /\ job'.e = e /\ evicted' = {} /\ job'.n \in Nat
         /\ ~job'.full => content' + job'.n <= Size /\ need' = 0
         /\ content' = content - r.hdr /\ bucket' = bucket /\ clock' = clock
         /\ ent'[e] \in EntryRecord /\ ent'[e].st = r.st /\ ent'[e].size = r.size
         /\ ent'[e].hdr = 0 /\ ent'[e].ref = r.ref /\ ent'[e].last = r.last
         /\ ent'[e].cand = r.cand /\ ent'[e].del = r.del /\ ent'[e].body = r.body
         /\ \A x \in Entry \ {e} : ent'[x] = ent[x]
<1>1. PICK n \in HeaderLen : SaveBuffer(kind, e, n, r.hdr, content - r.hdr)
  BY DEF ReplaceHeaders
<1>2. n \in Nat /\ r.hdr \in Nat /\ content \in Int /\ content - r.hdr \in Int
  BY LenAssumption DEF Types, EntryRecord
<1>3. PICK q : q = [r EXCEPT !.hdr = 0]
  OBVIOUS
<1>4. /\ q \in EntryRecord /\ q.st = r.st /\ q.size = r.size /\ q.hdr = 0 /\ q.ref = r.ref
      /\ q.last = r.last /\ q.cand = r.cand /\ q.del = r.del /\ q.body = r.body
  BY <1>3 DEF EntryRecord
<1>5. ent' = [ent EXCEPT ![e] = q]
  BY <1>3 DEF ReplaceHeaders
<1>6. ent' \in [Entry -> EntryRecord] /\ ent'[e] = q /\ \A x \in Entry \ {e} : ent'[x] = ent[x]
  BY <1>4, <1>5, OneChanges DEF Types
<1>7. content' = content - r.hdr /\ bucket' = bucket /\ clock' = clock
  BY DEF ReplaceHeaders
<1>8. /\ job'.kind = kind /\ job'.e = e /\ job'.n = n /\ evicted' = {}
      /\ ~job'.full => content - r.hdr + n <= Size /\ need' = 0
  BY <1>1, <1>2, SaveBufferFields
<1>9. ~job'.full => content' + job'.n <= Size /\ need' = 0
  BY <1>7, <1>8
<1>10. Types'
  <2>1. JobShape'
    BY <1>1, <1>2, JobStarts
  <2>. QED BY <1>2, <1>6, <1>7, <2>1 DEF Types
<1>. QED BY <1>2, <1>4, <1>6, <1>7, <1>8, <1>9, <1>10

-----------------------------------------------------------------------------
(* What the operations do, field by field                                   *)

LEMMA NewResponseEffect ==
  ASSUME Types, NEW e \in Entry, NewResponse(e)
  PROVE  /\ Types' /\ Idle /\ ent[e].st = "free"
         /\ job'.kind = "new" /\ job'.e = e /\ job'.n \in Nat /\ evicted' = {}
         /\ ~job'.full => content' + job'.n <= Size /\ need' = 0
         /\ content' = content /\ bucket' = bucket /\ clock' = clock
         /\ ent'[e].st = "responding" /\ ent'[e].size = 0 /\ ent'[e].hdr = 0
         /\ ent'[e].ref \in {1, ProtectedRef} /\ ent'[e].last = clock
         /\ ent'[e].cand = FALSE /\ ent'[e].del = FALSE
         /\ \A x \in Entry \ {e} : ent'[x] = ent[x]
<1>1. PICK ref \in {1, ProtectedRef}, n \in HeaderLen :
        /\ ent' = [ent EXCEPT ![e] = NewEntry(ref, clock)]
        /\ SaveBuffer("new", e, n, 0, content)
  BY DEF NewResponse, NewEntry
<1>2. ref \in Nat /\ n \in Nat /\ clock \in Int /\ content \in Int /\ "new" \in Saving
  BY LenAssumption, RangeAssumption DEF Types, Saving
<1>3. PICK q : q = NewEntry(ref, clock)
  OBVIOUS
<1>4. /\ q \in EntryRecord /\ q.st = "responding" /\ q.size = 0 /\ q.hdr = 0
      /\ q.ref = ref /\ q.last = clock /\ q.cand = FALSE /\ q.del = FALSE
  BY <1>2, <1>3, NewFields
<1>5. ent' \in [Entry -> EntryRecord] /\ ent'[e] = q /\ \A x \in Entry \ {e} : ent'[x] = ent[x]
  BY <1>1, <1>3, <1>4, OneChanges DEF Types
<1>6. JobShape'
  BY <1>1, <1>2, JobStarts
<1>7. /\ job'.kind = "new" /\ job'.e = e /\ job'.n = n /\ evicted' = {}
      /\ ~job'.full => content + n <= Size /\ need' = 0
  BY <1>1, <1>2, SaveBufferFields
<1>8. /\ Idle /\ ent[e].st = "free"
      /\ content' = content /\ bucket' = bucket /\ clock' = clock
  BY DEF NewResponse
<1>9. Types'
  BY <1>5, <1>6, <1>8 DEF Types
<1>. QED BY <1>2, <1>4, <1>5, <1>7, <1>8, <1>9

(* New headers replace old ones: what HandleResponseOkL, Handle-
   ResponseNotModifiedL and AddHeaderL have in common. *)
HeadersReplaced(e) ==
  /\ job'.e = e /\ evicted' = {} /\ job'.n \in Nat
  /\ ~job'.full => content' + job'.n <= Size /\ need' = 0
  /\ content' = content - ent[e].hdr /\ bucket' = bucket /\ clock' = clock
  /\ ent'[e].size = ent[e].size /\ ent'[e].hdr = 0 /\ ent'[e].ref = ent[e].ref
  /\ ent'[e].last = ent[e].last /\ ent'[e].cand = ent[e].cand /\ ent'[e].del = ent[e].del
  /\ \A x \in Entry \ {e} : ent'[x] = ent[x]

LEMMA UpdatedEffect ==
  ASSUME Types, NEW e \in Entry, UpdatedResponse(e)
  PROVE  /\ Types' /\ Idle /\ HeadersReplaced(e) /\ job'.kind \in {"update", "merged"}
         /\ ent[e].st = "complete" /\ ent[e].size # 0 /\ ent'[e].st = "responding"
<1>1. PICK kind \in {"update", "merged"} :
        ReplaceHeaders(kind, e, [ent[e] EXCEPT !.st = "responding"])
  BY DEF UpdatedResponse
<1>2. Idle /\ ent[e].st = "complete" /\ ent[e].size # 0
  BY DEF UpdatedResponse, Findable
<1>3. PICK r : r = [ent[e] EXCEPT !.st = "responding"]
  OBVIOUS
<1>4. ent[e] \in EntryRecord
  BY DEF Types
<1>5. /\ r \in EntryRecord /\ r.st = "responding" /\ r.size = ent[e].size /\ r.hdr = ent[e].hdr
      /\ r.ref = ent[e].ref /\ r.last = ent[e].last /\ r.cand = ent[e].cand /\ r.del = ent[e].del
  BY <1>3, <1>4 DEF EntryRecord
<1>6. ReplaceHeaders(kind, e, r) /\ kind \in Saving
  BY <1>1, <1>3 DEF Saving
<1>. QED BY <1>2, <1>5, <1>6, ReplaceHeadersFields DEF HeadersReplaced

LEMMA AddHeaderEffect ==
  ASSUME Types, NEW e \in Entry, AddHeaderL(e)
  PROVE  /\ Types' /\ Idle /\ AddsHeaders /\ HeadersReplaced(e) /\ job'.kind = "add"
         /\ ent[e].st # "free" /\ ent'[e].st = ent[e].st
<1>1. Idle /\ AddsHeaders /\ ent[e].st # "free" /\ ReplaceHeaders("add", e, ent[e])
  BY DEF AddHeaderL, Findable
<1>2. ent[e] \in EntryRecord /\ "add" \in Saving
  BY DEF Types, Saving
<1>. QED BY <1>1, <1>2, ReplaceHeadersFields DEF HeadersReplaced

LEMMA BodyDataEffect ==
  ASSUME Types, NEW e \in Entry, NEW n \in ChunkLen, ReceivedResponseBodyDataL(e, n)
  PROVE  /\ Types' /\ Idle /\ ent[e].st = "responding"
         /\ job'.kind = "body" /\ job'.e = e /\ job'.n = n /\ n \in Nat /\ evicted' = {}
         /\ ~job'.full => content' + job'.n <= Size /\ need' = 0
         /\ content' = IF ent[e].del THEN content - ent[e].size ELSE content
         /\ bucket' = IF ent[e].del THEN EmptiedBuckets(bucket, e, ent[e]) ELSE bucket
         /\ clock' = clock
         /\ ent'[e].st = "responding" /\ ent'[e].hdr = ent[e].hdr
         /\ ent'[e].ref = ent[e].ref /\ ent'[e].last = ent[e].last /\ ent'[e].del = FALSE
         /\ ent'[e].size = IF ent[e].del THEN 0 ELSE ent[e].size
         /\ ent'[e].size + n <= MaxBody
         /\ ent'[e].cand = IF ent[e].del /\ ent[e].size > 0 THEN FALSE ELSE ent[e].cand
         /\ \A x \in Entry \ {e} : ent'[x] = ent[x]
<1>1. PICK r : r = ent[e]
  OBVIOUS
<1>2. r \in EntryRecord /\ r.size \in Nat /\ r.del \in BOOLEAN /\ n \in Nat /\ content \in Int
  BY <1>1, LenAssumption DEF Types, EntryRecord
<1>3. PICK c : c = IF r.del THEN content - r.size ELSE content
  OBVIOUS
<1>4. c \in Int /\ "body" \in Saving
  BY <1>2, <1>3 DEF Saving
<1>5. /\ Idle /\ r.st = "responding"
      /\ (IF r.del THEN 0 ELSE r.size) + n <= MaxBody
      /\ ent' = [ent EXCEPT ![e] = IF r.del THEN [Emptied(r) EXCEPT !.del = FALSE] ELSE r]
      /\ bucket' = IF r.del THEN EmptiedBuckets(bucket, e, r) ELSE bucket
      /\ content' = c /\ clock' = clock
      /\ SaveBuffer("body", e, n, 0, c)
  BY <1>1, <1>3 DEF ReceivedResponseBodyDataL
<1>6. PICK q : q = IF r.del THEN [Emptied(r) EXCEPT !.del = FALSE] ELSE r
  OBVIOUS
<1>7. /\ q \in EntryRecord /\ q.st = r.st /\ q.hdr = r.hdr /\ q.ref = r.ref /\ q.last = r.last
      /\ q.del = FALSE /\ q.size = IF r.del THEN 0 ELSE r.size
      /\ q.cand = IF r.del /\ r.size > 0 THEN FALSE ELSE r.cand
  <2>1. CASE r.del
    <3>1. PICK p : p = Emptied(r)
      OBVIOUS
    <3>2. /\ p \in EntryRecord /\ p.st = r.st /\ p.size = 0
          /\ p.cand = IF r.size > 0 THEN FALSE ELSE r.cand
          /\ p.hdr = r.hdr /\ p.ref = r.ref /\ p.last = r.last
      BY <1>2, <3>1, EmptiedFields
    <3>3. q = [p EXCEPT !.del = FALSE]
      BY <1>6, <2>1, <3>1
    <3>. QED BY <2>1, <3>2, <3>3 DEF EntryRecord
  <2>2. CASE ~r.del
    <3>1. q = r
      BY <1>6, <2>2
    <3>. QED BY <1>2, <2>2, <3>1
  <2>. QED BY <2>1, <2>2
<1>8. ent' \in [Entry -> EntryRecord] /\ ent'[e] = q /\ \A x \in Entry \ {e} : ent'[x] = ent[x]
  BY <1>5, <1>6, <1>7, OneChanges DEF Types
<1>9. JobShape'
  BY <1>2, <1>4, <1>5, JobStarts
<1>10. /\ job'.kind = "body" /\ job'.e = e /\ job'.n = n /\ evicted' = {}
       /\ ~job'.full => c + n <= Size /\ need' = 0
  BY <1>2, <1>4, <1>5, SaveBufferFields
<1>11. bucket' \in BucketsType
  BY <1>5, BucketsAreLists DEF Types
<1>12. clock' \in Nat /\ content' \in Int
  BY <1>4, <1>5 DEF Types
<1>13. Types'
  BY <1>8, <1>9, <1>11, <1>12 DEF Types
<1>14. content' = IF ent[e].del THEN content - ent[e].size ELSE content
  BY <1>1, <1>3, <1>5
<1>15. ent'[e].size + n <= MaxBody
  BY <1>5, <1>7, <1>8
<1>. QED BY <1>1, <1>2, <1>5, <1>7, <1>8, <1>10, <1>13, <1>14, <1>15

(* No save is started and none ends. *)
LEMMA NothingSaved ==
  ASSUME Types, UNCHANGED <<clock, job, need, evicted>>,
         ent' \in [Entry -> EntryRecord], bucket' \in BucketsType, content' \in Int
  PROVE  Types'
BY DEF Types, JobShape, Active

LEMMA ResponseCompleteEffect ==
  ASSUME Types, NEW e \in Entry, ResponseComplete(e)
  PROVE  /\ Types' /\ Idle /\ ent[e].st = "responding"
         /\ UNCHANGED <<content, clock, job, need, evicted>>
         /\ bucket' = SetComplete(bucket, e, ent[e])
         /\ ent'[e].st = "complete" /\ ent'[e].cand = TRUE
         /\ ent'[e].size = ent[e].size /\ ent'[e].hdr = ent[e].hdr /\ ent'[e].ref = ent[e].ref
         /\ ent'[e].last = ent[e].last /\ ent'[e].del = ent[e].del
         /\ \A x \in Entry \ {e} : ent'[x] = ent[x]
<1>1. PICK body \in {ent[e].body, IF ent[e].body = "none" THEN "none" ELSE "file"} :
        ent' = [ent EXCEPT ![e] = [Completed(@) EXCEPT !.body = body]]
  BY DEF ResponseComplete
<1>2. ent[e] \in EntryRecord /\ body \in {"none", "mem", "writing", "file"}
  BY <1>1 DEF Types, EntryRecord
<1>3. PICK p : p = Completed(ent[e])
  OBVIOUS
<1>4. /\ p \in EntryRecord /\ p.st = "complete" /\ p.cand = TRUE
      /\ p.size = ent[e].size /\ p.hdr = ent[e].hdr /\ p.ref = ent[e].ref
      /\ p.last = ent[e].last /\ p.del = ent[e].del
  BY <1>2, <1>3, CompletedFields
<1>5. PICK q : q = [p EXCEPT !.body = body]
  OBVIOUS
<1>6. /\ q \in EntryRecord /\ q.st = "complete" /\ q.cand = TRUE
      /\ q.size = ent[e].size /\ q.hdr = ent[e].hdr /\ q.ref = ent[e].ref
      /\ q.last = ent[e].last /\ q.del = ent[e].del
  BY <1>2, <1>4, <1>5 DEF EntryRecord
<1>7. ent' = [ent EXCEPT ![e] = q]
  BY <1>1, <1>3, <1>5
<1>8. ent' \in [Entry -> EntryRecord] /\ ent'[e] = q /\ \A x \in Entry \ {e} : ent'[x] = ent[x]
  BY <1>6, <1>7, OneChanges DEF Types
<1>9. /\ Idle /\ ent[e].st = "responding" /\ bucket' = SetComplete(bucket, e, ent[e])
      /\ UNCHANGED <<content, clock, job, need, evicted>>
  BY DEF ResponseComplete
<1>10. bucket' \in BucketsType /\ content' \in Int
  BY <1>9, BucketsAreLists DEF Types
<1>11. Types'
  BY <1>8, <1>9, <1>10, NothingSaved
<1>. QED BY <1>6, <1>8, <1>9, <1>11

LEMMA FlushFailsEffect ==
  ASSUME Types, NEW e \in Entry, FlushFails(e)
  PROVE  /\ Types' /\ Idle /\ CreateErrors
         /\ UNCHANGED <<clock, job, need, evicted>>
         /\ content' = content - ent[e].hdr
         /\ bucket' = Destroyed(EmptiedBuckets(bucket, e, ent[e]), e, Emptied(ent[e]))
         /\ ent'[e] = NoEntry /\ \A x \in Entry \ {e} : ent'[x] = ent[x]
<1>1. PICK q : q = Emptied(ent[e])
  OBVIOUS
<1>2. q \in EntryRecord /\ q.size = 0 /\ q.hdr = ent[e].hdr
  BY <1>1, EmptiedFields DEF Types
<1>3. PICK es : es = [ent EXCEPT ![e] = q]
  OBVIOUS
<1>4. es \in [Entry -> EntryRecord] /\ es[e] = q /\ \A x \in Entry \ {e} : es[x] = ent[x]
  BY <1>2, <1>3, OneChanges DEF Types
<1>5. PICK bs : bs = EmptiedBuckets(bucket, e, ent[e])
  OBVIOUS
<1>6. bs \in BucketsType /\ content \in Int
  BY <1>5, BucketsAreLists DEF Types
<1>7. Erase(e, es, bs, content)
  BY <1>1, <1>3, <1>5 DEF FlushFails
<1>8. /\ ent' \in [Entry -> EntryRecord] /\ bucket' \in BucketsType
      /\ content' \in Int /\ content' = content - Occupied(es[e])
      /\ ent'[e] = NoEntry /\ \A x \in Entry \ {e} : ent'[x] = es[x]
  BY <1>4, <1>6, <1>7, EraseTypes
<1>9. bucket' = Destroyed(bs, e, q)
  BY <1>4, <1>7 DEF Erase
<1>10. Occupied(es[e]) = ent[e].hdr
  BY <1>2, <1>4 DEF Occupied, EntryRecord
<1>11. Idle /\ CreateErrors /\ UNCHANGED <<clock, job, need, evicted>>
  BY DEF FlushFails
<1>12. Types'
  BY <1>8, <1>11, NothingSaved
<1>. QED BY <1>1, <1>4, <1>5, <1>8, <1>9, <1>10, <1>11, <1>12

(* Only the body, or the state, or nothing of an entry changes. *)
SameSpace(e) ==
  /\ ent'[e].size = ent[e].size /\ ent'[e].hdr = ent[e].hdr /\ ent'[e].ref = ent[e].ref
  /\ ent'[e].last = ent[e].last /\ ent'[e].cand = ent[e].cand /\ ent'[e].del = ent[e].del
  /\ \A x \in Entry \ {e} : ent'[x] = ent[x]

LEMMA WriteEffect ==
  ASSUME Types, NEW e \in Entry, WriteStarts(e) \/ WriteEnds(e)
  PROVE  /\ Types' /\ Idle /\ UNCHANGED <<bucket, content, clock, job, need, evicted>>
         /\ ent'[e].st = ent[e].st /\ SameSpace(e)
<1>1. PICK body \in {"writing", "file"} : ent' = [ent EXCEPT ![e].body = body]
  BY DEF WriteStarts, WriteEnds
<1>2. Idle /\ UNCHANGED <<bucket, content, clock, job, need, evicted>>
  BY DEF WriteStarts, WriteEnds
<1>3. PICK q : q = [ent[e] EXCEPT !.body = body]
  OBVIOUS
<1>4. ent[e] \in EntryRecord
  BY DEF Types
<1>5. /\ q \in EntryRecord /\ q.st = ent[e].st /\ q.size = ent[e].size /\ q.hdr = ent[e].hdr
      /\ q.ref = ent[e].ref /\ q.last = ent[e].last /\ q.cand = ent[e].cand /\ q.del = ent[e].del
  BY <1>3, <1>4 DEF EntryRecord
<1>6. ent' = [ent EXCEPT ![e] = q]
  BY <1>1, <1>3
<1>7. ent' \in [Entry -> EntryRecord] /\ ent'[e] = q /\ \A x \in Entry \ {e} : ent'[x] = ent[x]
  BY <1>5, <1>6, OneChanges DEF Types
<1>8. Types'
  BY <1>2, <1>7, NothingSaved DEF Types
<1>. QED BY <1>2, <1>5, <1>7, <1>8 DEF SameSpace

LEMMA RequestEffect ==
  ASSUME Types, NEW e \in Entry, RequestL(e)
  PROVE  /\ Types' /\ Idle /\ UNCHANGED <<content, clock, job, need, evicted>>
         /\ ent[e].st = "complete" /\ ent[e].ref < MaxRef
         /\ bucket' = IF ent[e].cand THEN Moved(bucket, e, ent'[e]) ELSE bucket
         /\ ent'[e].st = "requesting"
         /\ ent'[e].ref = (ent[e].ref + 1) % RefModulus /\ ent'[e].last = clock
         /\ ent'[e].size = ent[e].size /\ ent'[e].hdr = ent[e].hdr
         /\ ent'[e].cand = ent[e].cand /\ ent'[e].del = ent[e].del
         /\ \A x \in Entry \ {e} : ent'[x] = ent[x]
<1>1. ent[e] \in EntryRecord /\ clock \in Int /\ ent[e].ref + 1 \in Nat /\ bucket \in BucketsType
  BY DEF Types, EntryRecord
<1>2. PICK r : r = Accessed(ent[e], clock, ent[e].ref + 1)
  OBVIOUS
<1>3. /\ r \in EntryRecord /\ r.st = ent[e].st /\ r.size = ent[e].size /\ r.hdr = ent[e].hdr
      /\ r.ref = (ent[e].ref + 1) % RefModulus /\ r.last = clock
      /\ r.cand = ent[e].cand /\ r.del = ent[e].del
  BY <1>1, <1>2, AccessedFields
<1>4. /\ Idle /\ ent[e].st = "complete" /\ ent[e].ref < MaxRef
      /\ ent' = [ent EXCEPT ![e] = [r EXCEPT !.st = "requesting"]]
      /\ bucket' = IF r.cand THEN Moved(bucket, e, r) ELSE bucket
      /\ UNCHANGED <<content, clock, job, need, evicted>>
  BY <1>2 DEF RequestL
<1>5. PICK q : q = [r EXCEPT !.st = "requesting"]
  OBVIOUS
<1>6. /\ q \in EntryRecord /\ q.st = "requesting" /\ q.size = r.size /\ q.hdr = r.hdr
      /\ q.ref = r.ref /\ q.last = r.last /\ q.cand = r.cand /\ q.del = r.del
  BY <1>3, <1>5 DEF EntryRecord
<1>7. ent' \in [Entry -> EntryRecord] /\ ent'[e] = q /\ \A x \in Entry \ {e} : ent'[x] = ent[x]
  BY <1>4, <1>5, <1>6, OneChanges DEF Types
<1>8. Moved(bucket, e, q) = Moved(bucket, e, r)
  BY <1>6 DEF Moved, Insert, Home
<1>9. bucket' \in BucketsType
  BY <1>1, <1>4, BucketsAreLists
<1>10. Types'
  BY <1>4, <1>7, <1>9, NothingSaved DEF Types
<1>. QED BY <1>3, <1>4, <1>6, <1>7, <1>8, <1>10

LEMMA MergeEffect ==
  ASSUME Types, NEW e \in Entry, MergeL(e)
  PROVE  /\ Types' /\ Idle /\ Merges /\ UNCHANGED <<clock, job, need, evicted>>
         /\ content' \in 0..Size /\ ent[e].st # "free"
         /\ ent'[e].st = ent[e].st /\ ent'[e].size = ent[e].size /\ ent'[e].hdr = ent[e].hdr
         /\ ent'[e].last <= clock /\ ent'[e].last > ent[e].last
         /\ \E ref \in 1..MaxRef : ent'[e].ref = ref % RefModulus
         /\ \A x \in Entry \ {e} : ent'[x] = ent[x]
<1>1. PICK la \in ent[e].last + 1..clock, ref \in 1..MaxRef :
        LET r == Accessed(ent[e], la, ref)
        IN /\ ent' = [ent EXCEPT ![e] = r]
           /\ bucket' = IF r.cand THEN Moved(bucket, e, r) ELSE bucket
  BY DEF MergeL
<1>2. ent[e] \in EntryRecord /\ la \in Int /\ la <= clock /\ la > ent[e].last /\ ref \in Nat
  BY RangeAssumption DEF Types, EntryRecord
<1>3. PICK r : r = Accessed(ent[e], la, ref)
  OBVIOUS
<1>4. /\ r \in EntryRecord /\ r.st = ent[e].st /\ r.size = ent[e].size /\ r.hdr = ent[e].hdr
      /\ r.ref = ref % RefModulus /\ r.last = la
  BY <1>2, <1>3, AccessedFields
<1>5. ent' = [ent EXCEPT ![e] = r] /\ bucket' = IF r.cand THEN Moved(bucket, e, r) ELSE bucket
  BY <1>1, <1>3
<1>6. ent' \in [Entry -> EntryRecord] /\ ent'[e] = r /\ \A x \in Entry \ {e} : ent'[x] = ent[x]
  BY <1>4, <1>5, OneChanges DEF Types
<1>7. bucket' \in BucketsType
  BY <1>5, BucketsAreLists DEF Types
<1>8. /\ Idle /\ Merges /\ UNCHANGED <<clock, job, need, evicted>>
      /\ content' \in 0..Size /\ ent[e].st # "free"
  BY DEF MergeL
<1>9. Types'
  BY <1>6, <1>7, <1>8, NothingSaved, RangeAssumption
<1>. QED BY <1>2, <1>4, <1>6, <1>8, <1>9

(* An entry is deleted outside of a save. *)
Deletes(e) ==
  /\ ent'[e] = NoEntry /\ \A x \in Entry \ {e} : ent'[x] = ent[x]
  /\ content' = content - Occupied(ent[e])
  /\ bucket' = Destroyed(bucket, e, ent[e])

LEMMA DeletesLemma ==
  ASSUME Types, NEW e \in Entry, Erase(e, ent, bucket, content),
         UNCHANGED <<clock, job, need, evicted>>
  PROVE  Types' /\ Deletes(e)
<1>1. /\ ent' \in [Entry -> EntryRecord] /\ bucket' \in BucketsType
      /\ content' \in Int /\ content' = content - Occupied(ent[e])
      /\ ent'[e] = NoEntry /\ \A x \in Entry \ {e} : ent'[x] = ent[x]
  BY EraseTypes DEF Types
<1>2. bucket' = Destroyed(bucket, e, ent[e])
  BY DEF Erase
<1>. QED BY <1>1, <1>2, NothingSaved DEF Deletes

LEMMA RequestClosedEffect ==
  ASSUME Types, NEW e \in Entry, RequestClosed(e)
  PROVE  /\ Types' /\ Idle /\ UNCHANGED <<clock, job, need, evicted>>
         /\ \/ /\ ent[e].st = "requesting" /\ content' = content
               /\ bucket' = SetComplete(bucket, e, ent[e])
               /\ ent'[e].st = "complete" /\ ent'[e].cand = TRUE
               /\ ent'[e].size = ent[e].size /\ ent'[e].hdr = ent[e].hdr
               /\ ent'[e].ref = ent[e].ref /\ ent'[e].last = ent[e].last /\ ent'[e].del = ent[e].del
               /\ \A x \in Entry \ {e} : ent'[x] = ent[x]
            \/ ent[e].st \in {"responding", "destroyed"} /\ Deletes(e)
<1>1. Idle /\ UNCHANGED <<clock, job, need, evicted>>
  BY DEF RequestClosed
<1>2. CASE /\ ent[e].st = "requesting"
           /\ ent' = [ent EXCEPT ![e] = Completed(@)]
           /\ bucket' = SetComplete(bucket, e, ent[e])
           /\ UNCHANGED content
  <2>1. PICK q : q = Completed(ent[e])
    OBVIOUS
  <2>2. /\ q \in EntryRecord /\ q.st = "complete" /\ q.cand = TRUE
        /\ q.size = ent[e].size /\ q.hdr = ent[e].hdr /\ q.ref = ent[e].ref
        /\ q.last = ent[e].last /\ q.del = ent[e].del
    BY <2>1, CompletedFields DEF Types
  <2>3. ent' = [ent EXCEPT ![e] = q]
    BY <1>2, <2>1
  <2>4. ent' \in [Entry -> EntryRecord] /\ ent'[e] = q /\ \A x \in Entry \ {e} : ent'[x] = ent[x]
    BY <2>2, <2>3, OneChanges DEF Types
  <2>5. bucket' \in BucketsType
    BY <1>2, BucketsAreLists DEF Types
  <2>6. Types'
    BY <1>1, <1>2, <2>4, <2>5, NothingSaved DEF Types
  <2>. QED BY <1>1, <1>2, <2>2, <2>4, <2>6
<1>3. CASE ent[e].st \in {"responding", "destroyed"} /\ Erase(e, ent, bucket, content)
  <2>1. Types' /\ Deletes(e)
    BY <1>1, <1>3, DeletesLemma
  <2>. QED BY <1>1, <1>3, <2>1
<1>. QED BY <1>2, <1>3 DEF RequestClosed

LEMMA RemoveEffect ==
  ASSUME Types, NEW e \in Entry, RemoveL(e)
  PROVE  /\ Types' /\ Idle /\ UNCHANGED <<clock, job, need, evicted>>
         /\ \/ ent[e].st = "complete" /\ Deletes(e)
            \/ /\ ent[e].st \in {"responding", "requesting"}
               /\ ent'[e].st = "destroyed" /\ SameSpace(e)
               /\ UNCHANGED <<bucket, content>>
<1>1. Idle /\ UNCHANGED <<clock, job, need, evicted>>
  BY DEF RemoveL
<1>2. CASE ent[e].st = "complete" /\ Erase(e, ent, bucket, content)
  <2>1. Types' /\ Deletes(e)
    BY <1>1, <1>2, DeletesLemma
  <2>. QED BY <1>1, <1>2, <2>1
<1>3. CASE /\ ent[e].st \in {"responding", "requesting"}
           /\ ent' = [ent EXCEPT ![e].st = "destroyed"]
           /\ UNCHANGED <<bucket, content>>
  <2>1. PICK q : q = [ent[e] EXCEPT !.st = "destroyed"]
    OBVIOUS
  <2>2. ent[e] \in EntryRecord
    BY DEF Types
  <2>3. /\ q \in EntryRecord /\ q.st = "destroyed" /\ q.size = ent[e].size /\ q.hdr = ent[e].hdr
        /\ q.ref = ent[e].ref /\ q.last = ent[e].last /\ q.cand = ent[e].cand /\ q.del = ent[e].del
    BY <2>1, <2>2 DEF EntryRecord
  <2>4. ent' = [ent EXCEPT ![e] = q]
    BY <1>3, <2>1
  <2>5. ent' \in [Entry -> EntryRecord] /\ ent'[e] = q /\ \A x \in Entry \ {e} : ent'[x] = ent[x]
    BY <2>3, <2>4, OneChanges DEF Types
  <2>6. Types'
    BY <1>1, <1>3, <2>5, NothingSaved DEF Types
  <2>. QED BY <1>1, <1>3, <2>3, <2>5, <2>6 DEF SameSpace
<1>. QED BY <1>2, <1>3 DEF RemoveL

(* A save that fails is tried once more with other headers, or takes its
   entry with it. *)
Retried(es, bs) ==
  /\ job.kind \in {"merged", "add"} /\ job'.kind = IF job.kind = "add" THEN "restore" ELSE "original"
  /\ job'.e = job.e /\ job'.n \in Nat /\ evicted' = {}
  /\ ~job'.full => content' + job'.n <= Size /\ need' = 0
  /\ ent' = es /\ bucket' = bs /\ content' = LeftContent /\ clock' = clock

GivenUp(es, bs) ==
  /\ job' = NoJob /\ need' = 0 /\ evicted' = {} /\ clock' = clock
  /\ ent'[job.e] = NoEntry /\ \A x \in Entry \ {job.e} : ent'[x] = es[x]
  /\ content' = LeftContent - Occupied(es[job.e])
  /\ bucket' = Destroyed(bs, job.e, es[job.e])

LEMMA FailEffect ==
  ASSUME Types, Active, NEW es \in [Entry -> EntryRecord], NEW bs \in BucketsType, Fail(es, bs)
  PROVE  Types' /\ (Retried(es, bs) \/ GivenUp(es, bs))
<1>1. job.e \in Entry /\ job.old \in Nat /\ LeftContent \in Int /\ clock' = clock
  BY ActiveLemma, LeftLemma DEF Fail
<1>2. CASE job.kind \in {"merged", "add"} /\ job.old > 0
  <2>1. PICK kind : kind = IF job.kind = "add" THEN "restore" ELSE "original"
    OBVIOUS
  <2>2. /\ ent' = es /\ bucket' = bs /\ content' = LeftContent
        /\ SaveBuffer(kind, job.e, job.old, 0, LeftContent)
    BY <1>2, <2>1 DEF Fail
  <2>3. kind \in Saving
    BY <2>1 DEF Saving
  <2>4. /\ job'.kind = kind /\ job'.e = job.e /\ job'.n = job.old /\ evicted' = {}
        /\ ~job'.full => LeftContent + job.old <= Size /\ need' = 0
    BY <1>1, <2>2, <2>3, SaveBufferFields
  <2>. QED BY <1>1, <1>2, <2>1, <2>2, <2>4, FailTypes DEF Retried
<1>3. CASE ~(job.kind \in {"merged", "add"} /\ job.old > 0)
  <2>1. Erase(job.e, es, bs, LeftContent) /\ job' = NoJob /\ need' = 0 /\ evicted' = {}
    BY <1>3 DEF Fail
  <2>2. /\ ent'[job.e] = NoEntry /\ \A x \in Entry \ {job.e} : ent'[x] = es[x]
        /\ content' = LeftContent - Occupied(es[job.e])
    BY <1>1, <2>1, EraseTypes
  <2>3. bucket' = Destroyed(bs, job.e, es[job.e])
    BY <2>1 DEF Erase
  <2>. QED BY <1>1, <2>1, <2>2, <2>3, FailTypes DEF GivenUp
<1>. QED BY <1>2, <1>3

LEMMA NotSavedEffect ==
  ASSUME Types, NotSaved
  PROVE  /\ Types' /\ Active /\ job.e \notin evicted
         /\ Retried(Left, bucket) \/ GivenUp(Left, bucket)
<1>1. Active /\ job.e \notin evicted /\ Fail(Left, bucket)
  BY ActiveLemma DEF NotSaved, EvictEnds
<1>. QED BY <1>1, LeftLemma, FailEffect DEF Types

LEMMA BodyNotSavedEffect ==
  ASSUME Types, BodyNotSaved
  PROVE  /\ Types' /\ Active /\ CreateErrors
         /\ job' = NoJob /\ need' = 0 /\ evicted' = {} /\ clock' = clock
         /\ ent'[job.e] = NoEntry /\ \A x \in Entry \ {job.e} : ent'[x] = Left[x]
         /\ content' = LeftContent - ent[job.e].hdr /\ job.e \notin evicted
         /\ bucket' = Destroyed(EmptiedBuckets(bucket, job.e, ent[job.e]), job.e, Emptied(ent[job.e]))
<1>1. Active /\ CreateErrors /\ job.kind = "body" /\ job.e \notin evicted
  BY ActiveLemma DEF BodyNotSaved, EvictEnds
<1>2. job.e \in Entry /\ Left \in [Entry -> EntryRecord] /\ Left[job.e] = ent[job.e]
  BY <1>1, ActiveLemma, LeftLemma
<1>3. PICK q : q = Emptied(ent[job.e])
  OBVIOUS
<1>4. q \in EntryRecord /\ q.size = 0 /\ q.hdr = ent[job.e].hdr
  BY <1>2, <1>3, EmptiedFields DEF Types
<1>5. PICK es : es = [Left EXCEPT ![job.e] = q]
  OBVIOUS
<1>6. es \in [Entry -> EntryRecord] /\ es[job.e] = q /\ \A x \in Entry \ {job.e} : es[x] = Left[x]
  BY <1>2, <1>4, <1>5, OneChanges
<1>7. PICK bs : bs = EmptiedBuckets(bucket, job.e, ent[job.e])
  OBVIOUS
<1>8. bs \in BucketsType
  BY <1>2, <1>7, BucketsAreLists DEF Types
<1>9. es = [Left EXCEPT ![job.e] = Emptied(@)]
  BY <1>2, <1>3, <1>5
<1>10. Fail(es, bs)
  BY <1>7, <1>9 DEF BodyNotSaved
<1>11. Types' /\ (Retried(es, bs) \/ GivenUp(es, bs))
  BY <1>1, <1>6, <1>8, <1>10, FailEffect
<1>12. GivenUp(es, bs)
  BY <1>1, <1>11 DEF Retried
<1>13. Occupied(es[job.e]) = ent[job.e].hdr
  BY <1>4, <1>6 DEF Occupied, EntryRecord
<1>. QED BY <1>1, <1>3, <1>6, <1>7, <1>11, <1>12, <1>13 DEF GivenUp

(* The entry a bucket gives up. *)
LEMMA ChosenLemma ==
  ASSUME Types, NEW b \in Buckets, b \in Chosen
  PROVE  /\ bucket[b] \in Seq(Entry) /\ bucket[b] # <<>>
         /\ Head(bucket[b]) \in Entry /\ Evictable(Head(bucket[b]))
         /\ [bucket EXCEPT ![b] = Tail(@)] \in BucketsType
BY FirstOut DEF Types, Chosen, Heads, BucketsType

LEMMA EvictEffect ==
  ASSUME Types, NEW b \in Buckets, EvictL(b)
  PROVE  /\ Types' /\ Active /\ need > 0 /\ b \in Chosen
         /\ UNCHANGED <<ent, content, clock, job>>
         /\ bucket' = [bucket EXCEPT ![b] = Tail(@)]
         /\ evicted' = evicted \cup {Head(bucket[b])}
<1>1. /\ job.kind # "freed" /\ need > 0 /\ b \in Chosen
      /\ UNCHANGED <<ent, content, clock, job>>
      /\ bucket' = [bucket EXCEPT ![b] = Tail(@)]
      /\ evicted' = evicted \cup {Head(bucket[b])}
      /\ need' = need - Occupied(ent[Head(bucket[b])])
  BY DEF EvictL
<1>2. need' \in Int /\ evicted' \in SUBSET Entry /\ bucket' \in BucketsType
  <2>1. Head(bucket[b]) \in Entry /\ bucket' \in BucketsType
    BY <1>1, ChosenLemma
  <2>2. Occupied(ent[Head(bucket[b])]) \in Nat
    BY <2>1, OccupiedType DEF Types
  <2>3. need \in Int /\ evicted \in SUBSET Entry
    BY DEF Types, JobShape
  <2>. QED BY <1>1, <2>1, <2>2, <2>3
<1>3. Active
  BY <1>1 DEF Types, JobShape
<1>4. Types'
  BY <1>1, <1>2, <1>3 DEF Types, JobShape, Active
<1>. QED BY <1>1, <1>3, <1>4

LEMMA EvictLeavesEffect ==
  ASSUME Types, NEW b \in Buckets, EvictLeaves(b)
  PROVE  /\ Types' /\ Active /\ MemErrors /\ evicted = {} /\ b \in Chosen /\ LeftContent = content
         /\ Retried(ent, [bucket EXCEPT ![b] = Tail(@)]) \/ GivenUp(ent, [bucket EXCEPT ![b] = Tail(@)])
<1>1. /\ MemErrors /\ evicted = {} /\ b \in Chosen
      /\ Fail(ent, [bucket EXCEPT ![b] = Tail(@)])
  BY DEF EvictLeaves
<1>2. LeftContent = content
  BY <1>1, TotalOfNone DEF LeftContent, Types
<1>3. Active
  BY DEF EvictLeaves, Types, JobShape
<1>. QED BY <1>1, <1>2, <1>3, ChosenLemma, FailEffect DEF Types

LEMMA SavedEffect ==
  ASSUME Types, Saved
  PROVE  /\ Types' /\ Active /\ Enough /\ job.e \in Entry \ evicted /\ job.n \in Nat
         /\ job' = NoJob /\ need' = 0 /\ evicted' = {} /\ clock' = clock
         /\ content' = LeftContent + job.n
         /\ bucket' = IF job.kind \in {"merged", "original"}
                      THEN SetComplete(bucket, job.e, ent[job.e]) ELSE bucket
         /\ \A x \in Entry \ {job.e} : ent'[x] = Left[x]
         /\ ent'[job.e].ref = ent[job.e].ref /\ ent'[job.e].last = ent[job.e].last
         /\ IF job.kind = "body"
            THEN /\ ent'[job.e].size = ent[job.e].size + job.n /\ ent'[job.e].hdr = ent[job.e].hdr
                 /\ ent'[job.e].st = ent[job.e].st /\ ent'[job.e].cand = ent[job.e].cand
                 /\ ent'[job.e].del = ent[job.e].del
            ELSE /\ ent'[job.e].size = ent[job.e].size /\ ent'[job.e].hdr = job.n
                 /\ IF job.kind \in {"merged", "original"}
                    THEN /\ ent'[job.e].st = "complete" /\ ent'[job.e].cand = TRUE
                         /\ ent'[job.e].del = ent[job.e].del
                    ELSE /\ ent'[job.e].st = ent[job.e].st /\ ent'[job.e].cand = ent[job.e].cand
                         /\ ent'[job.e].del = IF job.kind = "update" THEN ent[job.e].size > 0
                                                                     ELSE ent[job.e].del
<1>1. PICK r : r = ent[job.e]
  OBVIOUS
<1>2. PICK q : q = IF job.kind = "body" THEN [r EXCEPT !.size = @ + job.n, !.body = "mem"]
                   ELSE HeadersSaved(r)
  OBVIOUS
<1>3. Active /\ Enough /\ job.e \in Entry /\ job.e \notin evicted /\ job.n \in Nat
  BY ActiveLemma DEF Saved, EvictEnds
<1>4. /\ ent' = [Left EXCEPT ![job.e] = q]
      /\ bucket' = IF job.kind \in {"merged", "original"} THEN SetComplete(bucket, job.e, r) ELSE bucket
      /\ content' = LeftContent + job.n
      /\ job' = NoJob /\ need' = 0 /\ evicted' = {} /\ clock' = clock
  BY <1>1, <1>2 DEF Saved
<1>5. r \in EntryRecord
  BY <1>1, <1>3 DEF Types
<1>6. q \in EntryRecord
  <2>1. CASE job.kind = "body"
    BY <1>2, <1>3, <1>5, <2>1, BodySavedFields
  <2>2. CASE job.kind # "body"
    BY <1>2, <1>3, <1>5, <2>2, HeadersSavedFields DEF Active, Saving
  <2>. QED BY <2>1, <2>2
<1>7. /\ ent' \in [Entry -> EntryRecord] /\ ent'[job.e] = q
      /\ \A x \in Entry \ {job.e} : ent'[x] = Left[x]
  BY <1>3, <1>4, <1>6, LeftLemma, OneChanges
<1>8. bucket' \in BucketsType /\ content' \in Int /\ clock' \in Nat
  BY <1>3, <1>4, BucketsAreLists, LeftLemma DEF Types
<1>9. Types'
  BY <1>4, <1>7, <1>8, JobEnds DEF Types
<1>10. CASE job.kind = "body"
  <2>1. /\ q.st = r.st /\ q.size = r.size + job.n /\ q.hdr = r.hdr
        /\ q.ref = r.ref /\ q.last = r.last /\ q.cand = r.cand /\ q.del = r.del
    BY <1>2, <1>3, <1>5, <1>10, BodySavedFields
  <2>. QED BY <1>1, <1>3, <1>4, <1>7, <1>9, <1>10, <2>1
<1>11. CASE job.kind # "body"
  <2>1. /\ q.size = r.size /\ q.hdr = job.n /\ q.ref = r.ref /\ q.last = r.last
        /\ IF job.kind \in {"merged", "original"}
           THEN q.st = "complete" /\ q.cand = TRUE /\ q.del = r.del
           ELSE q.st = r.st /\ q.cand = r.cand
                /\ q.del = IF job.kind = "update" THEN r.size > 0 ELSE r.del
    BY <1>2, <1>3, <1>5, <1>11, HeadersSavedFields DEF Active, Saving
  <2>. QED BY <1>1, <1>3, <1>4, <1>7, <1>9, <1>11, <2>1
<1>. QED BY <1>10, <1>11

LEMMA SavesFreedEffect ==
  ASSUME Types, SavesFreed
  PROVE  /\ Types' /\ Active /\ job.e \in evicted
         /\ job'.kind = "freed" /\ need' = 0 /\ evicted' = {} /\ clock' = clock
         /\ ent' = Left /\ content' = LeftContent /\ bucket' = bucket
<1>1. Active /\ job.e \in evicted /\ job.e \in Entry
  BY ActiveLemma DEF SavesFreed, EvictEnds
<1>2. /\ job' = [job EXCEPT !.kind = "freed"] /\ need' = 0 /\ evicted' = {} /\ clock' = clock
      /\ ent' = Left /\ content' = LeftContent /\ bucket' = bucket
  BY DEF SavesFreed
<1>3. job' \in Job /\ job'.kind = "freed" /\ job'.e = job.e
  BY <1>2 DEF Types, JobShape, Job
<1>4. JobShape'
  BY <1>1, <1>2, <1>3 DEF JobShape
<1>. QED BY <1>1, <1>2, <1>3, <1>4, LeftLemma DEF Types

LEMMA TickEffect ==
  ASSUME Types, Tick
  PROVE  /\ Types' /\ Idle /\ UNCHANGED <<ent, bucket, content, job, need, evicted>>
         /\ clock' >= clock \/ (ClockJumps /\ clock' = 0)
         /\ clock' <= MaxTime
<1>1. /\ Idle /\ UNCHANGED <<ent, bucket, content, job, need, evicted>>
      /\ (clock < MaxTime /\ clock' = clock + 1) \/ (ClockJumps /\ clock' = 0)
  BY DEF Tick
<1>2. clock' \in Nat /\ clock' <= MaxTime
  BY <1>1, RangeAssumption DEF Types
<1>. QED BY <1>1, <1>2 DEF Types, JobShape, Active

(* An order of entries lists each of them once. *)
LEMMA OrdersLemma ==
  ASSUME NEW S \in SUBSET Entry, NEW f \in Orders(S)
  PROVE  f \in Seq(Entry) /\ NoDup(f) /\ ToSet(f) = S
<1>1. IsFiniteSet(S)
  BY EntryAssumption, FS_Subset
<1>2. PICK n : n = Cardinality(S)
  OBVIOUS
<1>3. n \in Nat
  BY <1>1, <1>2, FS_CardinalityType
<1>4. f \in [1..n -> S] /\ \A j, k \in 1..n : f[j] = f[k] => j = k
  BY <1>2 DEF Orders
<1>5. f \in Seq(Entry) /\ f \in Seq(S) /\ Len(f) = n
  BY <1>3, <1>4
<1>6. f \in Injection(1..n, S)
  BY <1>4 DEF Injection, IsInjective
<1>7. Cardinality(1..n) = n /\ IsFiniteSet(1..n)
  BY <1>3, FS_Interval
<1>8. f \in Surjection(1..n, S)
  BY <1>1, <1>2, <1>6, <1>7, FS_Injection
<1>9. \A x \in S : \E j \in 1..n : f[j] = x
  BY <1>8 DEF Surjection
<1>10. ToSet(f) = S
  <2>1. ASSUME NEW x \in S PROVE x \in ToSet(f)
    BY <1>5, <1>9, ToSetLemma
  <2>2. ToSet(f) \subseteq S
    BY <1>5, ToSetLemma
  <2>. QED BY <2>1, <2>2
<1>. QED BY <1>4, <1>5, <1>10 DEF NoDup

(* The entries that survive the closing of the cache. *)
Kept == {e \in Live : ent[e].size > 0}

LEMMA RestartEffect ==
  ASSUME Types, Restart
  PROVE  /\ Types' /\ Idle /\ Restarts /\ UNCHANGED <<clock, job, need, evicted>>
         /\ content' = TotalOf(Kept, ent)
         /\ \A e \in Live : ent[e].st = "complete"
         /\ \A e \in Kept : /\ ent'[e].st = "complete" /\ ent'[e].size = ent[e].size
                            /\ ent'[e].hdr = ent[e].hdr /\ ent'[e].ref = ent[e].ref
                            /\ ent'[e].last = ent[e].last /\ ent'[e].cand = TRUE
                            /\ ent'[e].del = FALSE
         /\ \A e \in Entry \ Kept : ent'[e] = NoEntry
         /\ \A b \in Buckets : bucket'[b] \in Orders({e \in Kept : Home(ent[e]) = b})
<1> DEFINE At(b) == Orders({e \in Kept : Home(ent[e]) = b})
<1>1. /\ Idle /\ Restarts /\ \A e \in Live : ent[e].st = "complete"
      /\ ent' = [e \in Entry |-> IF e \in Kept
                                 THEN [ent[e] EXCEPT !.cand = TRUE, !.del = FALSE, !.body = "file"]
                                 ELSE NoEntry]
      /\ content' = TotalOf(Kept, ent)
      /\ UNCHANGED <<clock, job, need, evicted>>
  BY DEF Restart, Kept
<1>2. PICK s0 \in At(0), s1 \in At(1), s2 \in At(2), s3 \in At(3), s4 \in At(4) :
        bucket' = [b \in Buckets |-> CASE b = 0 -> s0 [] b = 1 -> s1 [] b = 2 -> s2
                                       [] b = 3 -> s3 [] b = 4 -> s4]
  BY DEF Restart, Kept
<1>3. \A b \in Buckets : bucket'[b] \in At(b)
  <2> HIDE DEF At
  <2>1. Buckets = {0, 1, 2, 3, 4}
    BY DEF Buckets
  <2>2. \A b \in Buckets : bucket'[b] = CASE b = 0 -> s0 [] b = 1 -> s1 [] b = 2 -> s2
                                          [] b = 3 -> s3 [] b = 4 -> s4
    BY <1>2
  <2>3. bucket'[0] = s0 /\ bucket'[1] = s1 /\ bucket'[2] = s2 /\ bucket'[3] = s3 /\ bucket'[4] = s4
    BY <2>1, <2>2
  <2>. QED BY <2>1, <2>3
<1>4. bucket' = [b \in Buckets |-> bucket'[b]]
  <2> DEFINE F(b) == CASE b = 0 -> s0 [] b = 1 -> s1 [] b = 2 -> s2 [] b = 3 -> s3 [] b = 4 -> s4
  <2>1. bucket' = [b \in Buckets |-> F(b)]
    BY <1>2
  <2> HIDE DEF F
  <2>. QED BY <2>1
<1>5. Kept \in SUBSET Entry
  BY DEF Kept, Live
<1>6. bucket' \in BucketsType
  <2>1. \A b \in Buckets : bucket'[b] \in Seq(Entry)
    BY <1>3, <1>5, OrdersLemma
  <2>. QED BY <1>4, <2>1 DEF BucketsType
<1>7. ASSUME NEW e \in Kept
      PROVE  /\ ent'[e] \in EntryRecord
             /\ ent'[e].st = "complete" /\ ent'[e].size = ent[e].size
             /\ ent'[e].hdr = ent[e].hdr /\ ent'[e].ref = ent[e].ref
             /\ ent'[e].last = ent[e].last /\ ent'[e].cand = TRUE /\ ent'[e].del = FALSE
  <2>1. e \in Entry /\ ent[e] \in EntryRecord /\ ent[e].st = "complete"
    BY <1>1, <1>5 DEF Types, Kept
  <2>2. PICK p : p = [ent[e] EXCEPT !.cand = TRUE]
    OBVIOUS
  <2>3. /\ p \in EntryRecord /\ p.st = ent[e].st /\ p.size = ent[e].size /\ p.hdr = ent[e].hdr
        /\ p.ref = ent[e].ref /\ p.last = ent[e].last /\ p.cand = TRUE
    BY <2>1, <2>2 DEF EntryRecord
  <2>4. PICK q : q = [p EXCEPT !.del = FALSE]
    OBVIOUS
  <2>5. /\ q \in EntryRecord /\ q.st = ent[e].st /\ q.size = ent[e].size /\ q.hdr = ent[e].hdr
        /\ q.ref = ent[e].ref /\ q.last = ent[e].last /\ q.cand = TRUE /\ q.del = FALSE
    BY <2>3, <2>4 DEF EntryRecord
  <2>6. ent'[e] = [q EXCEPT !.body = "file"]
    BY <1>1, <2>1, <2>2, <2>4
  <2>. QED BY <2>1, <2>5, <2>6 DEF EntryRecord
<1>8. \A e \in Entry \ Kept : ent'[e] = NoEntry
  BY <1>1
<1>9. ent' \in [Entry -> EntryRecord]
  <2>1. \A e \in Entry : ent'[e] \in EntryRecord
    BY <1>7, <1>8, NoEntryFields
  <2>2. DOMAIN ent' = Entry /\ ent' = [e \in Entry |-> ent'[e]]
    BY <1>1
  <2>. QED BY <2>1, <2>2
<1>10. content' \in Int
  <2>1. TotalOf(Kept, ent) \in Nat
    BY <1>5, BytesFinite DEF Types
  <2>2. content' = TotalOf(Kept, ent)
    BY <1>1
  <2>. QED BY <2>1, <2>2
<1>11. Types'
  BY <1>1, <1>6, <1>9, <1>10, NothingSaved
<1>. QED BY <1>1, <1>3, <1>7, <1>8, <1>11

(* Every variable keeps its type, whatever happens. *)
THEOREM TypesTheorem == Spec => []Types
<1>1. Init => Types
  BY NoEntryFields, NoJobFields, EmptySeq DEF Init, Types, JobShape, BucketsType
<1>2. Types /\ [Next]_vars => Types'
  <2> SUFFICES ASSUME Types, [Next]_vars PROVE Types'
    OBVIOUS
  <2>1. ASSUME NEW e \in Entry, NewResponse(e) PROVE Types'
    BY <2>1, NewResponseEffect
  <2>2. ASSUME NEW e \in Entry, UpdatedResponse(e) PROVE Types'
    BY <2>2, UpdatedEffect
  <2>3. ASSUME NEW e \in Entry, AddHeaderL(e) PROVE Types'
    BY <2>3, AddHeaderEffect
  <2>4. ASSUME NEW e \in Entry, NEW n \in ChunkLen, ReceivedResponseBodyDataL(e, n) PROVE Types'
    BY <2>4, BodyDataEffect
  <2>5. ASSUME NEW e \in Entry, ResponseComplete(e) PROVE Types'
    BY <2>5, ResponseCompleteEffect
  <2>6. ASSUME NEW e \in Entry, FlushFails(e) PROVE Types'
    BY <2>6, FlushFailsEffect
  <2>7. ASSUME NEW e \in Entry, WriteStarts(e) \/ WriteEnds(e) PROVE Types'
    BY <2>7, WriteEffect
  <2>8. ASSUME NEW e \in Entry, RequestL(e) PROVE Types'
    BY <2>8, RequestEffect
  <2>9. ASSUME NEW e \in Entry, RequestClosed(e) PROVE Types'
    BY <2>9, RequestClosedEffect
  <2>10. ASSUME NEW e \in Entry, RemoveL(e) PROVE Types'
    BY <2>10, RemoveEffect
  <2>11. ASSUME NEW e \in Entry, MergeL(e) PROVE Types'
    BY <2>11, MergeEffect
  <2>12. ASSUME NEW b \in Buckets, EvictL(b) PROVE Types'
    BY <2>12, EvictEffect
  <2>13. ASSUME NEW b \in Buckets, EvictLeaves(b) PROVE Types'
    BY <2>13, EvictLeavesEffect
  <2>14. CASE Saved BY <2>14, SavedEffect
  <2>15. CASE NotSaved BY <2>15, NotSavedEffect
  <2>16. CASE BodyNotSaved BY <2>16, BodyNotSavedEffect
  <2>17. CASE SavesFreed BY <2>17, SavesFreedEffect
  <2>18. CASE Restart BY <2>18, RestartEffect
  <2>19. CASE Tick BY <2>19, TickEffect
  <2>20. CASE UNCHANGED vars
    BY <2>20 DEF vars, Types, JobShape, Active
  <2>. QED BY <2>1, <2>2, <2>3, <2>4, <2>5, <2>6, <2>7, <2>8, <2>9, <2>10, <2>11, <2>12,
              <2>13, <2>14, <2>15, <2>16, <2>17, <2>18, <2>19, <2>20 DEF Next
<1>. QED BY <1>1, <1>2, PTL DEF Spec

-----------------------------------------------------------------------------
(* The space accounting                                                     *)

(* An entry that is not there occupies nothing.  The headers of the entry a
   save is for have been removed when others are to be saved. *)
Blank == \A e \in Entry : ent[e].st = "free" => ent[e].size = 0 /\ ent[e].hdr = 0
Prepared == Active => ent[job.e].st # "free" /\ (job.kind # "body" => ent[job.e].hdr = 0)

(* A save that was not told to evict fits. *)
Fits == Active /\ ~job.full => content + job.n <= Size /\ need = 0 /\ evicted = {}

Orderly == Types /\ Blank /\ Prepared /\ Fits

(* Between the saves nothing is to be shown of them. *)
LEMMA NoSave ==
  ASSUME Types', job' = NoJob
  PROVE  Prepared' /\ Fits'
BY NoJobFields DEF Active, Saving, Prepared, Fits

LEMMA StillNoSave ==
  ASSUME Types, Idle, UNCHANGED job
  PROVE  Prepared' /\ Fits'
BY NoJobFields DEF Active, Saving, Prepared, Fits, Idle

LEMMA OrderlyFail ==
  ASSUME Orderly, Active, Types', NEW es \in [Entry -> EntryRecord], NEW bs,
         \A x \in Entry : x = job.e \/ es[x] = NoEntry \/ es[x] = ent[x],
         es[job.e] = ent[job.e],
         Retried(es, bs) \/ GivenUp(es, bs)
  PROVE  Orderly'
<1>1. job.e \in Entry
  BY ActiveLemma DEF Orderly
<1>2. CASE Retried(es, bs)
  <2>1. Blank'
    BY <1>1, <1>2, NoEntryFields DEF Retried, Blank, Orderly
  <2>2. ent'[job'.e] = ent[job.e] /\ job.kind # "body"
    BY <1>2 DEF Retried
  <2>3. Prepared'
    BY <2>2 DEF Prepared, Orderly
  <2>4. Fits'
    BY <1>2 DEF Retried, Fits
  <2>. QED BY <2>1, <2>3, <2>4 DEF Orderly
<1>3. CASE GivenUp(es, bs)
  <2>1. Blank'
    BY <1>1, <1>3, NoEntryFields DEF GivenUp, Blank, Orderly
  <2>. QED BY <1>3, <2>1, NoSave DEF GivenUp, Orderly
<1>. QED BY <1>2, <1>3

THEOREM OrderlyTheorem == Spec => []Orderly
<1>1. Init /\ Types => Orderly
  BY NoEntryFields, NoJobFields DEF Init, Orderly, Blank, Prepared, Fits, Active, Saving
<1>2. Types /\ Orderly /\ [Next]_vars => Orderly'
  <2> SUFFICES ASSUME Types, Orderly, [Next]_vars PROVE Orderly'
    OBVIOUS
  <2> USE DEF Orderly
  <2>1. ASSUME NEW e \in Entry, NewResponse(e) PROVE Orderly'
    <3>1. Blank'
      <4>1. ent'[e].st = "responding" /\ \A x \in Entry \ {e} : ent'[x] = ent[x]
        BY <2>1, NewResponseEffect
      <4>. QED BY <4>1 DEF Blank
    <3>2. Prepared'
      BY <2>1, NewResponseEffect DEF Prepared
    <3>3. Fits'
      BY <2>1, NewResponseEffect DEF Fits
    <3>. QED BY <2>1, <3>1, <3>2, <3>3, NewResponseEffect
  <2>2. ASSUME NEW e \in Entry, UpdatedResponse(e) PROVE Orderly'
    <3>1. Blank' /\ Prepared' /\ Fits'
      BY <2>2, UpdatedEffect DEF HeadersReplaced, Blank, Prepared, Fits
    <3>. QED BY <2>2, <3>1, UpdatedEffect
  <2>3. ASSUME NEW e \in Entry, AddHeaderL(e) PROVE Orderly'
    <3>1. Blank' /\ Prepared' /\ Fits'
      BY <2>3, AddHeaderEffect DEF HeadersReplaced, Blank, Prepared, Fits
    <3>. QED BY <2>3, <3>1, AddHeaderEffect
  <2>4. ASSUME NEW e \in Entry, NEW n \in ChunkLen, ReceivedResponseBodyDataL(e, n) PROVE Orderly'
    <3>1. /\ job'.kind = "body" /\ job'.e = e /\ evicted' = {} /\ ent'[e].st = "responding"
          /\ ~job'.full => content' + job'.n <= Size /\ need' = 0
          /\ \A x \in Entry \ {e} : ent'[x] = ent[x]
      BY <2>4, BodyDataEffect
    <3>2. Blank'
      BY <3>1 DEF Blank
    <3>3. Prepared' /\ Fits'
      BY <3>1 DEF Prepared, Fits
    <3>. QED BY <2>4, <3>2, <3>3, BodyDataEffect
  <2>5. ASSUME NEW e \in Entry, ResponseComplete(e) PROVE Orderly'
    <3>1. Blank'
      BY <2>5, ResponseCompleteEffect, ZenonT(60) DEF Blank
    <3>. QED BY <2>5, <3>1, ResponseCompleteEffect, StillNoSave
  <2>6. ASSUME NEW e \in Entry, FlushFails(e) PROVE Orderly'
    <3>1. Blank'
      BY <2>6, FlushFailsEffect, NoEntryFields DEF Blank
    <3>. QED BY <2>6, <3>1, FlushFailsEffect, StillNoSave
  <2>7. ASSUME NEW e \in Entry, WriteStarts(e) \/ WriteEnds(e) PROVE Orderly'
    <3>1. Blank'
      BY <2>7, WriteEffect DEF Blank, SameSpace
    <3>. QED BY <2>7, <3>1, WriteEffect, StillNoSave
  <2>8. ASSUME NEW e \in Entry, RequestL(e) PROVE Orderly'
    <3>1. Blank'
      BY <2>8, RequestEffect DEF Blank
    <3>. QED BY <2>8, <3>1, RequestEffect, StillNoSave
  <2>9. ASSUME NEW e \in Entry, RequestClosed(e) PROVE Orderly'
    <3>1. Blank'
      BY <2>9, RequestClosedEffect, NoEntryFields DEF Blank, Deletes
    <3>. QED BY <2>9, <3>1, RequestClosedEffect, StillNoSave
  <2>10. ASSUME NEW e \in Entry, RemoveL(e) PROVE Orderly'
    <3>1. Blank'
      BY <2>10, RemoveEffect, NoEntryFields DEF Blank, Deletes, SameSpace
    <3>. QED BY <2>10, <3>1, RemoveEffect, StillNoSave
  <2>11. ASSUME NEW e \in Entry, MergeL(e) PROVE Orderly'
    <3>1. Blank'
      BY <2>11, MergeEffect DEF Blank
    <3>. QED BY <2>11, <3>1, MergeEffect, StillNoSave
  <2>12. ASSUME NEW b \in Buckets, EvictL(b) PROVE Orderly'
    <3>1. /\ Types' /\ Active /\ need > 0 /\ UNCHANGED <<ent, content, job>>
      BY <2>12, EvictEffect
    <3>2. Active' /\ job.full
      BY <3>1 DEF Active, Fits
    <3>. QED BY <3>1, <3>2 DEF Blank, Prepared, Fits
  <2>13. ASSUME NEW b \in Buckets, EvictLeaves(b) PROVE Orderly'
    BY <2>13, EvictLeavesEffect, OrderlyFail DEF Types
  <2>14. CASE Saved
    <3>1. Active /\ job.e \in Entry /\ Types' /\ job' = NoJob
      BY <2>14, SavedEffect
    <3>2. ent'[job.e].st # "free"
      BY <2>14, <3>1, SavedEffect DEF Prepared
    <3>3. \A x \in Entry \ {job.e} : ent'[x] = NoEntry \/ ent'[x] = ent[x]
      BY <2>14, SavedEffect, LeftLemma
    <3>4. Blank'
      BY <3>2, <3>3, NoEntryFields DEF Blank
    <3>. QED BY <3>1, <3>4, NoSave
  <2>15. CASE NotSaved
    <3>1. /\ Types' /\ Active /\ job.e \notin evicted /\ job.e \in Entry
          /\ Retried(Left, bucket) \/ GivenUp(Left, bucket)
      BY <2>15, NotSavedEffect, ActiveLemma
    <3>. QED BY <3>1, LeftLemma, OrderlyFail
  <2>16. CASE BodyNotSaved
    <3>1. Types' /\ job' = NoJob /\ ent'[job.e] = NoEntry /\ \A x \in Entry \ {job.e} : ent'[x] = Left[x]
      BY <2>16, BodyNotSavedEffect
    <3>2. Blank'
      BY <3>1, LeftLemma, NoEntryFields DEF Blank
    <3>. QED BY <3>1, <3>2, NoSave
  <2>17. CASE SavesFreed
    <3>1. Types' /\ job'.kind = "freed" /\ ent' = Left
      BY <2>17, SavesFreedEffect
    <3>2. Blank'
      BY <3>1, LeftLemma, NoEntryFields DEF Blank
    <3>. QED BY <3>1, <3>2 DEF Prepared, Fits, Active, Saving
  <2>18. CASE Restart
    <3>1. Blank'
      BY <2>18, RestartEffect, NoEntryFields DEF Blank
    <3>. QED BY <2>18, <3>1, RestartEffect, StillNoSave
  <2>19. CASE Tick
    <3>1. Blank'
      BY <2>19, TickEffect DEF Blank
    <3>. QED BY <2>19, <3>1, TickEffect, StillNoSave
  <2>20. CASE UNCHANGED vars
    BY <2>20 DEF vars, Types, JobShape, Active, Blank, Prepared, Fits
  <2>. QED BY <2>1, <2>2, <2>3, <2>4, <2>5, <2>6, <2>7, <2>8, <2>9, <2>10, <2>11, <2>12,
              <2>13, <2>14, <2>15, <2>16, <2>17, <2>18, <2>19, <2>20 DEF Next
<1>. QED BY <1>1, <1>2, TypesTheorem, PTL DEF Spec

(* All that the entries occupy. *)
Total == TotalOf(Entry, ent)

LEMMA TotalNow == ASSUME Types PROVE Total \in Nat
BY BytesFinite DEF Types, Total

LEMMA TotalNext == ASSUME Types' PROVE Total' \in Nat /\ content' \in Int
<1>1. ent' \in [Entry -> EntryRecord] /\ content' \in Int
  BY DEF Types
<1>2. TotalOf(Entry, ent') \in Nat
  BY <1>1, BytesFinite
<1>. QED BY <1>1, <1>2 DEF Total

(* One entry changes, the others are as eviction leaves them. *)
LEMMA TotalAfterEviction ==
  ASSUME Types, Types', NEW e \in Entry, e \notin evicted,
         \A x \in Entry \ {e} : ent'[x] = Left[x]
  PROVE  Total' = Total - TotalOf(evicted, ent) - Occupied(ent[e]) + Occupied(ent'[e])
<1>1. /\ Left \in [Entry -> EntryRecord] /\ Left[e] = ent[e] /\ evicted \in SUBSET Entry
      /\ \A x \in Entry : Left[x] = IF x \in evicted THEN NoEntry ELSE ent[x]
  BY LeftLemma DEF Types, JobShape
<1>2. Occupied(NoEntry) = 0
  BY NoEntryFields DEF Occupied
<1>3. \A x \in Entry : Occupied(Left[x]) = IF x \in evicted THEN 0 ELSE Occupied(ent[x])
  BY <1>1, <1>2
<1>4. TotalOf(Entry, Left) = TotalOf(Entry, ent) - TotalOf(evicted, ent)
  BY <1>1, <1>3, TotalWithout DEF Types
<1>5. TotalOf(Entry, ent') = TotalOf(Entry, Left) - Occupied(Left[e]) + Occupied(ent'[e])
  BY <1>1, TotalUpdate DEF Types
<1>. QED BY <1>1, <1>4, <1>5 DEF Total

(* One entry changes. *)
LEMMA TotalAfter ==
  ASSUME Types, Types', NEW e \in Entry, \A x \in Entry \ {e} : ent'[x] = ent[x]
  PROVE  Total' = Total - Occupied(ent[e]) + Occupied(ent'[e])
BY TotalUpdate DEF Types, Total

LEMMA TotalSameSpace ==
  ASSUME Types, Types', NEW e \in Entry, \A x \in Entry \ {e} : ent'[x] = ent[x],
         ent'[e].size = ent[e].size, ent'[e].hdr = ent[e].hdr
  PROVE  Total' = Total
<1>1. Occupied(ent'[e]) = Occupied(ent[e]) /\ Occupied(ent[e]) \in Nat
  BY OccupiedType DEF Occupied, Types
<1>. QED BY <1>1, TotalAfter, TotalNow

(* What the entries with a body occupy is what is left after a restart. *)
LEMMA TotalRestart ==
  ASSUME Types, Restart
  PROVE  Total' = TotalOf(Kept, ent) /\ Total' <= Total
<1>1. Types' /\ Kept \in SUBSET Entry /\ Entry \ Kept \in SUBSET Entry
  BY RestartEffect DEF Kept, Live
<1>2. \A e \in Kept : Occupied(ent'[e]) = Occupied(ent[e])
  BY RestartEffect DEF Occupied
<1>3. \A e \in Entry \ Kept : ent'[e] = NoEntry
  BY RestartEffect
<1>4. TotalOf(Kept, ent') = TotalOf(Kept, ent)
  BY <1>1, <1>2, TotalSame
<1>5. PICK S \in SUBSET Entry : S = Entry \ Kept /\ S \cap Kept = {} /\ Kept \cup S = Entry
  BY <1>1
<1>6. ASSUME NEW es \in [Entry -> EntryRecord]
      PROVE  TotalOf(Entry, es) = TotalOf(Kept, es) + TotalOf(S, es)
  <2>1. TotalOf(Kept \cup S, es) = TotalOf(Kept, es) + TotalOf(S, es)
    BY <1>1, <1>5, TotalSplit
  <2>. QED BY <1>5, <2>1
<1>7. TotalOf(S, ent') = 0
  <2>1. Occupied(NoEntry) = 0
    BY NoEntryFields DEF Occupied
  <2>2. \A e \in S : ent'[e] = NoEntry
    BY <1>3, <1>5
  <2>3. BytesOf(S, ent') = {}
    BY <2>1, <2>2 DEF BytesOf
  <2>. QED BY <2>3, FS_EmptySet DEF TotalOf
<1>8. /\ TotalOf(Entry, ent') = TotalOf(Kept, ent') + TotalOf(S, ent')
      /\ TotalOf(Entry, ent) = TotalOf(Kept, ent) + TotalOf(S, ent)
  BY <1>1, <1>6 DEF Types
<1>9. TotalOf(Kept, ent) \in Nat /\ TotalOf(S, ent) \in Nat
  BY <1>1, BytesFinite DEF Types
<1>. QED BY <1>4, <1>7, <1>8, <1>9 DEF Total

(* How a step moves what is accounted for against what is occupied: by the
   same amount, or by less when a body file cannot be created; a restart
   counts anew. *)
Balanced ==
  \/ content' - Total' = content - Total
  \/ CreateErrors /\ content' - Total' >= content - Total
  \/ content' = Total'

LEMMA BalancedFail ==
  ASSUME Types, Types', Active, NEW bs, job.e \notin evicted,
         Retried(Left, bs) \/ GivenUp(Left, bs)
  PROVE  Balanced
<1>1. /\ job.e \in Entry /\ Total \in Nat /\ content \in Int
      /\ LeftContent = content - TotalOf(evicted, ent) /\ TotalOf(evicted, ent) \in Nat
      /\ Left[job.e] = ent[job.e] /\ Occupied(ent[job.e]) \in Nat
  BY ActiveLemma, LeftLemma, TotalNow, OccupiedType DEF Types
<1>2. Total' = Total - TotalOf(evicted, ent) - Occupied(ent[job.e]) + Occupied(ent'[job.e])
  BY <1>1, TotalAfterEviction DEF Retried, GivenUp
<1>3. CASE Retried(Left, bs)
  <2>1. ent'[job.e] = ent[job.e] /\ content' = LeftContent
    BY <1>1, <1>3 DEF Retried
  <2>. QED BY <1>1, <1>2, <2>1 DEF Balanced
<1>4. CASE GivenUp(Left, bs)
  <2>1. Occupied(ent'[job.e]) = 0 /\ content' = LeftContent - Occupied(ent[job.e])
    BY <1>1, <1>4, NoEntryFields DEF GivenUp, Occupied
  <2>. QED BY <1>1, <1>2, <2>1 DEF Balanced
<1>. QED BY <1>3, <1>4

(* An entry is deleted with what it occupies. *)
LEMMA BalancedDeletes ==
  ASSUME Types, Types', NEW e \in Entry, Deletes(e)
  PROVE  Balanced
<1>1. /\ Occupied(ent[e]) \in Nat /\ Total \in Nat /\ content \in Int
      /\ Occupied(ent'[e]) = 0 /\ content' = content - Occupied(ent[e])
  BY OccupiedType, TotalNow, NoEntryFields DEF Types, Deletes, Occupied
<1>2. Total' = Total - Occupied(ent[e]) + Occupied(ent'[e])
  BY TotalAfter DEF Deletes
<1>. QED BY <1>1, <1>2 DEF Balanced

(* Nothing is saved or deleted. *)
LEMMA BalancedSame ==
  ASSUME Types, Types', NEW e \in Entry, \A x \in Entry \ {e} : ent'[x] = ent[x],
         ent'[e].size = ent[e].size, ent'[e].hdr = ent[e].hdr, content' = content
  PROVE  Balanced
BY TotalSameSpace, TotalNow DEF Types, Balanced

LEMMA BalancedHeaders ==
  ASSUME Types, Types', NEW e \in Entry, HeadersReplaced(e)
  PROVE  Balanced
<1>1. /\ Total' = Total - Occupied(ent[e]) + Occupied(ent'[e])
      /\ Total \in Nat /\ content \in Int /\ ent[e].size \in Nat /\ ent[e].hdr \in Nat
  BY TotalAfter, TotalNow DEF HeadersReplaced, Types, EntryRecord
<1>2. ent'[e].size = ent[e].size /\ ent'[e].hdr = 0 /\ content' = content - ent[e].hdr
  BY DEF HeadersReplaced
<1>. QED BY <1>1, <1>2 DEF Balanced, Occupied

LEMMA StepBalanced ==
  ASSUME Orderly, ~Merges, [Next]_vars
  PROVE  Types' /\ Balanced
<1> USE DEF Orderly
<1>0. Total \in Nat /\ content \in Int /\ \A e \in Entry : ent[e] \in EntryRecord
  BY TotalNow DEF Types
<1>1. ASSUME NEW e \in Entry, NewResponse(e) PROVE Types' /\ Balanced
  <2>1. /\ Types' /\ content' = content /\ ent'[e].size = ent[e].size /\ ent'[e].hdr = ent[e].hdr
        /\ \A x \in Entry \ {e} : ent'[x] = ent[x]
    BY <1>1, NewResponseEffect DEF Blank
  <2>. QED BY <2>1, BalancedSame
<1>2. ASSUME NEW e \in Entry, UpdatedResponse(e) PROVE Types' /\ Balanced
  BY <1>2, UpdatedEffect, BalancedHeaders
<1>3. ASSUME NEW e \in Entry, AddHeaderL(e) PROVE Types' /\ Balanced
  BY <1>3, AddHeaderEffect, BalancedHeaders
<1>4. ASSUME NEW e \in Entry, NEW n \in ChunkLen, ReceivedResponseBodyDataL(e, n)
      PROVE Types' /\ Balanced
  <2>1. /\ Types' /\ content' = IF ent[e].del THEN content - ent[e].size ELSE content
        /\ ent'[e].size = IF ent[e].del THEN 0 ELSE ent[e].size
        /\ ent'[e].hdr = ent[e].hdr /\ \A x \in Entry \ {e} : ent'[x] = ent[x]
    BY <1>4, BodyDataEffect
  <2>2. Total' = Total - Occupied(ent[e]) + Occupied(ent'[e])
    BY <2>1, TotalAfter
  <2>3. ent[e].size \in Nat /\ ent[e].hdr \in Nat /\ ent[e].del \in BOOLEAN
    BY <1>0 DEF EntryRecord
  <2>4. CASE ent[e].del
    BY <1>0, <2>1, <2>2, <2>3, <2>4 DEF Occupied, Balanced
  <2>5. CASE ~ent[e].del
    BY <1>0, <2>1, <2>2, <2>3, <2>5 DEF Occupied, Balanced
  <2>. QED BY <2>1, <2>4, <2>5
<1>5. ASSUME NEW e \in Entry, ResponseComplete(e) PROVE Types' /\ Balanced
  BY <1>5, ResponseCompleteEffect, BalancedSame
<1>6. ASSUME NEW e \in Entry, FlushFails(e) PROVE Types' /\ Balanced
  <2>1. /\ Types' /\ CreateErrors /\ content' = content - ent[e].hdr
        /\ ent'[e] = NoEntry /\ \A x \in Entry \ {e} : ent'[x] = ent[x]
    BY <1>6, FlushFailsEffect
  <2>2. Total' = Total - Occupied(ent[e]) + Occupied(ent'[e])
    BY <2>1, TotalAfter
  <2>3. ent[e].size \in Nat /\ ent[e].hdr \in Nat /\ Occupied(ent'[e]) = 0
    BY <1>0, <2>1, NoEntryFields DEF EntryRecord, Occupied
  <2>. QED BY <1>0, <2>1, <2>2, <2>3 DEF Occupied, Balanced
<1>7. ASSUME NEW e \in Entry, WriteStarts(e) \/ WriteEnds(e) PROVE Types' /\ Balanced
  BY <1>7, WriteEffect, BalancedSame DEF SameSpace
<1>8. ASSUME NEW e \in Entry, RequestL(e) PROVE Types' /\ Balanced
  BY <1>8, RequestEffect, BalancedSame
<1>9. ASSUME NEW e \in Entry, RequestClosed(e) PROVE Types' /\ Balanced
  BY <1>9, RequestClosedEffect, BalancedSame, BalancedDeletes
<1>10. ASSUME NEW e \in Entry, RemoveL(e) PROVE Types' /\ Balanced
  BY <1>10, RemoveEffect, BalancedSame, BalancedDeletes DEF SameSpace
<1>11. ASSUME NEW e \in Entry, MergeL(e) PROVE Types' /\ Balanced
  BY <1>11, MergeEffect
<1>12. ASSUME NEW b \in Buckets, EvictL(b) PROVE Types' /\ Balanced
  BY <1>0, <1>12, EvictEffect DEF Balanced, Total
<1>13. ASSUME NEW b \in Buckets, EvictLeaves(b) PROVE Types' /\ Balanced
  <2>1. PICK bs : Types' /\ Active /\ evicted = {} /\ (Retried(ent, bs) \/ GivenUp(ent, bs))
    BY <1>13, EvictLeavesEffect
  <2>2. Left = ent
    BY <2>1, LeftLemma DEF Types
  <2>. QED BY <2>1, <2>2, BalancedFail
<1>14. CASE Saved
  <2>1. /\ Types' /\ Active /\ job.e \in Entry /\ job.e \notin evicted /\ job.n \in Nat
        /\ content' = LeftContent + job.n /\ \A x \in Entry \ {job.e} : ent'[x] = Left[x]
    BY <1>14, SavedEffect
  <2>2. Total' = Total - TotalOf(evicted, ent) - Occupied(ent[job.e]) + Occupied(ent'[job.e])
    BY <2>1, TotalAfterEviction
  <2>3. LeftContent = content - TotalOf(evicted, ent) /\ TotalOf(evicted, ent) \in Nat
    BY LeftLemma
  <2>4. Occupied(ent'[job.e]) = Occupied(ent[job.e]) + job.n /\ Occupied(ent[job.e]) \in Nat
    <3>1. ent[job.e].size \in Nat /\ ent[job.e].hdr \in Nat
      BY <1>0, <2>1 DEF EntryRecord
    <3>2. CASE job.kind = "body"
      BY <1>14, <2>1, <3>1, <3>2, SavedEffect DEF Occupied
    <3>3. CASE job.kind # "body"
      <4>1. ent[job.e].hdr = 0
        BY <2>1, <3>3 DEF Prepared
      <4>2. ent'[job.e].size = ent[job.e].size /\ ent'[job.e].hdr = job.n
        BY <1>14, <3>3, SavedEffect
      <4>. QED BY <2>1, <3>1, <4>1, <4>2 DEF Occupied
    <3>. QED BY <3>2, <3>3
  <2>. QED BY <1>0, <2>1, <2>2, <2>3, <2>4 DEF Balanced
<1>15. CASE NotSaved
  BY <1>15, NotSavedEffect, BalancedFail
<1>16. CASE BodyNotSaved
  <2>1. /\ Types' /\ Active /\ CreateErrors /\ job.e \notin evicted
        /\ ent'[job.e] = NoEntry /\ \A x \in Entry \ {job.e} : ent'[x] = Left[x]
        /\ content' = LeftContent - ent[job.e].hdr
    BY <1>16, BodyNotSavedEffect
  <2>2. job.e \in Entry
    BY <2>1, ActiveLemma
  <2>3. Total' = Total - TotalOf(evicted, ent) - Occupied(ent[job.e]) + Occupied(ent'[job.e])
    BY <2>1, <2>2, TotalAfterEviction
  <2>4. LeftContent = content - TotalOf(evicted, ent) /\ TotalOf(evicted, ent) \in Nat
    BY LeftLemma
  <2>5. ent[job.e].size \in Nat /\ ent[job.e].hdr \in Nat /\ Occupied(ent'[job.e]) = 0
    BY <1>0, <2>1, <2>2, NoEntryFields DEF EntryRecord, Occupied
  <2>. QED BY <1>0, <2>1, <2>3, <2>4, <2>5 DEF Balanced, Occupied
<1>17. CASE SavesFreed
  <2>1. Types' /\ ent' = Left /\ content' = LeftContent
    BY <1>17, SavesFreedEffect
  <2>2. \A x \in Entry : Occupied(Left[x]) = IF x \in evicted THEN 0 ELSE Occupied(ent[x])
    BY LeftLemma, NoEntryFields DEF Occupied
  <2>3. Left \in [Entry -> EntryRecord] /\ evicted \in SUBSET Entry
    BY LeftLemma DEF Types, JobShape
  <2>4. TotalOf(Entry, Left) = TotalOf(Entry, ent) - TotalOf(evicted, ent)
    BY <2>2, <2>3, TotalWithout DEF Types
  <2>5. LeftContent = content - TotalOf(evicted, ent) /\ TotalOf(evicted, ent) \in Nat
    BY LeftLemma
  <2>6. Total' = Total - TotalOf(evicted, ent)
    BY <2>1, <2>4 DEF Total
  <2>. QED BY <1>0, <2>1, <2>5, <2>6 DEF Balanced
<1>18. CASE Restart
  BY <1>18, RestartEffect, TotalRestart DEF Balanced
<1>19. CASE Tick
  BY <1>0, <1>19, TickEffect DEF Balanced, Total
<1>20. CASE UNCHANGED vars
  BY <1>0, <1>20 DEF vars, Types, JobShape, Active, Balanced, Total
<1>. QED BY <1>1, <1>2, <1>3, <1>4, <1>5, <1>6, <1>7, <1>8, <1>9, <1>10, <1>11, <1>12,
            <1>13, <1>14, <1>15, <1>16, <1>17, <1>18, <1>19, <1>20 DEF Next

(* Only entries that are there occupy anything. *)
LEMMA TotalIsLive ==
  ASSUME Types, Blank
  PROVE  Total = TotalOf(Live, ent)
<1>1. PICK S \in SUBSET Entry : S = Entry \ Live
  OBVIOUS
<1>2. Live \in SUBSET Entry /\ Live \cap S = {} /\ Live \cup S = Entry
  BY <1>1 DEF Live
<1>3. TotalOf(Live \cup S, ent) = TotalOf(Live, ent) + TotalOf(S, ent)
  BY <1>2, TotalSplit DEF Types
<1>4. \A e \in S : Occupied(ent[e]) = 0
  BY <1>1 DEF Live, Blank, Occupied
<1>5. BytesOf(S, ent) = {}
  BY <1>4 DEF BytesOf
<1>6. TotalOf(S, ent) = 0 /\ TotalOf(Live, ent) \in Nat
  BY <1>2, <1>5, FS_EmptySet, BytesFinite DEF Types, TotalOf
<1>. QED BY <1>2, <1>3, <1>6 DEF Total

(* At first nothing is occupied. *)
LEMMA InitTotal ==
  ASSUME Init, Types
  PROVE  content = 0 /\ Total = 0
<1>1. \A e \in Entry : Occupied(ent[e]) = 0
  BY NoEntryFields DEF Init, Occupied
<1>2. BytesOf(Entry, ent) = {}
  BY <1>1 DEF BytesOf
<1>. QED BY <1>2, FS_EmptySet DEF Init, Total, TotalOf

LEMMA CarryOver ==
  \A c, t, d, u \in Int :
    /\ d - u = c - t => (c = t => d = u) /\ (t <= c => u <= d)
    /\ d - u >= c - t => (t <= c => u <= d)
    /\ d = u => u <= d
OBVIOUS

(* iContentSize, which SaveBuffer, EvictL, Erase, RemoveHeaders and RemoveBodyData
   adjust, is what the entries occupy, unless body files cannot be created or
   another process's index is merged. *)
THEOREM AccountedTheorem ==
  ASSUME ~Merges, ~CreateErrors
  PROVE  Spec => []Accounted
<1>1. Init /\ Types => content = Total
  BY InitTotal
<1>2. Orderly /\ content = Total /\ [Next]_vars => (content = Total)'
  <2> SUFFICES ASSUME Orderly, content = Total, [Next]_vars PROVE (content = Total)'
    OBVIOUS
  <2>1. Types' /\ Balanced /\ Types
    BY StepBalanced DEF Orderly
  <2>2. Total \in Int /\ Total' \in Int /\ content' \in Int /\ content \in Int
    BY <2>1, TotalNow, TotalNext DEF Types
  <2>3. content' = Total'
    BY <2>1, <2>2, CarryOver DEF Balanced
  <2>. QED BY <2>3
<1>3. Orderly /\ content = Total => Accounted
  BY TotalIsLive DEF Orderly, Accounted
<1>. QED BY <1>1, <1>2, <1>3, TypesTheorem, OrderlyTheorem, PTL DEF Spec

(* What is accounted for is never less than what is occupied: every failure
   errs on the side of the capacity. *)
THEOREM BalanceTheorem ==
  ASSUME ~Merges
  PROVE  Spec => [](Total <= content)
<1>1. Init /\ Types => Total <= content
  BY InitTotal
<1>2. Orderly /\ Total <= content /\ [Next]_vars => (Total <= content)'
  <2> SUFFICES ASSUME Orderly, Total <= content, [Next]_vars PROVE (Total <= content)'
    OBVIOUS
  <2>1. Types' /\ Balanced /\ Types
    BY StepBalanced DEF Orderly
  <2>2. Total \in Int /\ Total' \in Int /\ content' \in Int /\ content \in Int
    BY <2>1, TotalNow, TotalNext DEF Types
  <2>3. Total' <= content'
    BY <2>1, <2>2, CarryOver DEF Balanced
  <2>. QED BY <2>3
<1>. QED BY <1>1, <1>2, TypesTheorem, OrderlyTheorem, PTL DEF Spec

(* A save that fails leaves the cache no fuller. *)
LEMMA WithinFail ==
  ASSUME Types, Active, NEW es \in [Entry -> EntryRecord], NEW bs, Retried(es, bs) \/ GivenUp(es, bs)
  PROVE  content' <= content
<1>1. /\ LeftContent = content - TotalOf(evicted, ent) /\ TotalOf(evicted, ent) \in Nat
      /\ content \in Int /\ Occupied(es[job.e]) \in Nat
  BY ActiveLemma, LeftLemma, OccupiedType DEF Types
<1>. QED BY <1>1 DEF Retried, GivenUp

(* No step but a save or another process's index makes the cache fuller. *)
LEMMA StepWithin ==
  ASSUME Orderly, WithinSize, [Next]_vars, Restart => Total <= content
  PROVE  WithinSize'
<1> USE DEF Orderly
<1>0. /\ content \in Int /\ Size \in Nat /\ content <= Size
      /\ \A e \in Entry : ent[e] \in EntryRecord /\ Occupied(ent[e]) \in Nat
                          /\ ent[e].size \in Nat /\ ent[e].hdr \in Nat
  BY RangeAssumption, OccupiedType DEF Types, WithinSize, EntryRecord
<1>1. SUFFICES content' <= Size
  BY DEF WithinSize
<1>2. ASSUME NEW e \in Entry, NewResponse(e) PROVE content' <= Size
  BY <1>0, <1>2, NewResponseEffect
<1>3. ASSUME NEW e \in Entry, UpdatedResponse(e) PROVE content' <= Size
  BY <1>0, <1>3, UpdatedEffect DEF HeadersReplaced
<1>4. ASSUME NEW e \in Entry, AddHeaderL(e) PROVE content' <= Size
  BY <1>0, <1>4, AddHeaderEffect DEF HeadersReplaced
<1>5. ASSUME NEW e \in Entry, NEW n \in ChunkLen, ReceivedResponseBodyDataL(e, n) PROVE content' <= Size
  <2>1. content' = content \/ content' = content - ent[e].size
    BY <1>5, BodyDataEffect
  <2>. QED BY <1>0, <2>1
<1>6. ASSUME NEW e \in Entry, ResponseComplete(e) PROVE content' <= Size
  BY <1>0, <1>6, ResponseCompleteEffect
<1>7. ASSUME NEW e \in Entry, FlushFails(e) PROVE content' <= Size
  <2>1. content' = content - ent[e].hdr
    BY <1>7, FlushFailsEffect
  <2>. QED BY <1>0, <2>1
<1>8. ASSUME NEW e \in Entry, WriteStarts(e) \/ WriteEnds(e) PROVE content' <= Size
  BY <1>0, <1>8, WriteEffect
<1>9. ASSUME NEW e \in Entry, RequestL(e) PROVE content' <= Size
  BY <1>0, <1>9, RequestEffect
<1>10. ASSUME NEW e \in Entry, RequestClosed(e) PROVE content' <= Size
  <2>1. content' = content \/ content' = content - Occupied(ent[e])
    BY <1>10, RequestClosedEffect DEF Deletes
  <2>. QED BY <1>0, <2>1
<1>11. ASSUME NEW e \in Entry, RemoveL(e) PROVE content' <= Size
  <2>1. content' = content \/ content' = content - Occupied(ent[e])
    BY <1>11, RemoveEffect DEF Deletes
  <2>. QED BY <1>0, <2>1
<1>12. ASSUME NEW e \in Entry, MergeL(e) PROVE content' <= Size
  BY <1>0, <1>12, MergeEffect
<1>13. ASSUME NEW b \in Buckets, EvictL(b) PROVE content' <= Size
  BY <1>0, <1>13, EvictEffect
<1>14. ASSUME NEW b \in Buckets, EvictLeaves(b) PROVE content' <= Size
  <2>1. PICK bs : Types' /\ Active /\ (Retried(ent, bs) \/ GivenUp(ent, bs))
    BY <1>14, EvictLeavesEffect
  <2>2. content' <= content /\ content' \in Int
    BY <2>1, WithinFail DEF Types
  <2>. QED BY <1>0, <2>2
<1>15. CASE Saved
  <2>1. Active /\ Enough /\ content' = LeftContent + job.n /\ job.n \in Nat
    BY <1>15, SavedEffect
  <2>2. LeftContent \in Int
    BY LeftLemma
  <2>3. CASE job.full
    BY <1>0, <2>1, <2>2, <2>3 DEF Enough
  <2>4. CASE ~job.full
    <3>1. content + job.n <= Size /\ evicted = {}
      BY <2>1, <2>4 DEF Fits
    <3>2. LeftContent = content
      BY <1>0, <3>1, LeftLemma, TotalOfNone
    <3>. QED BY <2>1, <3>1, <3>2
  <2>. QED BY <2>3, <2>4
<1>16. CASE NotSaved
  <2>1. Types' /\ Active /\ (Retried(Left, bucket) \/ GivenUp(Left, bucket))
    BY <1>16, NotSavedEffect
  <2>2. content' <= content /\ content' \in Int
    BY <2>1, WithinFail, LeftLemma DEF Types
  <2>. QED BY <1>0, <2>2
<1>17. CASE BodyNotSaved
  <2>1. content' = LeftContent - ent[job.e].hdr /\ job.e \in Entry
    BY <1>17, BodyNotSavedEffect, ActiveLemma
  <2>. QED BY <1>0, <2>1, LeftLemma
<1>18. CASE SavesFreed
  BY <1>0, <1>18, SavesFreedEffect, LeftLemma
<1>19. CASE Restart
  <2>1. content' = TotalOf(Kept, ent) /\ Total' = TotalOf(Kept, ent) /\ Total' <= Total
    BY <1>19, RestartEffect, TotalRestart
  <2>2. Total \in Nat /\ Total' \in Nat
    BY <1>19, RestartEffect, TotalNow, TotalNext
  <2>. QED BY <1>0, <1>19, <2>1, <2>2
<1>20. CASE Tick
  BY <1>0, <1>20, TickEffect
<1>21. CASE UNCHANGED vars
  BY <1>0, <1>21 DEF vars
<1>. QED BY <1>2, <1>3, <1>4, <1>5, <1>6, <1>7, <1>8, <1>9, <1>10, <1>11, <1>12,
            <1>13, <1>14, <1>15, <1>16, <1>17, <1>18, <1>19, <1>20, <1>21 DEF Next

(* The cache never outgrows its capacity, whatever fails; only a reload of
   entries that another process's index had left out of the count could make
   it. *)
THEOREM WithinSizeTheorem ==
  ASSUME ~(Merges /\ Restarts)
  PROVE  Spec => []WithinSize
<1>1. Init => WithinSize
  BY RangeAssumption DEF Init, WithinSize
<1>2. CASE Merges
  <2>1. Orderly /\ WithinSize /\ [Next]_vars => WithinSize'
    <3>1. ~Restart
      BY <1>2 DEF Restart
    <3>. QED BY <3>1, StepWithin
  <2>. QED BY <1>1, <2>1, OrderlyTheorem, PTL DEF Spec
<1>3. CASE ~Merges
  <2>1. Orderly /\ Total <= content /\ WithinSize /\ [Next]_vars => WithinSize'
    BY StepWithin
  <2>2. Spec => [](Total <= content)
    BY <1>3, BalanceTheorem
  <2>. QED BY <1>1, <2>1, <2>2, OrderlyTheorem, PTL DEF Spec
<1>. QED BY <1>2, <1>3

-----------------------------------------------------------------------------
(* The target of a save                                                     *)

(* EvictL takes complete entries; the one that is saved is responding unless
   headers are added to it. *)
Spared ==
  /\ Active => ent[job.e].st = "responding"
  /\ \A e \in evicted : ent[e].st = "complete"

LEMMA SparedFail ==
  ASSUME Types, Active, Spared, ~AddsHeaders, Types', NEW es \in [Entry -> EntryRecord], NEW bs,
         es[job.e] = ent[job.e], Retried(es, bs) \/ GivenUp(es, bs)
  PROVE  Spared' /\ TargetAlive'
<1>1. CASE Retried(es, bs)
  <2>1. ent'[job'.e].st = "responding" /\ evicted' = {} /\ job'.kind # "freed"
    BY <1>1 DEF Retried, Spared
  <2>. QED BY <2>1 DEF Spared, TargetAlive
<1>2. CASE GivenUp(es, bs)
  BY <1>2, JobEnds DEF GivenUp, Spared, TargetAlive
<1>. QED BY <1>1, <1>2

LEMMA SparedNoSave ==
  ASSUME Types, Types', Idle, UNCHANGED <<job, evicted>>
  PROVE  Spared' /\ TargetAlive'
<1>1. evicted = {} /\ ~Active /\ job.kind = "none"
  BY ActiveLemma DEF Types, JobShape
<1>. QED BY <1>1 DEF Spared, TargetAlive, Active

(* EvictL never deletes the entry whose data CacheNeedsSpaceL makes room for,
   as long as the browser adds no headers to complete entries. *)
THEOREM TargetAliveTheorem ==
  ASSUME ~AddsHeaders
  PROVE  Spec => []TargetAlive
<1>1. Init /\ Types => Spared /\ TargetAlive
  BY NoJobFields DEF Init, Spared, TargetAlive, Active, Saving
<1>2. Types /\ Spared /\ TargetAlive /\ [Next]_vars => (Spared /\ TargetAlive)'
  <2> SUFFICES ASSUME Types, Spared, TargetAlive, [Next]_vars
               PROVE  Spared' /\ TargetAlive'
    OBVIOUS
  <2>1. ASSUME NEW e \in Entry, NewResponse(e) PROVE Spared' /\ TargetAlive'
    <3>1. job'.kind = "new" /\ job'.e = e /\ evicted' = {} /\ ent'[e].st = "responding"
      BY <2>1, NewResponseEffect
    <3>. QED BY <3>1 DEF Spared, TargetAlive
  <2>2. ASSUME NEW e \in Entry, UpdatedResponse(e) PROVE Spared' /\ TargetAlive'
    <3>1. job'.kind \in {"update", "merged"} /\ job'.e = e /\ evicted' = {} /\ ent'[e].st = "responding"
      BY <2>2, UpdatedEffect DEF HeadersReplaced
    <3>. QED BY <3>1 DEF Spared, TargetAlive
  <2>3. ASSUME NEW e \in Entry, AddHeaderL(e) PROVE Spared' /\ TargetAlive'
    BY <2>3, AddHeaderEffect
  <2>4. ASSUME NEW e \in Entry, NEW n \in ChunkLen, ReceivedResponseBodyDataL(e, n)
        PROVE Spared' /\ TargetAlive'
    <3>1. job'.kind = "body" /\ job'.e = e /\ evicted' = {} /\ ent'[e].st = "responding"
      BY <2>4, BodyDataEffect
    <3>. QED BY <3>1 DEF Spared, TargetAlive
  <2>5. ASSUME NEW e \in Entry, ResponseComplete(e) PROVE Spared' /\ TargetAlive'
    BY <2>5, ResponseCompleteEffect, SparedNoSave
  <2>6. ASSUME NEW e \in Entry, FlushFails(e) PROVE Spared' /\ TargetAlive'
    BY <2>6, FlushFailsEffect, SparedNoSave
  <2>7. ASSUME NEW e \in Entry, WriteStarts(e) \/ WriteEnds(e) PROVE Spared' /\ TargetAlive'
    BY <2>7, WriteEffect, SparedNoSave
  <2>8. ASSUME NEW e \in Entry, RequestL(e) PROVE Spared' /\ TargetAlive'
    BY <2>8, RequestEffect, SparedNoSave
  <2>9. ASSUME NEW e \in Entry, RequestClosed(e) PROVE Spared' /\ TargetAlive'
    BY <2>9, RequestClosedEffect, SparedNoSave
  <2>10. ASSUME NEW e \in Entry, RemoveL(e) PROVE Spared' /\ TargetAlive'
    BY <2>10, RemoveEffect, SparedNoSave
  <2>11. ASSUME NEW e \in Entry, MergeL(e) PROVE Spared' /\ TargetAlive'
    BY <2>11, MergeEffect, SparedNoSave
  <2>12. ASSUME NEW b \in Buckets, EvictL(b) PROVE Spared' /\ TargetAlive'
    <3>1. /\ UNCHANGED <<ent, job>> /\ evicted' = evicted \cup {Head(bucket[b])}
          /\ Evictable(Head(bucket[b]))
      BY <2>12, EvictEffect, ChosenLemma
    <3>. QED BY <3>1 DEF Spared, TargetAlive, Active, Evictable
  <2>13. ASSUME NEW b \in Buckets, EvictLeaves(b) PROVE Spared' /\ TargetAlive'
    <3>1. PICK bs : Types' /\ Active /\ (Retried(ent, bs) \/ GivenUp(ent, bs))
      BY <2>13, EvictLeavesEffect
    <3>. QED BY <3>1, SparedFail DEF Types
  <2>14. CASE Saved
    BY <2>14, SavedEffect, JobEnds DEF Spared, TargetAlive
  <2>15. CASE NotSaved
    <3>1. Types' /\ Active /\ job.e \notin evicted /\ (Retried(Left, bucket) \/ GivenUp(Left, bucket))
      BY <2>15, NotSavedEffect
    <3>2. Left \in [Entry -> EntryRecord] /\ Left[job.e] = ent[job.e]
      BY <3>1, LeftLemma, ActiveLemma
    <3>. QED BY <3>1, <3>2, SparedFail
  <2>16. CASE BodyNotSaved
    BY <2>16, BodyNotSavedEffect, JobEnds DEF Spared, TargetAlive
  <2>17. CASE SavesFreed
    BY <2>17, SavesFreedEffect DEF Spared
  <2>18. CASE Restart
    BY <2>18, RestartEffect, SparedNoSave
  <2>19. CASE Tick
    BY <2>19, TickEffect, SparedNoSave
  <2>20. CASE UNCHANGED vars
    BY <2>20 DEF vars, Active, Spared, TargetAlive
  <2>. QED BY <2>1, <2>2, <2>3, <2>4, <2>5, <2>6, <2>7, <2>8, <2>9, <2>10, <2>11, <2>12,
              <2>13, <2>14, <2>15, <2>16, <2>17, <2>18, <2>19, <2>20 DEF Next
<1>. QED BY <1>1, <1>2, TypesTheorem, PTL DEF Spec

-----------------------------------------------------------------------------
(* The buckets                                                              *)

(* The bucket of an entry, or Out when it is in none. *)
Out == 5
Place(r) == IF r.cand THEN Home(r) ELSE Out
Where(es, gone) == [x \in Entry |-> IF x \in gone THEN Out ELSE Place(es[x])]
Places == [Entry -> Buckets \cup {Out}]

(* The buckets bs hold each entry once, where w says. *)
Placed(bs, w) ==
  /\ \A b \in Buckets : NoDup(bs[b])
  /\ \A b \in Buckets : \A x \in Entry : x \in ToSet(bs[b]) <=> w[x] = b

(* Whatever the size and the count are, there is a bucket for them. *)
LEMMA IndexLemma ==
  ASSUME NEW size, NEW ref
  PROVE  IndexOf(size, ref) \in Buckets
<1> DEFINE S == {l \in 0..30 : 2^l < size \div ref}
<1>1. IsFiniteSet(0..30)
  <2>1. PICK lo \in Int, hi \in Int : lo = 0 /\ hi = 30
    OBVIOUS
  <2>2. IsFiniteSet(lo..hi)
    BY FS_Interval
  <2>. QED BY <2>1, <2>2
<1>2. IsFiniteSet(S)
  <2>1. S \in SUBSET (0..30)
    OBVIOUS
  <2> HIDE DEF S
  <2>. QED BY <1>1, <2>1, FS_Subset
<1>3. FastLog2(size \div ref) = Cardinality(S)
  BY DEF FastLog2
<1> HIDE DEF S
<1>4. PICK n \in Nat : n = FastLog2(size \div ref)
  BY <1>2, <1>3, FS_CardinalityType
<1>5. BucketIndex(n) \in Buckets
  BY DEF BucketIndex, Buckets
<1>. QED BY <1>4, <1>5 DEF IndexOf

LEMMA WhereType ==
  ASSUME NEW es, NEW gone
  PROVE  Where(es, gone) \in Places
BY IndexLemma DEF Where, Place, Home, Places

(* One entry is placed anew, all others stay where they are. *)
LEMMA WhereOne ==
  ASSUME NEW es, NEW fs, NEW gone, NEW e \in Entry, e \notin gone,
         \A x \in Entry \ {e} : Place(fs[x]) = Place(es[x])
  PROVE  Where(fs, gone) = [Where(es, gone) EXCEPT ![e] = Place(fs[e])]
BY DEF Where

LEMMA PlacedAppend ==
  ASSUME NEW bs \in BucketsType, NEW w \in Places, Placed(bs, w),
         NEW e \in Entry, w[e] = Out, NEW b \in Buckets
  PROVE  Placed([bs EXCEPT ![b] = Append(@, e)], [w EXCEPT ![e] = b])
<1>1. PICK cs : cs = [bs EXCEPT ![b] = Append(@, e)]
  OBVIOUS
<1>2. PICK v : v = [w EXCEPT ![e] = b]
  OBVIOUS
<1>3. v[e] = b /\ \A x \in Entry \ {e} : v[x] = w[x]
  BY <1>2 DEF Places
<1>4. bs[b] \in Seq(Entry) /\ NoDup(bs[b]) /\ e \notin ToSet(bs[b])
  BY DEF Placed, BucketsType, Out, Buckets
<1>5. NoDup(cs[b]) /\ \A x : x \in ToSet(cs[b]) <=> x \in ToSet(bs[b]) \/ x = e
  <2>1. cs[b] = Append(bs[b], e)
    BY <1>1 DEF BucketsType
  <2>. QED BY <1>4, <2>1, AppendLemma
<1>6. \A c \in Buckets \ {b} : cs[c] = bs[c]
  BY <1>1 DEF BucketsType
<1>7. ASSUME NEW c \in Buckets PROVE NoDup(cs[c]) /\ \A x \in Entry : x \in ToSet(cs[c]) <=> v[x] = c
  <2>1. CASE c = b
    BY <1>3, <1>5, <2>1 DEF Placed
  <2>2. CASE c # b
    <3>1. cs[c] = bs[c]
      BY <1>6, <2>2
    <3>2. e \notin ToSet(bs[c])
      BY DEF Placed, Out, Buckets
    <3>. QED BY <1>3, <2>2, <3>1, <3>2 DEF Placed
  <2>. QED BY <2>1, <2>2
<1>. QED BY <1>1, <1>2, <1>7 DEF Placed

(* What is taken out of the bucket it is in, is in none. *)
LEMMA PlacedTaken ==
  ASSUME NEW bs \in BucketsType, NEW w \in Places, Placed(bs, w),
         NEW e \in Entry, NEW b \in Buckets, w[e] \in {b, Out},
         NEW q, NoDup(q), \A x : x \in ToSet(q) <=> x \in ToSet(bs[b]) /\ x # e
  PROVE  Placed([bs EXCEPT ![b] = q], [w EXCEPT ![e] = Out])
<1>1. PICK cs : cs = [bs EXCEPT ![b] = q]
  OBVIOUS
<1>2. PICK v : v = [w EXCEPT ![e] = Out]
  OBVIOUS
<1>3. v[e] = Out /\ \A x \in Entry \ {e} : v[x] = w[x]
  BY <1>2 DEF Places
<1>4. cs[b] = q /\ \A c \in Buckets \ {b} : cs[c] = bs[c]
  BY <1>1 DEF BucketsType
<1>5. Out \notin Buckets
  BY DEF Out, Buckets
<1>6. ASSUME NEW c \in Buckets PROVE NoDup(cs[c]) /\ \A x \in Entry : x \in ToSet(cs[c]) <=> v[x] = c
  <2>1. CASE c = b
    BY <1>3, <1>4, <1>5, <2>1 DEF Placed
  <2>2. CASE c # b
    <3>1. cs[c] = bs[c]
      BY <1>4, <2>2
    <3>2. e \notin ToSet(bs[c])
      BY <1>5, <2>2 DEF Placed
    <3>. QED BY <1>3, <1>5, <2>2, <3>1, <3>2 DEF Placed
  <2>. QED BY <2>1, <2>2
<1>. QED BY <1>1, <1>2, <1>6 DEF Placed

LEMMA PlacedRemove ==
  ASSUME NEW bs \in BucketsType, NEW w \in Places, Placed(bs, w),
         NEW e \in Entry, NEW b \in Buckets, w[e] \in {b, Out}
  PROVE  Placed([bs EXCEPT ![b] = RemoveFirst(@, e)], [w EXCEPT ![e] = Out])
<1>1. PICK q : q = RemoveFirst(bs[b], e)
  OBVIOUS
<1>2. bs[b] \in Seq(Entry) /\ NoDup(bs[b])
  BY DEF Placed, BucketsType
<1>3. NoDup(q) /\ \A x : x \in ToSet(q) <=> x \in ToSet(bs[b]) /\ x # e
  BY <1>1, <1>2, RemoveFirstLemma
<1>4. [bs EXCEPT ![b] = q] = [bs EXCEPT ![b] = RemoveFirst(@, e)]
  BY <1>1
<1>. QED BY <1>3, <1>4, PlacedTaken

LEMMA PlacedTail ==
  ASSUME NEW bs \in BucketsType, NEW w \in Places, Placed(bs, w),
         NEW b \in Buckets, bs[b] # <<>>
  PROVE  /\ Head(bs[b]) \in Entry /\ w[Head(bs[b])] = b
         /\ Placed([bs EXCEPT ![b] = Tail(@)], [w EXCEPT ![Head(bs[b])] = Out])
<1>1. PICK q : q = Tail(bs[b])
  OBVIOUS
<1>2. bs[b] \in Seq(Entry) /\ NoDup(bs[b])
  BY DEF Placed, BucketsType
<1>3. /\ NoDup(q) /\ Head(bs[b]) \in Entry /\ Head(bs[b]) \in ToSet(bs[b])
      /\ \A x : x \in ToSet(q) <=> x \in ToSet(bs[b]) /\ x # Head(bs[b])
  BY <1>1, <1>2, TailLemma
<1>4. w[Head(bs[b])] = b
  BY <1>3 DEF Placed
<1>5. [bs EXCEPT ![b] = q] = [bs EXCEPT ![b] = Tail(@)]
  BY <1>1
<1>6. Placed([bs EXCEPT ![b] = q], [w EXCEPT ![Head(bs[b])] = Out])
  BY <1>3, <1>4, PlacedTaken
<1>. QED BY <1>3, <1>4, <1>5, <1>6

(* The entry is where its fields say. *)
LEMMA PlacedHelpers ==
  ASSUME NEW bs \in BucketsType, NEW w \in Places, Placed(bs, w),
         NEW e \in Entry, NEW r, w[e] = Place(r)
  PROVE  /\ Placed(SetComplete(bs, e, r), [w EXCEPT ![e] = Home(r)])
         /\ Placed(Destroyed(bs, e, r), [w EXCEPT ![e] = Out])
         /\ r.size > 0 => Placed(EmptiedBuckets(bs, e, r), [w EXCEPT ![e] = Out])
<1>1. Home(r) \in Buckets
  BY IndexLemma DEF Home
<1>2. [w EXCEPT ![e] = w[e]] = w
  BY DEF Places
<1>3. CASE r.cand
  <2>1. w[e] = Home(r)
    BY <1>3 DEF Place
  <2>2. Placed(RemoveFrom(bs, e, r), [w EXCEPT ![e] = Out])
    BY <1>1, <2>1, PlacedRemove DEF RemoveFrom
  <2>. QED BY <1>2, <1>3, <2>1, <2>2 DEF SetComplete, Destroyed, EmptiedBuckets
<1>4. CASE ~r.cand
  <2>1. w[e] = Out
    BY <1>4 DEF Place
  <2>2. Placed(Insert(bs, e, r), [w EXCEPT ![e] = Home(r)])
    BY <1>1, <2>1, PlacedAppend DEF Insert
  <2>. QED BY <1>2, <1>4, <2>1, <2>2 DEF SetComplete, Destroyed, EmptiedBuckets
<1>. QED BY <1>3, <1>4

(* An access finds the entry in the bucket of the count before. *)
LEMMA PlacedMoved ==
  ASSUME NEW bs \in BucketsType, NEW w \in Places, Placed(bs, w),
         NEW e \in Entry, NEW r, r.ref > 1, w[e] = IndexOf(r.size, r.ref - 1)
  PROVE  Placed(Moved(bs, e, r), [w EXCEPT ![e] = Home(r)])
<1>1. PICK b \in Buckets : b = IndexOf(r.size, r.ref - 1)
  BY IndexLemma
<1>2. PICK cs : cs = [bs EXCEPT ![b] = RemoveFirst(@, e)]
  OBVIOUS
<1>3. PICK v : v = [w EXCEPT ![e] = Out]
  OBVIOUS
<1>4. Placed(cs, v)
  BY <1>1, <1>2, <1>3, PlacedRemove
<1>5. cs \in BucketsType /\ v \in Places /\ v[e] = Out
  BY <1>2, <1>3, RemoveFirstType DEF BucketsType, Places
<1>6. Home(r) \in Buckets
  BY IndexLemma DEF Home
<1>7. Placed(Insert(cs, e, r), [v EXCEPT ![e] = Home(r)])
  BY <1>4, <1>5, <1>6, PlacedAppend DEF Insert
<1>8. [v EXCEPT ![e] = Home(r)] = [w EXCEPT ![e] = Home(r)]
  BY <1>3 DEF Places
<1>9. e \in ToSet(bs[b])
  BY <1>1 DEF Placed
<1>10. Moved(bs, e, r) = Insert(cs, e, r)
  BY <1>1, <1>2, <1>9 DEF Moved, In
<1>. QED BY <1>7, <1>8, <1>10

(* The entries are linked where their fields say. *)
Lists == Placed(bucket, Where(ent, evicted))

(* The reference count of an entry never gets to 0. *)
Counts == \A e \in Entry : ent[e].st # "free" => ent[e].ref \in 1..RefModulus - 1

(* Which entries are candidates.  One that is updated stays one, as its old
   body is still there: it has to go before new body data comes, or will be
   kept when the save of the new headers ends. *)
Updates == {"update", "merged", "original"}
Candidates ==
  \A e \in Entry : ent[e].cand =>
    /\ ent[e].st # "free"
    /\ ent[e].st = "responding" =>
         ent[e].size > 0 /\ (ent[e].del \/ (job.e = e /\ job.kind \in Updates))
NoGrowth == job.kind = "body" => ~ent[job.e].cand

Chained == Lists /\ Counts /\ Candidates /\ NoGrowth

(* The parts of the invariant that are about the fields: when one entry
   changes, the others keep what they have. *)
LEMMA FieldsOne ==
  ASSUME Counts, Candidates, NEW e \in Entry,
         \A x \in Entry \ {e} : ent'[x] = ent[x] \/ ent'[x] = NoEntry,
         \A x \in Entry \ {e} : job.e = x /\ job.kind \in Updates
                                  => (job'.e = x /\ job'.kind \in Updates) \/ ent'[x] = NoEntry,
         ent'[e].st # "free" => ent'[e].ref \in 1..RefModulus - 1,
         ent'[e].cand =>
           /\ ent'[e].st # "free"
           /\ ent'[e].st = "responding" =>
                ent'[e].size > 0 /\ (ent'[e].del \/ (job'.e = e /\ job'.kind \in Updates))
  PROVE  Counts' /\ Candidates'
<1>1. NoEntry.st = "free" /\ NoEntry.cand = FALSE
  BY NoEntryFields
<1>2. Counts'
  BY <1>1 DEF Counts
<1>3. ASSUME NEW x \in Entry, ent'[x].cand
      PROVE  /\ ent'[x].st # "free"
             /\ ent'[x].st = "responding" =>
                  ent'[x].size > 0 /\ (ent'[x].del \/ (job'.e = x /\ job'.kind \in Updates))
  <2>1. CASE x = e
    BY <1>3, <2>1
  <2>2. CASE x # e
    <3>1. ent'[x] = ent[x]
      BY <1>1, <1>3, <2>2
    <3>. QED BY <1>1, <1>3, <2>2, <3>1 DEF Candidates
  <2>. QED BY <2>1, <2>2
<1>. QED BY <1>2, <1>3 DEF Candidates

(* The same when nothing is saved: the entry in question is the only one. *)
LEMMA FieldsIdle ==
  ASSUME Types, Counts, Candidates, Idle, NEW e \in Entry,
         \A x \in Entry \ {e} : ent'[x] = ent[x],
         ent'[e].st # "free" => ent'[e].ref \in 1..RefModulus - 1,
         ent'[e].cand =>
           /\ ent'[e].st # "free"
           /\ ent'[e].st = "responding" =>
                ent'[e].size > 0 /\ (ent'[e].del \/ (job'.e = e /\ job'.kind \in Updates))
  PROVE  Counts' /\ Candidates'
<1>1. job.kind \notin Updates
  BY ActiveLemma DEF Updates
<1>. QED BY <1>1, FieldsOne

(* When no save runs, no entry is about to be deleted. *)
LEMMA IdleNoneGone ==
  ASSUME Types, Idle
  PROVE  evicted = {} /\ job.kind = "none"
BY ActiveLemma DEF Types, JobShape

(* An entry that is not being evicted is placed by its fields. *)
LEMMA PlaceNow ==
  ASSUME NEW es, NEW gone, NEW e \in Entry, e \notin gone
  PROVE  Where(es, gone)[e] = Place(es[e])
BY DEF Where

(* Two entries with the same size, count and mark have the same place. *)
LEMMA SamePlace ==
  ASSUME NEW r, NEW s, r.size = s.size, r.ref = s.ref, r.cand = s.cand
  PROVE  Place(r) = Place(s) /\ Home(r) = Home(s)
BY DEF Place, Home

(* An entry that keeps its size, count and mark keeps its place. *)
LEMMA ListsSame ==
  ASSUME Lists, bucket' = bucket, evicted' = evicted, NEW e \in Entry,
         ent'[e].size = ent[e].size, ent'[e].ref = ent[e].ref, ent'[e].cand = ent[e].cand,
         \A x \in Entry \ {e} : ent'[x] = ent[x]
  PROVE  Lists'
<1>1. Place(ent'[e]) = Place(ent[e])
  BY SamePlace
<1>2. Where(ent', evicted') = Where(ent, evicted)
  BY <1>1 DEF Where
<1>. QED BY <1>2 DEF Lists

(* An entry is completed. *)
LEMMA ListsComplete ==
  ASSUME Types, Lists, NEW e \in Entry, evicted = {}, evicted' = {},
         bucket' = SetComplete(bucket, e, ent[e]),
         ent'[e].size = ent[e].size, ent'[e].ref = ent[e].ref, ent'[e].cand = TRUE,
         \A x \in Entry \ {e} : ent'[x] = ent[x]
  PROVE  Lists'
<1>1. PICK w \in Places : w = Where(ent, {})
  BY WhereType
<1>2. bucket \in BucketsType /\ Placed(bucket, w) /\ w[e] = Place(ent[e])
  BY <1>1, PlaceNow DEF Lists, Types
<1>3. Placed(SetComplete(bucket, e, ent[e]), [w EXCEPT ![e] = Home(ent[e])])
  BY <1>2, PlacedHelpers
<1>4. Place(ent'[e]) = Home(ent[e])
  BY DEF Place, Home
<1>5. Where(ent', {}) = [w EXCEPT ![e] = Home(ent[e])]
  BY <1>1, <1>4, WhereOne
<1>. QED BY <1>3, <1>5 DEF Lists

(* An entry is deleted. *)
LEMMA ListsDestroyed ==
  ASSUME Types, Lists, NEW e \in Entry, evicted = {}, evicted' = {},
         bucket' = Destroyed(bucket, e, ent[e]), ent'[e].cand = FALSE,
         \A x \in Entry \ {e} : ent'[x] = ent[x]
  PROVE  Lists'
<1>1. PICK w \in Places : w = Where(ent, {})
  BY WhereType
<1>2. bucket \in BucketsType /\ Placed(bucket, w) /\ w[e] = Place(ent[e])
  BY <1>1, PlaceNow DEF Lists, Types
<1>3. Placed(Destroyed(bucket, e, ent[e]), [w EXCEPT ![e] = Out])
  BY <1>2, PlacedHelpers
<1>4. Place(ent'[e]) = Out
  BY DEF Place
<1>5. Where(ent', {}) = [w EXCEPT ![e] = Out]
  BY <1>1, <1>4, WhereOne
<1>. QED BY <1>3, <1>5 DEF Lists

(* The body is taken out first, then the entry. *)
LEMMA EmptiedDestroyed ==
  ASSUME NEW bs, NEW e, NEW r \in EntryRecord
  PROVE  Destroyed(EmptiedBuckets(bs, e, r), e, Emptied(r)) = Destroyed(bs, e, r)
<1>1. CASE r.size > 0
  <2>1. Emptied(r).cand = FALSE
    BY <1>1, EmptiedFields
  <2>. QED BY <1>1, <2>1 DEF Destroyed, EmptiedBuckets
<1>2. CASE ~(r.size > 0)
  BY <1>2 DEF Destroyed, EmptiedBuckets, Emptied
<1>. QED BY <1>1, <1>2

(* The candidates EvictL chose are gone when it has returned. *)
LEMMA WhereLeft ==
  ASSUME Types
  PROVE  Where(Left, {}) = Where(ent, evicted)
<1>1. Place(NoEntry) = Out
  BY NoEntryFields DEF Place
<1>2. \A x \in Entry : Left[x] = IF x \in evicted THEN NoEntry ELSE ent[x]
  BY LeftLemma
<1>. QED BY <1>1, <1>2 DEF Where

(* How a save fails. *)
LEMMA ChainedFail ==
  ASSUME Types, Chained, Active, job.e \notin evicted,
         Retried(Left, bucket) \/ GivenUp(Left, bucket)
  PROVE  Chained'
<1> USE DEF Chained
<1>1. job.e \in Entry /\ Left[job.e] = ent[job.e] /\ \A x \in Entry : Left[x] = ent[x] \/ Left[x] = NoEntry
  BY ActiveLemma, LeftLemma
<1>2. PICK w \in Places : w = Where(Left, {})
  BY WhereType
<1>3. Placed(bucket, w) /\ bucket \in BucketsType /\ w[job.e] = Place(ent[job.e])
  BY <1>1, <1>2, WhereLeft, PlaceNow DEF Lists, Types
<1>4. CASE Retried(Left, bucket)
  <2>1. /\ job.kind \in {"merged", "add"} /\ job'.kind = IF job.kind = "add" THEN "restore" ELSE "original"
        /\ job'.e = job.e /\ ent' = Left /\ bucket' = bucket /\ evicted' = {}
    BY <1>4 DEF Retried
  <2>2. Lists'
    BY <1>2, <1>3, <2>1 DEF Lists
  <2>3. job.kind \in Updates => job'.kind \in Updates
    BY <2>1 DEF Updates
  <2>4. NoGrowth'
    BY <2>1 DEF NoGrowth
  <2>5. ent'[job.e] = ent[job.e] /\ \A x \in Entry \ {job.e} : ent'[x] = ent[x] \/ ent'[x] = NoEntry
    BY <1>1, <2>1
  <2>6. Counts' /\ Candidates'
    BY <1>1, <2>1, <2>3, <2>5, FieldsOne DEF Counts, Candidates
  <2>. QED BY <2>2, <2>4, <2>6
<1>5. CASE GivenUp(Left, bucket)
  <2>1. /\ job' = NoJob /\ evicted' = {}
        /\ ent'[job.e] = NoEntry /\ \A x \in Entry \ {job.e} : ent'[x] = Left[x]
        /\ bucket' = Destroyed(bucket, job.e, ent[job.e])
    BY <1>1, <1>5 DEF GivenUp
  <2>2. Placed(bucket', [w EXCEPT ![job.e] = Out])
    BY <1>1, <1>3, <2>1, PlacedHelpers
  <2>3. Place(ent'[job.e]) = Out
    BY <2>1, NoEntryFields DEF Place
  <2>4. Where(ent', {}) = [w EXCEPT ![job.e] = Out]
    <3>1. \A x \in Entry \ {job.e} : Place(ent'[x]) = Place(Left[x])
      BY <2>1
    <3>2. Where(ent', {}) = [Where(Left, {}) EXCEPT ![job.e] = Place(ent'[job.e])]
      BY <1>1, <3>1 DEF Where
    <3>. QED BY <1>2, <2>3, <3>2, Zenon
  <2>5. Lists'
    BY <2>1, <2>2, <2>4 DEF Lists
  <2>6. NoGrowth'
    BY <2>1, NoJobFields DEF NoGrowth
  <2>7. \A x \in Entry \ {job.e} : ent'[x] = ent[x] \/ ent'[x] = NoEntry
    BY <1>1, <2>1
  <2>8. Counts' /\ Candidates'
    BY <1>1, <2>1, <2>7, NoEntryFields, FieldsOne
  <2>. QED BY <2>5, <2>6, <2>8
<1>. QED BY <1>4, <1>5

LEMMA ChainedStep ==
  ASSUME ~Merges, ~MemErrors, MaxRef < RefModulus, Orderly, Chained, [Next]_vars
  PROVE  Chained'
<1> USE DEF Orderly, Chained
<1>0. /\ RefModulus \in Nat \ {0, 1} /\ MaxRef \in Nat /\ ProtectedRef \in 1..RefModulus - 1
      /\ \A e \in Entry : ent[e].size \in Nat /\ ent[e].ref \in Nat /\ ent[e] \in EntryRecord
  BY RangeAssumption DEF Types, EntryRecord
<1>1. ASSUME NEW e \in Entry, NewResponse(e) PROVE Chained'
  <2>1. /\ Idle /\ bucket' = bucket /\ evicted' = {} /\ job'.kind = "new"
        /\ ent'[e].ref \in {1, ProtectedRef} /\ ent'[e].cand = FALSE
        /\ \A x \in Entry \ {e} : ent'[x] = ent[x]
        /\ ent[e].st = "free"
    BY <1>1, NewResponseEffect
  <2>2. evicted = {} /\ ent[e].cand = FALSE
    BY <1>0, <2>1, IdleNoneGone DEF Candidates, EntryRecord
  <2>3. Place(ent[e]) = Out /\ Place(ent'[e]) = Out
    BY <2>1, <2>2 DEF Place
  <2>4. Lists'
    BY <2>1, <2>2, <2>3 DEF Lists, Where
  <2>5. Counts' /\ Candidates'
    BY <1>0, <2>1, FieldsIdle
  <2>. QED BY <2>1, <2>4, <2>5 DEF NoGrowth
<1>2. ASSUME NEW e \in Entry, UpdatedResponse(e) PROVE Chained'
  <2>1. /\ Idle /\ bucket' = bucket /\ evicted' = {} /\ job'.kind \in {"update", "merged"} /\ job'.e = e
        /\ ent'[e].ref = ent[e].ref /\ ent'[e].cand = ent[e].cand /\ ent'[e].size = ent[e].size
        /\ \A x \in Entry \ {e} : ent'[x] = ent[x]
        /\ ent[e].st = "complete" /\ ent[e].size # 0 /\ ent'[e].st = "responding"
    BY <1>2, UpdatedEffect DEF HeadersReplaced
  <2>2. evicted = {} /\ job'.kind \in Updates /\ ent'[e].size > 0
    BY <1>0, <2>1, IdleNoneGone DEF Updates
  <2>3. Lists'
    BY <2>1, <2>2, ListsSame
  <2>4. Counts' /\ Candidates'
    BY <2>1, <2>2, FieldsIdle DEF Counts
  <2>. QED BY <2>1, <2>3, <2>4 DEF NoGrowth
<1>3. ASSUME NEW e \in Entry, AddHeaderL(e) PROVE Chained'
  <2>1. /\ Idle /\ bucket' = bucket /\ evicted' = {} /\ job'.kind = "add"
        /\ ent'[e].ref = ent[e].ref /\ ent'[e].cand = ent[e].cand /\ ent'[e].size = ent[e].size
        /\ ent'[e].del = ent[e].del /\ ent'[e].st = ent[e].st
        /\ \A x \in Entry \ {e} : ent'[x] = ent[x]
    BY <1>3, AddHeaderEffect DEF HeadersReplaced
  <2>2. evicted = {} /\ job.kind \notin Updates
    BY <2>1, IdleNoneGone DEF Updates
  <2>3. Lists'
    BY <2>1, <2>2, ListsSame
  <2>4. Counts' /\ Candidates'
    BY <2>1, <2>2, FieldsIdle DEF Counts, Candidates
  <2>. QED BY <2>1, <2>3, <2>4 DEF NoGrowth
<1>4. ASSUME NEW e \in Entry, NEW n \in ChunkLen, ReceivedResponseBodyDataL(e, n) PROVE Chained'
  <2>1. /\ Idle /\ evicted' = {} /\ job'.kind = "body" /\ job'.e = e
        /\ bucket' = IF ent[e].del THEN EmptiedBuckets(bucket, e, ent[e]) ELSE bucket
        /\ ent[e].st = "responding" /\ ent'[e].st = "responding" /\ ent'[e].ref = ent[e].ref
        /\ ent'[e].cand = IF ent[e].del /\ ent[e].size > 0 THEN FALSE ELSE ent[e].cand
        /\ ent'[e].size = IF ent[e].del THEN 0 ELSE ent[e].size
        /\ \A x \in Entry \ {e} : ent'[x] = ent[x]
    BY <1>4, BodyDataEffect
  <2>2. evicted = {} /\ job.kind \notin Updates
    BY <2>1, IdleNoneGone DEF Updates
  <2>3. ent[e].cand => ent[e].size > 0 /\ ent[e].del
    BY <2>1, <2>2 DEF Candidates
  <2>4. ~ent'[e].cand
    BY <2>1, <2>3
  <2>5. Counts' /\ Candidates'
    BY <2>1, <2>4, FieldsIdle DEF Counts
  <2>6. Lists'
    <3>1. Place(ent'[e]) = Out
      BY <2>4 DEF Place
    <3>2. CASE ent[e].cand
      <4>1. bucket' = Destroyed(bucket, e, ent[e])
        BY <2>1, <2>3, <3>2 DEF EmptiedBuckets, Destroyed
      <4>2. ent'[e].cand = FALSE
        BY <2>1, <2>3, <3>2
      <4>. QED BY <2>1, <2>2, <4>1, <4>2, ListsDestroyed
    <3>3. CASE ~ent[e].cand
      <4>1. bucket' = bucket
        BY <2>1, <3>3 DEF EmptiedBuckets
      <4>2. Place(ent[e]) = Out
        BY <3>3 DEF Place
      <4>3. Where(ent', {}) = Where(ent, {})
        BY <2>1, <3>1, <4>2 DEF Where
      <4>. QED BY <2>1, <2>2, <4>1, <4>3 DEF Lists
    <3>. QED BY <3>2, <3>3
  <2>. QED BY <2>1, <2>4, <2>5, <2>6 DEF NoGrowth
<1>5. ASSUME NEW e \in Entry, ResponseComplete(e) PROVE Chained'
  <2>1. /\ Idle /\ evicted' = evicted /\ job' = job /\ bucket' = SetComplete(bucket, e, ent[e])
        /\ ent[e].st = "responding" /\ ent'[e].st = "complete" /\ ent'[e].cand = TRUE
        /\ ent'[e].size = ent[e].size /\ ent'[e].ref = ent[e].ref
        /\ \A x \in Entry \ {e} : ent'[x] = ent[x]
    BY <1>5, ResponseCompleteEffect
  <2>2. evicted = {} /\ job.kind = "none"
    BY <2>1, IdleNoneGone
  <2>3. Lists'
    BY <2>1, <2>2, ListsComplete
  <2>4. Counts' /\ Candidates'
    BY <2>1, FieldsIdle DEF Counts
  <2>. QED BY <2>1, <2>2, <2>3, <2>4 DEF NoGrowth
<1>6. ASSUME NEW e \in Entry, FlushFails(e) PROVE Chained'
  <2>1. /\ Idle /\ evicted' = evicted /\ job' = job
        /\ bucket' = Destroyed(EmptiedBuckets(bucket, e, ent[e]), e, Emptied(ent[e]))
        /\ ent'[e] = NoEntry /\ \A x \in Entry \ {e} : ent'[x] = ent[x]
    BY <1>6, FlushFailsEffect
  <2>2. evicted = {} /\ job.kind = "none"
    BY <2>1, IdleNoneGone
  <2>3. bucket' = Destroyed(bucket, e, ent[e])
    BY <1>0, <2>1, EmptiedDestroyed
  <2>4. Lists'
    BY <2>1, <2>2, <2>3, NoEntryFields, ListsDestroyed
  <2>5. Counts' /\ Candidates'
    BY <2>1, NoEntryFields, FieldsIdle
  <2>. QED BY <2>1, <2>2, <2>4, <2>5 DEF NoGrowth
<1>7. ASSUME NEW e \in Entry, WriteStarts(e) \/ WriteEnds(e) PROVE Chained'
  <2>1. /\ Idle /\ evicted' = evicted /\ job' = job /\ bucket' = bucket
        /\ ent'[e].st = ent[e].st /\ ent'[e].size = ent[e].size /\ ent'[e].ref = ent[e].ref
        /\ ent'[e].cand = ent[e].cand /\ ent'[e].del = ent[e].del
        /\ \A x \in Entry \ {e} : ent'[x] = ent[x]
    BY <1>7, WriteEffect DEF SameSpace
  <2>2. evicted = {} /\ job.kind = "none"
    BY <2>1, IdleNoneGone
  <2>3. Lists'
    BY <2>1, ListsSame
  <2>4. Counts' /\ Candidates'
    BY <2>1, FieldsIdle DEF Counts, Candidates
  <2>. QED BY <2>1, <2>2, <2>3, <2>4 DEF NoGrowth
<1>8. ASSUME NEW e \in Entry, RequestL(e) PROVE Chained'
  <2>1. /\ Idle /\ evicted' = evicted /\ job' = job
        /\ ent[e].st = "complete" /\ ent'[e].st = "requesting" /\ ent[e].ref < MaxRef
        /\ bucket' = IF ent[e].cand THEN Moved(bucket, e, ent'[e]) ELSE bucket
        /\ ent'[e].ref = (ent[e].ref + 1) % RefModulus /\ ent'[e].size = ent[e].size
        /\ ent'[e].cand = ent[e].cand
        /\ \A x \in Entry \ {e} : ent'[x] = ent[x]
    BY <1>8, RequestEffect
  <2>2. evicted = {} /\ job.kind = "none"
    BY <2>1, IdleNoneGone
  <2>3. ent'[e].ref = ent[e].ref + 1 /\ ent[e].ref \in 1..RefModulus - 1
    BY <1>0, <2>1 DEF Counts
  <2>4. ent'[e].ref \in 1..RefModulus - 1 /\ ent'[e].ref > 1 /\ ent'[e].ref - 1 = ent[e].ref
    BY <1>0, <2>1, <2>3
  <2>5. Counts' /\ Candidates'
    BY <2>1, <2>4, FieldsIdle
  <2>6. PICK w \in Places : w = Where(ent, {})
    BY WhereType
  <2>7. bucket \in BucketsType /\ Placed(bucket, w) /\ w[e] = Place(ent[e])
    BY <2>2, <2>6, PlaceNow DEF Lists, Types
  <2>8. CASE ent[e].cand
    <3>1. w[e] = IndexOf(ent'[e].size, ent'[e].ref - 1)
      BY <2>1, <2>4, <2>7, <2>8 DEF Place, Home
    <3>2. Placed(bucket', [w EXCEPT ![e] = Home(ent'[e])])
      BY <2>1, <2>4, <2>7, <2>8, <3>1, PlacedMoved
    <3>3. Where(ent', {}) = [w EXCEPT ![e] = Home(ent'[e])]
      <4>1. Place(ent'[e]) = Home(ent'[e])
        BY <2>1, <2>8 DEF Place
      <4>2. Where(ent', {}) = [Where(ent, {}) EXCEPT ![e] = Place(ent'[e])]
        BY <2>1 DEF Where
      <4>. QED BY <2>6, <4>1, <4>2, Zenon
    <3>. QED BY <2>1, <2>2, <2>5, <3>2, <3>3 DEF Lists, NoGrowth
  <2>9. CASE ~ent[e].cand
    <3>1. Place(ent'[e]) = Out /\ Place(ent[e]) = Out
      BY <2>1, <2>9 DEF Place
    <3>2. Where(ent', {}) = Where(ent, {})
      BY <2>1, <3>1 DEF Where
    <3>3. Lists'
      BY <2>1, <2>2, <2>9, <3>2 DEF Lists
    <3>. QED BY <2>1, <2>2, <2>5, <3>3 DEF NoGrowth
  <2>. QED BY <2>8, <2>9
<1>9. ASSUME NEW e \in Entry, RequestClosed(e) PROVE Chained'
  <2>1. Idle /\ evicted' = evicted /\ job' = job
    BY <1>9, RequestClosedEffect
  <2>2. evicted = {} /\ job.kind = "none"
    BY <2>1, IdleNoneGone
  <2>3. CASE Deletes(e)
    <3>1. /\ ent'[e] = NoEntry /\ \A x \in Entry \ {e} : ent'[x] = ent[x]
          /\ bucket' = Destroyed(bucket, e, ent[e])
      BY <2>3 DEF Deletes
    <3>2. Lists'
      BY <2>1, <2>2, <3>1, NoEntryFields, ListsDestroyed
    <3>3. Counts' /\ Candidates'
      BY <2>1, <3>1, NoEntryFields, FieldsIdle
    <3>. QED BY <2>1, <2>2, <3>2, <3>3 DEF NoGrowth
  <2>4. CASE ~Deletes(e)
    <3>1. /\ bucket' = SetComplete(bucket, e, ent[e])
          /\ ent[e].st = "requesting" /\ ent'[e].st = "complete" /\ ent'[e].cand = TRUE
          /\ ent'[e].size = ent[e].size /\ ent'[e].ref = ent[e].ref
          /\ \A x \in Entry \ {e} : ent'[x] = ent[x]
      BY <1>9, <2>4, RequestClosedEffect
    <3>2. Lists'
      BY <2>1, <2>2, <3>1, ListsComplete
    <3>3. Counts' /\ Candidates'
      BY <2>1, <3>1, FieldsIdle DEF Counts
    <3>. QED BY <2>1, <2>2, <3>2, <3>3 DEF NoGrowth
  <2>. QED BY <2>3, <2>4
<1>10. ASSUME NEW e \in Entry, RemoveL(e) PROVE Chained'
  <2>1. Idle /\ evicted' = evicted /\ job' = job
    BY <1>10, RemoveEffect
  <2>2. evicted = {} /\ job.kind = "none"
    BY <2>1, IdleNoneGone
  <2>3. CASE Deletes(e)
    <3>1. /\ ent'[e] = NoEntry /\ \A x \in Entry \ {e} : ent'[x] = ent[x]
          /\ bucket' = Destroyed(bucket, e, ent[e])
      BY <2>3 DEF Deletes
    <3>2. Lists'
      BY <2>1, <2>2, <3>1, NoEntryFields, ListsDestroyed
    <3>3. Counts' /\ Candidates'
      BY <2>1, <3>1, NoEntryFields, FieldsIdle
    <3>. QED BY <2>1, <2>2, <3>2, <3>3 DEF NoGrowth
  <2>4. CASE ~Deletes(e)
    <3>1. /\ bucket' = bucket /\ ent[e].st # "free" /\ ent'[e].st = "destroyed"
          /\ ent'[e].size = ent[e].size /\ ent'[e].ref = ent[e].ref /\ ent'[e].cand = ent[e].cand
          /\ \A x \in Entry \ {e} : ent'[x] = ent[x]
      BY <1>10, <2>4, RemoveEffect DEF SameSpace
    <3>2. Lists'
      BY <2>1, <3>1, ListsSame
    <3>3. Counts' /\ Candidates'
      BY <2>1, <3>1, FieldsIdle DEF Counts
    <3>. QED BY <2>1, <2>2, <3>2, <3>3 DEF NoGrowth
  <2>. QED BY <2>3, <2>4
<1>11. ASSUME NEW e \in Entry, MergeL(e) PROVE Chained'
  BY <1>11, MergeEffect
<1>12. ASSUME NEW b \in Buckets, EvictL(b) PROVE Chained'
  <2>1. /\ b \in Chosen /\ UNCHANGED <<ent, job>>
        /\ bucket' = [bucket EXCEPT ![b] = Tail(@)]
        /\ evicted' = evicted \cup {Head(bucket[b])}
    BY <1>12, EvictEffect
  <2>2. PICK w \in Places : w = Where(ent, evicted)
    BY WhereType
  <2>3. bucket \in BucketsType /\ Placed(bucket, w) /\ bucket[b] # <<>>
    BY <2>1, <2>2, ChosenLemma DEF Lists, Types
  <2>4. Placed(bucket', [w EXCEPT ![Head(bucket[b])] = Out])
    BY <2>1, <2>3, PlacedTail
  <2>5. Where(ent', evicted') = [w EXCEPT ![Head(bucket[b])] = Out]
    BY <2>1, <2>2 DEF Where
  <2>6. Lists'
    BY <2>4, <2>5 DEF Lists
  <2>7. Counts' /\ Candidates' /\ NoGrowth'
    BY <2>1 DEF Counts, Candidates, NoGrowth
  <2>. QED BY <2>6, <2>7
<1>13. ASSUME NEW b \in Buckets, EvictLeaves(b) PROVE Chained'
  BY <1>13, EvictLeavesEffect
<1>14. CASE Saved
  <2>1. /\ Active /\ job.e \in Entry /\ job.e \notin evicted /\ job.n \in Nat
        /\ job' = NoJob /\ evicted' = {}
        /\ bucket' = IF job.kind \in {"merged", "original"}
                     THEN SetComplete(bucket, job.e, ent[job.e]) ELSE bucket
        /\ \A x \in Entry \ {job.e} : ent'[x] = Left[x]
        /\ ent'[job.e].ref = ent[job.e].ref
    BY <1>14, SavedEffect
  <2>2. \A x \in Entry \ {job.e} : ent'[x] = ent[x] \/ ent'[x] = NoEntry
    BY <2>1, LeftLemma
  <2>3. ent[job.e].st # "free" /\ ent'[job.e].ref \in 1..RefModulus - 1 /\ Left[job.e] = ent[job.e]
    BY <2>1, LeftLemma DEF Prepared, Counts
  <2>4. PICK w \in Places : w = Where(Left, {})
    BY WhereType
  <2>5. Placed(bucket, w) /\ bucket \in BucketsType /\ w[job.e] = Place(ent[job.e])
    BY <2>1, <2>3, <2>4, WhereLeft, PlaceNow DEF Lists, Types
  <2>6. \A x \in Entry \ {job.e} : Place(ent'[x]) = Place(Left[x])
    BY <2>1
  <2>7. Where(ent', {}) = [w EXCEPT ![job.e] = Place(ent'[job.e])]
    <3>1. Where(ent', {}) = [Where(Left, {}) EXCEPT ![job.e] = Place(ent'[job.e])]
      BY <2>1, <2>6 DEF Where
    <3>. QED BY <2>4, <3>1, Zenon
  <2>8. NoGrowth'
    BY <2>1, NoJobFields DEF NoGrowth
  <2>9. CASE job.kind \in {"merged", "original"}
    <3>1. /\ ent'[job.e].size = ent[job.e].size /\ ent'[job.e].st = "complete"
          /\ ent'[job.e].cand = TRUE
      BY <1>14, <2>9, SavedEffect
    <3>2. Place(ent'[job.e]) = Home(ent[job.e])
      BY <2>1, <3>1 DEF Place, Home
    <3>3. Placed(bucket', [w EXCEPT ![job.e] = Home(ent[job.e])])
      BY <2>1, <2>5, <2>9, PlacedHelpers
    <3>4. Lists'
      BY <2>1, <2>7, <3>2, <3>3 DEF Lists
    <3>5. Counts' /\ Candidates'
      BY <2>1, <2>2, <2>3, <3>1, FieldsOne
    <3>. QED BY <2>8, <3>4, <3>5
  <2>10. CASE job.kind \notin {"merged", "original"}
    <3>1. /\ ent'[job.e].st = ent[job.e].st /\ ent'[job.e].cand = ent[job.e].cand
          /\ ent'[job.e].cand => ent'[job.e].size = ent[job.e].size
          /\ ent'[job.e].del = IF job.kind = "update" THEN ent[job.e].size > 0 ELSE ent[job.e].del
      <4>1. CASE job.kind = "body"
        BY <1>14, <4>1, SavedEffect DEF NoGrowth
      <4>2. CASE job.kind # "body"
        BY <1>14, <2>10, <4>2, SavedEffect
      <4>. QED BY <4>1, <4>2
    <3>2. Place(ent'[job.e]) = Place(ent[job.e])
      BY <2>1, <3>1, SamePlace DEF Place
    <3>3. [w EXCEPT ![job.e] = w[job.e]] = w
      BY DEF Places
    <3>4. Lists'
      BY <2>1, <2>5, <2>7, <2>10, <3>2, <3>3 DEF Lists
    <3>5. /\ ent'[job.e].cand => ent'[job.e].st # "free"
          /\ ent'[job.e].cand /\ ent'[job.e].st = "responding" => ent'[job.e].size > 0 /\ ent'[job.e].del
      BY <2>1, <2>10, <3>1 DEF Candidates, Updates
    <3>6. Counts' /\ Candidates'
      BY <2>1, <2>2, <2>3, <3>5, FieldsOne
    <3>. QED BY <2>8, <3>4, <3>6
  <2>. QED BY <2>9, <2>10
<1>15. CASE NotSaved
  <2>1. Active /\ job.e \notin evicted /\ (Retried(Left, bucket) \/ GivenUp(Left, bucket))
    BY <1>15, NotSavedEffect
  <2>. QED BY <2>1, ChainedFail
<1>16. CASE BodyNotSaved
  <2>1. /\ Active /\ job' = NoJob /\ need' = 0 /\ evicted' = {} /\ clock' = clock
        /\ ent'[job.e] = NoEntry /\ \A x \in Entry \ {job.e} : ent'[x] = Left[x]
        /\ job.e \notin evicted
        /\ bucket' = Destroyed(EmptiedBuckets(bucket, job.e, ent[job.e]), job.e, Emptied(ent[job.e]))
    BY <1>16, BodyNotSavedEffect
  <2>2. job.e \in Entry /\ Left[job.e] = ent[job.e] /\ \A x \in Entry : Left[x] = ent[x] \/ Left[x] = NoEntry
    BY <2>1, ActiveLemma, LeftLemma
  <2>3. bucket' = Destroyed(bucket, job.e, ent[job.e])
    BY <1>0, <2>1, <2>2, EmptiedDestroyed
  <2>4. PICK w \in Places : w = Where(Left, {})
    BY WhereType
  <2>5. Placed(bucket, w) /\ bucket \in BucketsType /\ w[job.e] = Place(ent[job.e])
    BY <2>1, <2>2, <2>4, WhereLeft, PlaceNow DEF Lists, Types
  <2>6. Placed(bucket', [w EXCEPT ![job.e] = Out])
    BY <2>2, <2>3, <2>5, PlacedHelpers
  <2>7. Place(ent'[job.e]) = Out
    BY <2>1, NoEntryFields DEF Place
  <2>8. Where(ent', {}) = [w EXCEPT ![job.e] = Out]
    <3>1. \A x \in Entry \ {job.e} : Place(ent'[x]) = Place(Left[x])
      BY <2>1
    <3>2. Where(ent', {}) = [Where(Left, {}) EXCEPT ![job.e] = Place(ent'[job.e])]
      BY <2>2, <3>1 DEF Where
    <3>. QED BY <2>4, <2>7, <3>2, Zenon
  <2>9. Lists' /\ NoGrowth'
    BY <2>1, <2>6, <2>8, NoJobFields DEF Lists, NoGrowth
  <2>10. \A x \in Entry \ {job.e} : ent'[x] = ent[x] \/ ent'[x] = NoEntry
    BY <2>1, <2>2
  <2>11. Counts' /\ Candidates'
    BY <2>1, <2>2, <2>10, NoEntryFields, FieldsOne
  <2>. QED BY <2>9, <2>11
<1>17. CASE SavesFreed
  <2>1. /\ Active /\ job.e \in evicted /\ job'.kind = "freed" /\ evicted' = {}
        /\ ent' = Left /\ bucket' = bucket
    BY <1>17, SavesFreedEffect
  <2>2. job.e \in Entry /\ ent'[job.e] = NoEntry
        /\ \A x \in Entry : ent'[x] = ent[x] \/ ent'[x] = NoEntry
    BY <2>1, LeftLemma, ActiveLemma
  <2>3. Lists'
    BY <2>1, WhereLeft DEF Lists
  <2>4. Counts' /\ Candidates'
    BY <2>1, <2>2, NoEntryFields, FieldsOne
  <2>. QED BY <2>1, <2>3, <2>4 DEF NoGrowth
<1>18. CASE Restart
  <2>1. /\ Idle /\ evicted' = evicted /\ job' = job
        /\ \A e \in Kept : /\ ent'[e].st = "complete" /\ ent'[e].size = ent[e].size
                           /\ ent'[e].ref = ent[e].ref /\ ent'[e].cand = TRUE
        /\ \A e \in Entry \ Kept : ent'[e] = NoEntry
        /\ \A b \in Buckets : bucket'[b] \in Orders({e \in Kept : Home(ent[e]) = b})
    BY <1>18, RestartEffect
  <2>2. evicted = {} /\ job.kind = "none"
    BY <2>1, IdleNoneGone
  <2>3. \A e \in Kept : e \in Entry /\ ent[e].st # "free"
    BY DEF Kept, Live
  <2>4. ASSUME NEW e \in Entry
        PROVE  Place(ent'[e]) = IF e \in Kept THEN Home(ent[e]) ELSE Out
    <3>1. CASE e \in Kept
      BY <2>1, <3>1 DEF Place, Home
    <3>2. CASE e \notin Kept
      BY <2>1, <3>2, NoEntryFields DEF Place
    <3>. QED BY <3>1, <3>2
  <2>5. ASSUME NEW b \in Buckets
        PROVE  /\ NoDup(bucket'[b])
               /\ \A x \in Entry : x \in ToSet(bucket'[b]) <=> Where(ent', {})[x] = b
    <3>1. PICK S \in SUBSET Entry : S = {e \in Kept : Home(ent[e]) = b}
      BY <2>3
    <3>2. NoDup(bucket'[b]) /\ ToSet(bucket'[b]) = S
      BY <2>1, <3>1, OrdersLemma
    <3>3. b # Out
      BY DEF Out, Buckets
    <3>. QED BY <2>4, <3>1, <3>2, <3>3 DEF Where
  <2>6. Lists'
    BY <2>1, <2>2, <2>5 DEF Lists, Placed
  <2>7. Counts' /\ Candidates'
    BY <2>1, <2>3, NoEntryFields DEF Counts, Candidates
  <2>. QED BY <2>1, <2>2, <2>6, <2>7 DEF NoGrowth
<1>19. CASE Tick
  <2>1. UNCHANGED <<ent, bucket, job, evicted>>
    BY <1>19, TickEffect
  <2>. QED BY <2>1 DEF Lists, Counts, Candidates, NoGrowth
<1>20. CASE UNCHANGED vars
  BY <1>20 DEF vars, Lists, Counts, Candidates, NoGrowth
<1>. QED BY <1>1, <1>2, <1>3, <1>4, <1>5, <1>6, <1>7, <1>8, <1>9, <1>10, <1>11, <1>12,
            <1>13, <1>14, <1>15, <1>16, <1>17, <1>18, <1>19, <1>20 DEF Next

LEMMA ChainedInit == Init => Chained
<1> SUFFICES ASSUME Init PROVE Chained
  OBVIOUS
<1>1. /\ evicted = {} /\ job.kind = "none"
      /\ \A e \in Entry : ent[e].st = "free" /\ ent[e].cand = FALSE
      /\ \A b \in Buckets : bucket[b] = <<>>
  BY NoEntryFields, NoJobFields DEF Init
<1>2. NoDup(<<>>) /\ \A x : x \notin ToSet(<<>>)
  BY EmptyLemma
<1>3. \A x \in Entry : Where(ent, evicted)[x] = Out
  BY <1>1 DEF Where, Place
<1>4. \A b \in Buckets : b # Out
  BY DEF Buckets, Out
<1>5. Lists
  BY <1>1, <1>2, <1>3, <1>4 DEF Lists, Placed
<1>. QED BY <1>1, <1>5 DEF Chained, Counts, Candidates, NoGrowth

(* What the invariant says of the buckets is what the runs check. *)
LEMMA ChainedGivesLinked ==
  ASSUME Types, Chained
  PROVE  Linked
<1>1. ASSUME NEW e \in Entry, ent[e].cand, e \notin evicted PROVE In(bucket[Home(ent[e])], e)
  <2>1. Home(ent[e]) \in Buckets /\ Where(ent, evicted)[e] = Home(ent[e])
    BY <1>1, IndexLemma DEF Where, Place, Home
  <2>. QED BY <2>1 DEF Chained, Lists, Placed, In
<1>2. ASSUME NEW b \in Buckets, NEW e \in ToSet(bucket[b])
      PROVE  ent[e].st # "free" /\ ent[e].cand /\ e \notin evicted /\ Home(ent[e]) = b
  <2>1. bucket[b] \in Seq(Entry) /\ b # Out
    BY DEF Types, BucketsType, Buckets, Out
  <2>2. e \in Entry
    BY <1>2, <2>1, ToSetLemma
  <2>3. Where(ent, evicted)[e] = b
    BY <1>2, <2>2 DEF Chained, Lists, Placed
  <2>4. ent[e].cand /\ e \notin evicted /\ Home(ent[e]) = b
    BY <2>1, <2>2, <2>3 DEF Where, Place
  <2>. QED BY <2>2, <2>4 DEF Chained, Candidates
<1>3. LinkedOnce
  BY DEF Chained, Lists, Placed, NoDup, LinkedOnce
<1>. QED BY <1>1, <1>2, <1>3, TypesGiveTypeOK DEF Linked, CandidatesLinked, OnlyCandidates

(* The linked lists and the entries agree: every candidate is linked once, in
   the bucket where Remove and Accessed will look for it, and nothing else is
   linked.  It takes that no other process rewrites the reference counts, that
   EvictL never runs out of memory between unlinking an entry and noting it,
   and that no count is accessed up to its 16 bits. *)
THEOREM LinkedTheorem ==
  ASSUME ~Merges, ~MemErrors, MaxRef < RefModulus
  PROVE  Spec => []Linked
<1>1. Spec => []Chained
  <2>1. Orderly /\ Chained /\ [Next]_vars => Chained'
    BY ChainedStep
  <2>. QED BY <2>1, ChainedInit, OrderlyTheorem, PTL DEF Spec
<1>2. Types /\ Chained => Linked
  BY ChainedGivesLinked
<1>. QED BY <1>1, <1>2, TypesTheorem, PTL

=============================================================================
