---------------------------- MODULE QueueLemmas ----------------------------
(***************************************************************************)
(* Sequences used as lists of distinct elements, as the code keeps its      *)
(* entries in linked lists and pointer arrays: what is left of one when     *)
(* elements are added, taken out or dropped from its head.                  *)
(***************************************************************************)
EXTENDS Integers, SequencesExt, SequenceTheorems, TLAPS

(* No pointer is in the queue twice. *)
NoDup(q) == \A i, j \in 1..Len(q) : q[i] = q[j] => i = j

(* The elements of a queue are what stands at its positions. *)
LEMMA ToSetLemma ==
  ASSUME NEW S, NEW q \in Seq(S)
  PROVE  /\ \A x \in ToSet(q) : \E i \in 1..Len(q) : q[i] = x
         /\ \A i \in 1..Len(q) : q[i] \in ToSet(q)
         /\ ToSet(q) \subseteq S
BY LenProperties, ElementOfSeq DEF ToSet

(* An empty queue holds nothing. *)
LEMMA EmptyLemma == NoDup(<<>>) /\ ToSet(<<>>) = {}
<1>1. DOMAIN <<>> = {}
  OBVIOUS
<1>2. ToSet(<<>>) = {}
  BY <1>1 DEF ToSet
<1>3. \A i \in 1..Len(<<>>) : FALSE
  OBVIOUS
<1>. QED BY <1>2, <1>3 DEF NoDup

(* s is what is left of q without its first n elements. *)
IsSuffixFrom(s, q, n) ==
  Len(s) = Len(q) - n /\ \A i \in 1..Len(s) : s[i] = q[n + i]

(* A suffix of a queue without repetitions has none, and holds what stood
   behind its start. *)
LEMMA ShiftLemma ==
  ASSUME NEW S, NEW q \in Seq(S), NoDup(q), NEW n \in 0..Len(q),
         NEW s \in Seq(S), IsSuffixFrom(s, q, n)
  PROVE  /\ NoDup(s)
         /\ \A x : x \in ToSet(s) <=> \E i \in n+1..Len(q) : x = q[i]
<1> USE DEF IsSuffixFrom
<1>1. NoDup(s)
  <2> SUFFICES ASSUME NEW i \in 1..Len(s), NEW j \in 1..Len(s), s[i] = s[j] PROVE i = j
    BY DEF NoDup
  <2>1. n + i \in 1..Len(q) /\ n + j \in 1..Len(q)
    OBVIOUS
  <2>. QED BY <2>1 DEF NoDup
<1>2. ASSUME NEW x PROVE x \in ToSet(s) <=> \E i \in n+1..Len(q) : x = q[i]
  <2>1. ASSUME x \in ToSet(s) PROVE \E i \in n+1..Len(q) : x = q[i]
    <3>1. PICK i \in 1..Len(s) : s[i] = x
      BY <2>1, ToSetLemma
    <3>2. n + i \in n+1..Len(q)
      OBVIOUS
    <3>. QED BY <3>1, <3>2
  <2>2. ASSUME NEW i \in n+1..Len(q), x = q[i] PROVE x \in ToSet(s)
    <3>1. i - n \in 1..Len(s) /\ s[i - n] = q[i]
      OBVIOUS
    <3>. QED BY <2>2, <3>1, ToSetLemma
  <2>. QED BY <2>1, <2>2
<1>. QED BY <1>1, <1>2

Suffix(q, n) == SubSeq(q, n + 1, Len(q))

(* The same of SubSeq, the way RunL drops the heads that need no write. *)
LEMMA SuffixLemma ==
  ASSUME NEW S, NEW q \in Seq(S), NoDup(q), NEW n \in 0..Len(q)
  PROVE  /\ Suffix(q, n) \in Seq(S) /\ NoDup(Suffix(q, n))
         /\ \A x : x \in ToSet(Suffix(q, n)) <=> \E i \in n+1..Len(q) : x = q[i]
<1>1. Suffix(q, n) \in Seq(S) /\ IsSuffixFrom(Suffix(q, n), q, n)
  BY SubSeqProperties DEF Suffix, IsSuffixFrom
<1>. QED BY <1>1, ShiftLemma

(* r is q without its k-th element. *)
IsWithout(r, q, k) ==
  /\ Len(r) = Len(q) - 1
  /\ \A i \in 1..Len(r) : r[i] = IF i < k THEN q[i] ELSE q[i + 1]

(* A queue without its k-th element holds all others and has no repetition. *)
LEMMA DropLemma ==
  ASSUME NEW S, NEW q \in Seq(S), NoDup(q), NEW k \in 1..Len(q),
         NEW r \in Seq(S), IsWithout(r, q, k)
  PROVE  /\ NoDup(r)
         /\ \A x : x \in ToSet(r) <=> x \in ToSet(q) /\ x # q[k]
<1> USE DEF IsWithout
<1>1. NoDup(r)
  <2> SUFFICES ASSUME NEW i \in 1..Len(r), NEW j \in 1..Len(r), r[i] = r[j] PROVE i = j
    BY DEF NoDup
  <2>1. PICK m \in 1..Len(q) : r[i] = q[m] /\ m = IF i < k THEN i ELSE i + 1
    OBVIOUS
  <2>2. PICK n \in 1..Len(q) : r[j] = q[n] /\ n = IF j < k THEN j ELSE j + 1
    OBVIOUS
  <2>3. m = n
    BY <2>1, <2>2 DEF NoDup
  <2>. QED BY <2>1, <2>2, <2>3
<1>2. ASSUME NEW x \in ToSet(r) PROVE x \in ToSet(q) /\ x # q[k]
  <2>1. PICK i \in 1..Len(r) : x = r[i]
    BY ToSetLemma
  <2>2. PICK j \in 1..Len(q) : x = q[j] /\ j # k
    <3>1. CASE i < k
      BY <2>1, <3>1
    <3>2. CASE i >= k
      <4>1. i + 1 \in 1..Len(q) /\ x = q[i + 1] /\ i + 1 # k
        BY <2>1, <3>2
      <4>. QED BY <4>1
    <3>. QED BY <3>1, <3>2
  <2>. QED BY <2>2, ToSetLemma DEF NoDup
<1>3. ASSUME NEW x \in ToSet(q), x # q[k] PROVE x \in ToSet(r)
  <2>1. PICK i \in 1..Len(q) : x = q[i]
    BY ToSetLemma
  <2>2. CASE i < k
    BY <2>1, <2>2, ToSetLemma
  <2>3. CASE i > k
    <3>1. i - 1 \in 1..Len(r) /\ r[i - 1] = q[i]
      BY <2>3
    <3>. QED BY <2>1, <3>1, ToSetLemma
  <2>. QED BY <2>1, <2>2, <2>3, <1>3
<1>. QED BY <1>1, <1>2, <1>3

(* The same of RemoveAt. *)
LEMMA RemoveAtLemma ==
  ASSUME NEW S, NEW q \in Seq(S), NoDup(q), NEW k \in 1..Len(q),
         NEW r, r = RemoveAt(q, k)
  PROVE  /\ r \in Seq(S) /\ NoDup(r)
         /\ \A x : x \in ToSet(r) <=> x \in ToSet(q) /\ x # q[k]
<1>1. PICK a : a = SubSeq(q, 1, k - 1)
  OBVIOUS
<1>2. PICK b : b = SubSeq(q, k + 1, Len(q))
  OBVIOUS
<1>3. a \in Seq(S) /\ Len(a) = k - 1 /\ \A i \in 1..k-1 : a[i] = q[i]
  BY <1>1, SubSeqProperties
<1>4. b \in Seq(S) /\ Len(b) = Len(q) - k /\ \A i \in 1..Len(q)-k : b[i] = q[k + i]
  BY <1>2, SubSeqProperties
<1>5. r = a \o b
  BY <1>1, <1>2 DEF RemoveAt
<1>6. /\ a \o b \in Seq(S) /\ Len(a \o b) = Len(a) + Len(b)
      /\ \A i \in 1..Len(a) + Len(b) :
           (a \o b)[i] = IF i <= Len(a) THEN a[i] ELSE b[i - Len(a)]
  BY <1>3, <1>4, ConcatProperties
<1>7. /\ r \in Seq(S) /\ Len(r) = Len(q) - 1
      /\ \A i \in 1..Len(r) : r[i] = IF i < k THEN q[i] ELSE q[i + 1]
  <2>1. r \in Seq(S) /\ Len(r) = Len(q) - 1
    BY <1>3, <1>4, <1>5, <1>6
  <2>2. ASSUME NEW i \in 1..Len(r) PROVE r[i] = IF i < k THEN q[i] ELSE q[i + 1]
    <3>1. i \in 1..Len(a) + Len(b)
      BY <2>1, <1>3, <1>4
    <3>2. r[i] = IF i <= Len(a) THEN a[i] ELSE b[i - Len(a)]
      BY <3>1, <1>5, <1>6
    <3>3. CASE i < k
      BY <3>2, <3>3, <2>1, <1>3
    <3>4. CASE i >= k
      <4>1. i - (k - 1) \in 1..Len(q)-k /\ k + (i - (k - 1)) = i + 1
        BY <3>4, <2>1
      <4>2. r[i] = b[i - (k - 1)]
        BY <3>2, <3>4, <2>1, <1>3
      <4>. QED BY <4>1, <4>2, <3>4, <1>4
    <3>. QED BY <3>3, <3>4, <2>1
  <2>. QED BY <2>1, <2>2
<1>8. IsWithout(r, q, k)
  BY <1>7 DEF IsWithout
<1>. QED BY <1>7, <1>8, DropLemma

(* RPointerArray Find and Remove, as RemoveEntry uses them: exactly the given
   entry leaves the queue. *)
LEMMA RemoveFirstLemma ==
  ASSUME NEW S, NEW q \in Seq(S), NoDup(q), NEW e,
         NEW r, r = RemoveFirst(q, e)
  PROVE  /\ r \in Seq(S) /\ NoDup(r)
         /\ \A x : x \in ToSet(r) <=> x \in ToSet(q) /\ x # e
<1>1. CASE ~ \E i \in 1..Len(q) : q[i] = e
  <2>1. r = q
    BY <1>1 DEF RemoveFirst
  <2>2. e \notin ToSet(q)
    BY <1>1, ToSetLemma
  <2>. QED BY <2>1, <2>2
<1>2. CASE \E i \in 1..Len(q) : q[i] = e
  <2>1. PICK k \in 1..Len(q) : q[k] = e
    BY <1>2
  <2>2. {i \in 1..Len(q) : q[i] = e} = {k}
    BY <2>1 DEF NoDup
  <2>3. Min({k}) = k
    BY <2>1 DEF Min
  <2>4. SelectInSeq(q, LAMBDA v : v = e) = k
    BY <2>2, <2>3 DEF SelectInSeq
  <2>5. r = RemoveAt(q, k)
    BY <1>2, <2>4 DEF RemoveFirst
  <2>. QED BY <2>1, <2>5, RemoveAtLemma
<1>. QED BY <1>1, <1>2

(* TDblQue::AddLast of an element that is not in the list. *)
LEMMA AppendLemma ==
  ASSUME NEW S, NEW q \in Seq(S), NoDup(q), NEW x \in S, x \notin ToSet(q)
  PROVE  /\ Append(q, x) \in Seq(S) /\ NoDup(Append(q, x))
         /\ \A y : y \in ToSet(Append(q, x)) <=> y \in ToSet(q) \/ y = x
<1>1. PICK r : r = Append(q, x)
  OBVIOUS
<1>2. /\ r \in Seq(S) /\ Len(r) = Len(q) + 1
      /\ \A i \in 1..Len(q) : r[i] = q[i]
      /\ r[Len(q) + 1] = x
  BY <1>1, AppendProperties
<1>3. \A i \in 1..Len(q) : q[i] # x
  BY ToSetLemma
<1>4. NoDup(r)
  BY <1>2, <1>3 DEF NoDup
<1>5. ASSUME NEW y \in ToSet(r) PROVE y \in ToSet(q) \/ y = x
  <2>1. PICK i \in 1..Len(r) : r[i] = y
    BY <1>2, ToSetLemma
  <2>. QED BY <2>1, <1>2, ToSetLemma
<1>6. ASSUME NEW y \in ToSet(q) PROVE y \in ToSet(r)
  <2>1. PICK i \in 1..Len(q) : q[i] = y
    BY ToSetLemma
  <2>2. i \in 1..Len(r) /\ r[i] = y
    BY <2>1, <1>2
  <2>. QED BY <2>2, <1>2, ToSetLemma
<1>7. x \in ToSet(r)
  <2>1. Len(q) + 1 \in 1..Len(r)
    BY <1>2
  <2>. QED BY <2>1, <1>2, ToSetLemma
<1>. QED BY <1>1, <1>2, <1>4, <1>5, <1>6, <1>7

(* The first element is taken off. *)
LEMMA TailLemma ==
  ASSUME NEW S, NEW q \in Seq(S), NoDup(q), q # <<>>
  PROVE  /\ Tail(q) \in Seq(S) /\ NoDup(Tail(q)) /\ Head(q) \in S /\ Head(q) \in ToSet(q)
         /\ \A y : y \in ToSet(Tail(q)) <=> y \in ToSet(q) /\ y # Head(q)
<1>1. PICK r : r = Tail(q)
  OBVIOUS
<1>2. /\ r \in Seq(S) /\ Len(r) = Len(q) - 1 /\ Head(q) = q[1] /\ Len(q) \in Nat \ {0}
      /\ \A i \in 1..Len(r) : r[i] = q[i + 1]
  BY <1>1, HeadTailProperties, EmptySeq
<1>3. IsWithout(r, q, 1)
  BY <1>2 DEF IsWithout
<1>4. 1 \in 1..Len(q)
  BY <1>2
<1>5. NoDup(r) /\ \A y : y \in ToSet(r) <=> y \in ToSet(q) /\ y # q[1]
  BY <1>2, <1>3, <1>4, DropLemma
<1>6. q[1] \in S /\ q[1] \in ToSet(q)
  BY <1>4, ElementOfSeq, ToSetLemma
<1>. QED BY <1>1, <1>2, <1>5, <1>6
=============================================================================
