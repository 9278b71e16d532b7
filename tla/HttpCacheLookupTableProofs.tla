---------------------- MODULE HttpCacheLookupTableProofs ----------------------
(***************************************************************************)
(* Proofs about the lookup table of the cache: probing, tombstones and      *)
(* rehashing lose and hide nothing.                                         *)
(***************************************************************************)
EXTENDS HttpCacheLookupTable, FiniteSetTheorems, NaturalsInduction, TLAPS

-----------------------------------------------------------------------------
(* Quadratic probing                                                        *)

Prime(m) == m \in Nat /\ m > 1 /\ m % 2 = 1 /\ ~OddDivisor(m)

(* Euclid's division. *)
LEMMA Division ==
  ASSUME NEW x \in Nat, NEW m \in Nat \ {0}
  PROVE  \E q \in Nat, r \in 0..m - 1 : x = m * q + r /\ r = (x % m)
<1>1. x = m * (x \div m) + (x % m) /\ (x % m) \in 0..m - 1 /\ (x \div m) \in Int
  OBVIOUS
<1>2. (x \div m) \in Nat
  OBVIOUS
<1>. QED BY <1>1, <1>2

(* A product of two numbers from 1 up has neither factor above it. *)
LEMMA FactorBound ==
  ASSUME NEW a \in Nat \ {0}, NEW b \in Nat \ {0}
  PROVE  a * b \in Nat /\ a <= a * b /\ b <= a * b /\ (a > 1 => b < a * b)
<1>1. PICK c \in Nat : b = c + 1
  <2>1. b - 1 \in Nat /\ b = (b - 1) + 1
    OBVIOUS
  <2>. QED BY <2>1
<1>2. PICK d \in Nat : a = d + 1
  <2>1. a - 1 \in Nat /\ a = (a - 1) + 1
    OBVIOUS
  <2>. QED BY <2>1
<1>3. c * d \in Nat
  OBVIOUS
<1>4. a * b = c * d + c + d + 1
  BY <1>1, <1>2
<1>. QED BY <1>1, <1>2, <1>3, <1>4

(* A multiple leaves no remainder. *)
LEMMA Multiple ==
  ASSUME NEW d \in Nat \ {0}, NEW q \in Nat, NEW x \in Nat, x = d * q
  PROVE  (x % d) = 0
<1>1. PICK s \in Nat, r \in 0..d - 1 : x = d * s + r /\ r = (x % d)
  BY Division
<1>2. d * (q - s) = r
  BY <1>1
<1>3. CASE q > s
  <2>1. PICK k \in Nat \ {0} : k = q - s
    BY <1>3
  <2>2. d <= d * k
    BY <2>1, FactorBound
  <2>. QED BY <1>1, <1>2, <2>1, <2>2
<1>4. CASE q < s
  <2>1. PICK k \in Nat \ {0} : k = s - q
    BY <1>4
  <2>2. d <= d * k
    BY <2>1, FactorBound
  <2>3. d * k = 0 - r
    BY <1>2, <2>1
  <2>. QED BY <1>1, <2>2, <2>3
<1>5. CASE q = s
  <2>1. d * s \in Nat /\ x = d * s + r /\ x = d * s
    BY <1>1, <1>5
  <2>2. r = 0
    BY <2>1
  <2>. QED BY <1>1, <2>2, Zenon
<1>. QED BY <1>3, <1>4, <1>5

(* NextPrime returns a number without factors. *)
LEMMA NoFactors ==
  ASSUME NEW m, Prime(m), NEW a \in Nat, NEW b \in Nat, a > 1, b > 1, m = a * b
  PROVE  FALSE
<1>1. m \in Nat /\ m % 2 = 1 /\ ~OddDivisor(m)
  BY DEF Prime
<1>2. ASSUME NEW c \in Nat, NEW d \in Nat, c > 1, d > 1, m = c * d, c <= d
      PROVE  FALSE
  <2>1. c * c <= m
    <3>1. PICK k \in Nat : d = c + k
      <4>1. d - c \in Nat /\ d = c + (d - c)
        BY <1>2
      <4>. QED BY <4>1
    <3>2. c * d = c * c + c * k /\ c * k \in Nat
      BY <3>1
    <3>. QED BY <1>2, <3>2
  <2>2. c % 2 = 1
    <3>1. PICK s \in Nat, r \in 0..1 : c = 2 * s + r /\ r = (c % 2)
      BY Division
    <3>2. CASE r = 0
      <4>1. m = 2 * (s * d) /\ s * d \in Nat
        BY <1>2, <3>1, <3>2
      <4>2. (m % 2) = 0
        BY <4>1, Multiple
      <4>. QED BY <1>1, <4>2
    <3>. QED BY <3>1, <3>2
  <2>3. c \in 3..m
    <3>1. c # 2
      BY <2>2
    <3>2. c <= m
      BY <1>2, FactorBound
    <3>. QED BY <1>1, <1>2, <3>1, <3>2
  <2>4. (m % c) = 0
    <3>1. c \in Nat \ {0} /\ m \in Nat /\ m = c * d
      BY <1>1, <1>2
    <3>. QED BY <3>1, Multiple, Zenon
  <2>. QED BY <1>1, <2>1, <2>2, <2>3, <2>4 DEF OddDivisor
<1>3. m = b * a
  OBVIOUS
<1>4. a <= b \/ b <= a
  OBVIOUS
<1>. QED BY <1>2, <1>3, <1>4

(* Every set of numbers has a least one. *)
LEMMA LeastNumber ==
  ASSUME NEW S \in SUBSET Nat, S # {}
  PROVE  \E k \in S : \A j \in S : k <= j
<1>1. OpToRel(<, Nat) = {ss \in Nat \X Nat : ss[1] < ss[2]}
  BY Zenon DEF OpToRel
<1> DEFINE R == {ss \in Nat \X Nat : ss[1] < ss[2]}
<1>2. IsWellFoundedOn(R, Nat)
  BY <1>1, NatLessThanWellFounded, Zenon
<1>3. PICK k \in S : \A j \in S : ~(<<j, k>> \in R)
  <2> HIDE DEF R
  <2>. QED BY <1>2, WFMin, Zenon
<1>4. \A j \in S : ~(j < k)
  BY <1>3
<1>. QED BY <1>4

(* A prime does not divide the product of two smaller numbers. *)
LEMMA PrimeProduct ==
  ASSUME NEW m, Prime(m), NEW x \in 1..m - 1, NEW y \in 1..m - 1, NEW t \in Nat, x * y = m * t
  PROVE  FALSE
<1> DEFINE S == {k \in 1..m - 1 : \E q \in Nat : k * y = m * q}
<1>1. m \in Nat /\ m > 1
  BY DEF Prime
<1>2. x \in S
  OBVIOUS
<1>3. S \in SUBSET Nat
  BY <1>1
<1>4. PICK k \in S : \A j \in S : k <= j
  BY <1>2, <1>3, LeastNumber
<1>5. k \in 1..m - 1 /\ k \in Nat \ {0}
  BY <1>1, <1>4
<1>6. PICK q \in Nat : k * y = m * q
  BY <1>4
<1>7. PICK s \in Nat, r \in 0..k - 1 : m = k * s + r /\ r = (m % k)
  BY <1>1, <1>5, Division
<1>8. CASE r > 0
  <2>1. s * (k * y) = s * (m * q)
    BY <1>6
  <2>2. (k * s) * y = m * (s * q)
    BY <1>1, <1>5, <2>1
  <2>3. m * y = (k * s) * y + r * y
    BY <1>1, <1>5, <1>7
  <2>4. r * y = m * (y - s * q)
    BY <1>1, <2>2, <2>3
  <2>5. r \in 1..m - 1 /\ r < k
    BY <1>5, <1>7, <1>8
  <2>6. y - s * q \in Nat
    <3>1. r * y \in Nat
      BY <2>5
    <3>2. CASE y - s * q < 0
      <4>1. PICK z \in Nat \ {0} : z = s * q - y
        BY <3>2
      <4>2. m <= m * z
        BY <1>1, <4>1, FactorBound
      <4>3. m * z = 0 - r * y
        BY <1>1, <2>4, <4>1
      <4>. QED BY <1>1, <3>1, <4>2, <4>3
    <3>. QED BY <3>2
  <2>7. r \in S
    BY <2>4, <2>5, <2>6
  <2>. QED BY <1>4, <2>5, <2>7
<1>9. CASE r = 0
  <2>1. m = k * s
    BY <1>5, <1>7, <1>9
  <2>2. CASE k = 1
    <3>1. y = m * q
      BY <1>6, <2>2
    <3>2. q # 0
      BY <1>1, <3>1
    <3>3. m <= m * q
      BY <1>1, <3>2, FactorBound
    <3>. QED BY <1>1, <3>1, <3>3
  <2>3. CASE k > 1
    <3>1. s # 0 /\ s # 1
      BY <1>1, <1>5, <2>1
    <3>. QED BY <1>5, <2>1, <2>3, <3>1, NoFactors
  <2>. QED BY <1>5, <2>2, <2>3
<1>. QED BY <1>7, <1>8, <1>9

(* The probes up to half the size of a prime table differ: of two numbers
   with equal squares the size would divide the difference or the sum. *)
LEMMA ProbesDifferOrdered ==
  ASSUME NEW m, Prime(m), NEW h \in Nat, NEW a \in Nat, NEW b \in Nat, a < b, b <= m \div 2,
         ((h + a * a) % m) = ((h + b * b) % m)
  PROVE  FALSE
<1>1. m \in Nat \ {0} /\ m > 1 /\ h + a * a \in Nat /\ h + b * b \in Nat
  BY DEF Prime
<1>2. PICK q \in Nat, r \in 0..m - 1 : h + a * a = m * q + r /\ r = ((h + a * a) % m)
  BY <1>1, Division
<1>3. PICK s \in Nat, u \in 0..m - 1 : h + b * b = m * s + u /\ u = ((h + b * b) % m)
  BY <1>1, Division
<1>4. PICK x \in 1..m - 1 : x = b - a
  <2>1. 2 * b <= m
    BY <1>1
  <2>2. b - a \in 1..m - 1
    BY <1>1, <2>1
  <2>. QED BY <2>2
<1>5. PICK y \in 1..m - 1 : y = b + a
  <2>1. 2 * b <= m
    BY <1>1
  <2>2. b + a \in 1..m - 1
    BY <1>1, <2>1
  <2>. QED BY <2>2
<1>6. x * y = b * b - a * a
  BY <1>4, <1>5
<1>7. x * y = m * (s - q)
  BY <1>1, <1>2, <1>3, <1>6
<1>8. x * y \in Nat \ {0}
  <2>1. x \in Nat \ {0} /\ y \in Nat \ {0}
    BY <1>1
  <2>. QED BY <2>1, FactorBound
<1>9. s - q \in Nat
  <2>1. CASE s < q
    <3>1. PICK z \in Nat \ {0} : z = q - s
      BY <2>1
    <3>2. m <= m * z
      BY <1>1, <3>1, FactorBound
    <3>3. m * z = 0 - x * y
      BY <1>1, <1>7, <3>1
    <3>. QED BY <1>1, <1>8, <3>2, <3>3
  <2>. QED BY <2>1
<1>. QED BY <1>7, <1>9, PrimeProduct

LEMMA ProbesDiffer ==
  ASSUME NEW m, Prime(m), NEW h \in Nat, NEW a \in 0..m \div 2, NEW b \in 0..m \div 2,
         ((h + a * a) % m) = ((h + b * b) % m)
  PROVE  a = b
<1>1. m \in Nat /\ a \in Nat /\ b \in Nat /\ a <= m \div 2 /\ b <= m \div 2
  BY DEF Prime
<1>2. a < b \/ b < a \/ a = b
  BY <1>1
<1>. QED BY <1>1, <1>2, ProbesDifferOrdered

(* Adding an element, taking one out, and sets that are part of the slots. *)
LEMMA OneMore ==
  ASSUME NEW S, IsFiniteSet(S), NEW x, x \notin S
  PROVE  IsFiniteSet(S \cup {x}) /\ Cardinality(S \cup {x}) = Cardinality(S) + 1
BY FS_AddElement

LEMMA OneLess ==
  ASSUME NEW S, IsFiniteSet(S), NEW x \in S
  PROVE  IsFiniteSet(S \ {x}) /\ Cardinality(S \ {x}) = Cardinality(S) - 1
BY FS_RemoveElement

LEMMA SlotsFinite ==
  ASSUME NEW n \in Nat, NEW S \in SUBSET (0..n - 1)
  PROVE  IsFiniteSet(S) /\ Cardinality(S) \in Nat /\ Cardinality(S) <= n
<1>1. IsFiniteSet(0..n - 1) /\ Cardinality(0..n - 1) = n
  BY FS_Interval
<1>2. IsFiniteSet(S) /\ Cardinality(S) <= Cardinality(0..n - 1)
  BY <1>1, FS_Subset
<1>. QED BY <1>1, <1>2, FS_CardinalityType

(* As long as at most half of a prime table is in use, the probes for a URL
   get to a slot that is free. *)
LEMMA SlotFound ==
  ASSUME TypeOK, Prime(size), Cardinality(Stored) <= size \div 2, NEW u \in Url
  PROVE  \E c \in 0..size \div 2 : ~Valid(Pos(u, c))
<1> SUFFICES ASSUME \A c \in 0..size \div 2 : Valid(Pos(u, c)) PROVE FALSE
  OBVIOUS
<1>1. size \in Nat /\ size > 1 /\ hash[u] \in Nat
  BY DEF Prime, TypeOK
<1>2. PICK n \in Nat : n = size \div 2
  BY <1>1
<1> DEFINE f == [c \in 0..n |-> Pos(u, c)]
<1>3. ASSUME NEW c \in 0..n PROVE Pos(u, c) \in Stored
  <2>1. hash[u] + c * c \in Nat
    BY <1>1, <1>2
  <2>2. Pos(u, c) \in 0..size - 1
    BY <1>1, <2>1 DEF Pos
  <2>. QED BY <1>2, <2>2 DEF Stored
<1>4. f \in Injection(0..n, Stored)
  <2>1. ASSUME NEW a \in 0..n, NEW b \in 0..n, f[a] = f[b] PROVE a = b
    <3>1. ((hash[u] + a * a) % size) = ((hash[u] + b * b) % size)
      BY <2>1 DEF Pos
    <3>. QED BY <1>1, <1>2, <3>1, ProbesDiffer
  <2>. QED BY <1>3, <2>1 DEF Injection, IsInjective
<1>5. IsFiniteSet(Stored) /\ Cardinality(Stored) \in Nat
  <2>1. Stored \in SUBSET (0..size - 1)
    BY DEF Stored
  <2>. QED BY <1>1, <2>1, SlotsFinite
<1>6. Cardinality(0..n) = n + 1
  BY <1>2, FS_Interval
<1>7. Cardinality(0..n) <= Cardinality(Stored)
  <2> HIDE DEF f
  <2>. QED BY <1>4, <1>5, FS_Injection
<1>. QED BY <1>2, <1>5, <1>6, <1>7

-----------------------------------------------------------------------------
(* The invariant                                                            *)

(* InsertL is running for the entry ins. *)
Inserting == pc \in {"probe", "rehash"}

(* No heap error has left the table behind with a deleted entry or without
   slots, and MergeL has not panicked. *)
Sound == pc \notin {"dangling", "noslots", "panic"}

(* The entries the table holds, those ReHashL has still to move included, and
   those that wait to be inserted. *)
Tabled == {slot[p] : p \in Stored} \cup {old[k] : k \in ToMove}
Unplaced == IF Inserting /\ ~placed THEN {ins} ELSE {}
Waiting == loading \cup Unplaced

Loops ==
  /\ \A e \in Id : obj[e].st # "free" => obj[e].url \in Url
  /\ size = 0 => pc = "noslots"
  /\ \E n \in Nat : DOMAIN old = 0..n - 1
  /\ pc # "rehash" => old = NoTable
  /\ pc = "rehash" => Prime(size)
  /\ Inserting => ins \in Id
  /\ ~Inserting => ins = Null /\ ~placed /\ why = "url"
  /\ placed => pc = "rehash"
  /\ loading # {} => pc = "load" \/ why = "load"

(* An entry is in one slot only. *)
Inj ==
  /\ \A p, q \in Stored : slot[p] = slot[q] => p = q
  /\ \A j, k \in ToMove : old[j] = old[k] => j = k
  /\ \A p \in Stored, k \in ToMove : slot[p] # old[k]

(* What waits to be inserted is not in the table. *)
Apart == Tabled \cap Waiting = {} /\ ins \notin loading

Alive ==
  /\ \A e \in Tabled \cup Waiting : obj[e].st # "free"
  /\ placed => ins \in Tabled

(* The probes for the URL of a stored entry get to it. *)
Reach ==
  \A p \in Stored : \E c \in 0..size :
    p = Pos(obj[slot[p]].url, c) /\ \A d \in 0..c - 1 : slot[Pos(obj[slot[p]].url, d)] # Null

(* Nothing is lost, and at most half of the slots are in use. *)
CountSum ==
  size > 0 => /\ count = Cardinality(Stored) + Cardinality(ToMove)
              /\ pc # "dangling" => count <= size \div 2

Placement == Inj /\ Apart /\ Alive /\ Reach
TableInv == TypeOK /\ Loops /\ CountSum /\ (Sound => Placement)

(* The positions that are in use. *)
LEMMA PositionsFinite ==
  ASSUME TypeOK, Loops
  PROVE  /\ IsFiniteSet(Stored) /\ Cardinality(Stored) \in Nat
         /\ IsFiniteSet(ToMove) /\ Cardinality(ToMove) \in Nat
         /\ Tabled \in SUBSET Id
<1>1. Stored \in SUBSET (0..size - 1) /\ size \in Nat
  BY DEF Stored, TypeOK
<1>2. PICK n \in Nat : DOMAIN old = 0..n - 1
  BY DEF Loops
<1>3. ToMove \in SUBSET (0..n - 1)
  BY <1>2 DEF ToMove
<1>4. Tabled \in SUBSET Id
  BY DEF Tabled, Stored, ToMove, Valid
<1>. QED BY <1>1, <1>2, <1>3, <1>4, SlotsFinite

LEMMA NoTableFacts ==
  /\ DOMAIN NoTable = {} /\ DOMAIN NoTable = 0..(0 - 1) /\ NoTable \in [DOMAIN NoTable -> Slot]
  /\ \A x : old = NoTable => ToMove = {}
BY DEF NoTable, ToMove

LEMMA PosType ==
  ASSUME TypeOK, size > 0, NEW u \in Url, NEW c \in Nat
  PROVE  Pos(u, c) \in 0..size - 1
<1>1. size \in Nat \ {0} /\ hash[u] \in Nat
  BY DEF TypeOK
<1>2. PICK h \in Nat : h = hash[u] + c * c
  BY <1>1
<1>3. (h % size) \in 0..size - 1
  BY <1>1, <1>2
<1>. QED BY <1>2, <1>3 DEF Pos

(* The table is left alone. *)
LEMMA KeepTable ==
  ASSUME UNCHANGED <<fold, hash, size, slot, count>>, ToMove' = ToMove, old' = old \/ ToMove = {},
         \A e \in Tabled : obj'[e].url = obj[e].url
  PROVE  /\ Stored' = Stored /\ Tabled' = Tabled
         /\ Inj => Inj'
         /\ Reach => Reach'
         /\ CountSum /\ pc # "dangling" => CountSum'
<1>1. Stored' = Stored
  BY DEF Stored, Valid
<1>2. Tabled' = Tabled
  BY <1>1 DEF Tabled
<1>3. Inj => Inj'
  BY <1>1 DEF Inj
<1>4. \A p \in Stored : slot[p] \in Tabled
  BY DEF Tabled
<1>5. Reach => Reach'
  BY <1>1, <1>4 DEF Reach, Pos
<1>6. CountSum /\ pc # "dangling" => CountSum'
  BY <1>1 DEF CountSum
<1>. QED BY <1>1, <1>2, <1>3, <1>5, <1>6

(* Outside ReHashL there is no old table, and outside InsertL and the loading
   of the index nothing waits. *)
LEMMA AtRest ==
  ASSUME TypeOK, Loops
  PROVE  /\ pc # "rehash" => ToMove = {}
         /\ ~Inserting => Unplaced = {}
         /\ ~Inserting /\ pc # "load" => Waiting = {} /\ loading = {}
         /\ Waiting \in SUBSET Id
<1>1. pc # "rehash" => ToMove = {}
  BY NoTableFacts DEF Loops
<1>2. ~Inserting => Unplaced = {}
  BY DEF Unplaced
<1>3. ~Inserting /\ pc # "load" => loading = {}
  BY DEF Loops
<1>4. Waiting \in SUBSET Id
  BY DEF Waiting, Unplaced, TypeOK, Loops
<1>. QED BY <1>1, <1>2, <1>3, <1>4 DEF Waiting

(* The shape of the steps that leave the table alone. *)
LEMMA KeepStep ==
  ASSUME TableInv, Sound, TypeOK', Loops',
         UNCHANGED <<fold, hash, size, slot, count>>, ToMove = {}, ToMove' = {},
         \A e \in Tabled : obj'[e].url = obj[e].url,
         \A e \in Tabled \cup Waiting' : obj'[e].st # "free",
         Tabled \cap Waiting' = {}, ins' \notin loading', placed' => ins' \in Tabled
  PROVE  TableInv'
<1>1. Stored' = Stored /\ Tabled' = Tabled /\ Inj' /\ Reach' /\ CountSum'
  BY KeepTable DEF TableInv, Placement, Sound
<1>2. Apart'
  BY <1>1 DEF Apart
<1>3. Alive'
  BY <1>1 DEF Alive
<1>. QED BY <1>1, <1>2, <1>3 DEF TableInv, Placement

(* An object gets to be an entry that waits: InsertL or MergeL makes a new one,
   or an entry is taken from the saved index. *)
LEMMA InsertLStep ==
  ASSUME TableInv, NEW u \in Url, InsertL(u)
  PROVE  TableInv'
<1>1. PICK e \in Id : /\ obj[e].st = "free"
                      /\ obj' = [obj EXCEPT ![e] = NewEntry(u)]
                      /\ Start(e, "url")
  BY DEF InsertL
<1>2. pc = "idle" /\ UNCHANGED <<fold, hash, table, held, disk, new, loading>>
  BY DEF InsertL
<1>3. TypeOK /\ Loops /\ Placement /\ Sound /\ ~Inserting
  BY <1>2 DEF TableInv, Sound, Inserting
<1>4. ToMove = {} /\ loading = {} /\ Unplaced = {}
  BY <1>2, <1>3, AtRest
<1>5. NewEntry(u) \in EntryObject /\ NewEntry(u).st # "free" /\ NewEntry(u).url \in Url
  BY DEF NewEntry, EntryObject
<1>6. e \in Id /\ e # Null /\ e \notin Tabled
  BY <1>1, <1>3, SlotAssumption DEF Placement, Alive
<1>7. TypeOK'
  BY <1>1, <1>2, <1>3, <1>5 DEF TypeOK, Start, table
<1>8. Loops'
  BY <1>1, <1>2, <1>3, <1>4, <1>5 DEF Loops, Start, table, Inserting, TypeOK
<1>9. ToMove' = {}
  BY <1>1, <1>4 DEF ToMove, Start
<1>10. Waiting' = {e} /\ placed' = FALSE /\ loading' = {}
  BY <1>1, <1>2, <1>3, <1>4 DEF Waiting, Unplaced, Inserting, Start, Loops
<1>11. \A f \in Tabled \cup {e} : obj'[f].st # "free"
  BY <1>1, <1>3, <1>5, PositionsFinite DEF Placement, Alive, TypeOK
<1>12. \A f \in Tabled : obj'[f].url = obj[f].url
  BY <1>1, <1>3, <1>6, PositionsFinite DEF TypeOK
<1>. QED BY <1>2, <1>3, <1>4, <1>6, <1>7, <1>8, <1>9, <1>10, <1>11, <1>12, KeepStep DEF table

LEMMA MergeAdoptStep ==
  ASSUME TableInv, NEW u \in Url, MergeAdopt(u)
  PROVE  TableInv'
<1>1. pc = "adopt" /\ UNCHANGED <<fold, hash, table, held, disk, loading>> /\ new' = new \ {u}
  BY DEF MergeAdopt
<1>2. TypeOK /\ Loops /\ Placement /\ Sound /\ ~Inserting
  BY <1>1 DEF TableInv, Sound, Inserting
<1>3. ToMove = {} /\ loading = {} /\ Unplaced = {} /\ Waiting = {}
  BY <1>1, <1>2, AtRest
<1>4. CASE u \in disk
  <2>1. PICK e \in Id : /\ obj[e].st = "free"
                        /\ obj' = [obj EXCEPT ![e] = NewEntry(u)]
                        /\ Start(e, "merge")
    BY <1>4 DEF MergeAdopt
  <2>2. NewEntry(u) \in EntryObject /\ NewEntry(u).st # "free" /\ NewEntry(u).url \in Url
    BY DEF NewEntry, EntryObject
  <2>3. e \in Id /\ e # Null /\ e \notin Tabled
    BY <2>1, <1>2, SlotAssumption DEF Placement, Alive
  <2>4. TypeOK'
    BY <2>1, <1>1, <1>2, <2>2 DEF TypeOK, Start, table
  <2>5. Loops'
    BY <2>1, <1>1, <1>2, <1>3, <2>2 DEF Loops, Start, table, Inserting, TypeOK
  <2>6. ToMove' = {}
    BY <2>1, <1>3 DEF ToMove, Start
  <2>7. Waiting' = {e} /\ placed' = FALSE /\ loading' = {}
    BY <2>1, <1>1, <1>2, <1>3 DEF Waiting, Unplaced, Inserting, Start, Loops
  <2>8. \A f \in Tabled \cup {e} : obj'[f].st # "free"
    BY <2>1, <1>2, <2>2, PositionsFinite DEF Placement, Alive, TypeOK
  <2>9. \A f \in Tabled : obj'[f].url = obj[f].url
    BY <2>1, <1>2, <2>3, PositionsFinite DEF TypeOK
  <2>. QED BY <1>1, <1>2, <1>3, <2>3, <2>4, <2>5, <2>6, <2>7, <2>8, <2>9, KeepStep DEF table
<1>5. CASE u \notin disk
  <2>1. UNCHANGED <<obj, pc, ins, why, retried, placed, old, i>>
    BY <1>5 DEF MergeAdopt
  <2>2. TypeOK'
    BY <2>1, <1>1, <1>2 DEF TypeOK, table
  <2>3. Loops'
    BY <2>1, <1>1, <1>2 DEF Loops, table, Inserting
  <2>4. ToMove' = {} /\ Waiting' = {}
    BY <2>1, <1>1, <1>3 DEF ToMove, Waiting, Unplaced, Inserting
  <2>5. ins' \notin loading' /\ ~placed'
    BY <2>1, <1>1, <1>2, <1>3 DEF Loops
  <2>. QED BY <1>1, <1>2, <1>3, <2>1, <2>2, <2>3, <2>4, <2>5, KeepStep DEF table, Placement, Alive
<1>. QED BY <1>4, <1>5

LEMMA LoadEntryStep ==
  ASSUME TableInv, NEW e \in Id, LoadEntry(e)
  PROVE  TableInv'
<1>1. /\ pc = "load" /\ e \in loading /\ loading' = loading \ {e} /\ Start(e, "load")
      /\ UNCHANGED <<fold, hash, table, obj, held, disk, new>>
  BY DEF LoadEntry
<1>2. TypeOK /\ Loops /\ Placement /\ Sound /\ ~Inserting
  BY <1>1 DEF TableInv, Sound, Inserting
<1>3. ToMove = {} /\ Unplaced = {} /\ Waiting = loading
  BY <1>1, <1>2, AtRest DEF Waiting
<1>4. TypeOK'
  BY <1>1, <1>2 DEF TypeOK, Start, table
<1>5. Loops'
  BY <1>1, <1>2, <1>3 DEF Loops, Start, table, Inserting
<1>6. ToMove' = {}
  BY <1>1, <1>3 DEF ToMove, Start
<1>7. Waiting' = loading /\ placed' = FALSE /\ ins' = e
  BY <1>1, <1>2, <1>3 DEF Waiting, Unplaced, Inserting, Start, Loops
<1>. QED BY <1>1, <1>2, <1>3, <1>4, <1>5, <1>6, <1>7, KeepStep DEF table, Placement, Alive, Apart

(* An entry changes without leaving the table. *)
LEMMA TouchStep ==
  ASSUME TableInv, Idle, UNCHANGED table, NEW e \in Id, obj[e].st # "free",
         NEW o \in EntryObject, o.st # "free", o.url = obj[e].url, obj' = [obj EXCEPT ![e] = o],
         held' \subseteq Id, disk' \subseteq Url
  PROVE  TableInv'
<1>1. pc = "idle" /\ UNCHANGED <<fold, hash, size, slot, count>> /\ UNCHANGED loop
  BY DEF Idle, table
<1>2. TypeOK /\ Loops /\ Placement /\ Sound /\ ~Inserting
  BY <1>1 DEF TableInv, Sound, Inserting
<1>3. ToMove = {} /\ Waiting = {} /\ loading = {}
  BY <1>1, <1>2, AtRest
<1>4. obj' \in [Id -> EntryObject]
  BY <1>2 DEF TypeOK
<1>5. TypeOK'
  BY <1>1, <1>2, <1>4 DEF TypeOK, loop
<1>6. \A f \in Id : obj'[f].url = obj[f].url /\ (obj[f].st # "free" => obj'[f].st # "free")
                    /\ (obj'[f].st # "free" => obj[f].st # "free")
  BY <1>2 DEF TypeOK
<1>7. Loops'
  BY <1>1, <1>2, <1>6 DEF Loops, loop, Inserting
<1>8. ToMove' = {} /\ Waiting' = {}
  BY <1>1, <1>3 DEF ToMove, Waiting, Unplaced, Inserting, loop
<1>9. ins' \notin loading' /\ ~placed'
  BY <1>1, <1>2, <1>3 DEF Loops, loop
<1>. QED BY <1>1, <1>2, <1>3, <1>5, <1>6, <1>7, <1>8, <1>9, PositionsFinite, KeepStep
            DEF Placement, Alive

(* The entries a lookup finds. *)
LEMMA ProbeStored ==
  ASSUME TypeOK, size > 0, NEW u \in Url, NEW p \in Probe(u)
  PROVE  p \in Stored /\ Same(obj[slot[p]].url, u) /\ slot[p] \in Id
<1>1. PICK d \in 0..size + 1 : p = Pos(u, d) /\ FindStops(u, d)
  BY DEF Probe
<1>2. d \in Nat
  BY DEF TypeOK
<1>3. p \in 0..size - 1
  BY <1>1, <1>2, PosType
<1>. QED BY <1>1, <1>3 DEF FindStops, Matches, Valid, Stored

LEMMA RequestLStep ==
  ASSUME TableInv, NEW u \in Url, RequestL(u)
  PROVE  TableInv'
<1>1. PICK e \in Find(u) : /\ obj[e].st = "complete"
                           /\ obj' = [obj EXCEPT ![e].st = "requesting"]
                           /\ held' = held \cup {e}
  BY DEF RequestL
<1>2. Idle /\ UNCHANGED <<table, disk>>
  BY DEF RequestL
<1>3. TypeOK /\ size > 0
  BY <1>2 DEF TableInv, Idle, Loops, TypeOK
<1>4. e \in Id
  BY <1>3, ProbeStored DEF Find
<1> DEFINE o == [obj[e] EXCEPT !.st = "requesting"]
<1>5. o \in EntryObject /\ o.st # "free" /\ o.url = obj[e].url
  BY <1>3, <1>4 DEF TypeOK, EntryObject
<1>6. obj' = [obj EXCEPT ![e] = o]
  BY <1>1
<1>7. held' \subseteq Id /\ disk' \subseteq Url
  BY <1>1, <1>2, <1>3, <1>4 DEF TypeOK
<1>. QED
  <2> HIDE DEF o
  <2>. QED BY <1>1, <1>2, <1>4, <1>5, <1>6, <1>7, TouchStep

LEMMA ResponseCompleteStep ==
  ASSUME TableInv, NEW e \in Id, ResponseComplete(e)
  PROVE  TableInv'
<1>1. PICK b \in {"mem", "none"} : obj' = [obj EXCEPT ![e].st = "complete", ![e].body = b]
  BY DEF ResponseComplete
<1>2. Idle /\ UNCHANGED <<table, disk>> /\ obj[e].st = "new" /\ held' = held \ {e}
  BY DEF ResponseComplete
<1>3. TypeOK
  BY DEF TableInv
<1> DEFINE n == [obj[e] EXCEPT !.st = "complete"]
           o == [n EXCEPT !.body = b]
<1>4. n \in EntryObject /\ n.st = "complete" /\ n.url = obj[e].url
  BY <1>3 DEF TypeOK, EntryObject
<1>5. o \in EntryObject /\ o.st # "free" /\ o.url = obj[e].url
  <2> HIDE DEF n
  <2>. QED BY <1>4 DEF EntryObject
<1>6. obj' = [obj EXCEPT ![e] = o]
  BY <1>1, <1>3 DEF TypeOK
<1>7. held' \subseteq Id /\ disk' \subseteq Url
  BY <1>2, <1>3 DEF TypeOK
<1>. QED
  <2> HIDE DEF o
  <2>. QED BY <1>2, <1>5, <1>6, <1>7, TouchStep

LEMMA FlushStep ==
  ASSUME TableInv, NEW e \in Id, Flush(e)
  PROVE  TableInv'
<1>1. /\ Idle /\ UNCHANGED <<table, held>> /\ obj[e].st # "free"
      /\ obj' = [obj EXCEPT ![e].body = "file"] /\ disk' = disk \cup {obj[e].url}
  BY DEF Flush
<1>2. TypeOK /\ Loops
  BY DEF TableInv
<1> DEFINE o == [obj[e] EXCEPT !.body = "file"]
<1>3. o \in EntryObject /\ o.st # "free" /\ o.url = obj[e].url
  BY <1>1, <1>2 DEF TypeOK, EntryObject
<1>4. obj' = [obj EXCEPT ![e] = o]
  BY <1>1
<1>5. held' \subseteq Id /\ disk' \subseteq Url
  BY <1>1, <1>2 DEF TypeOK, Loops
<1>. QED
  <2> HIDE DEF o
  <2>. QED BY <1>1, <1>3, <1>4, <1>5, TouchStep

LEMMA RequestClosedStep ==
  ASSUME TableInv, NEW e \in Id, RequestClosed(e)
  PROVE  TableInv'
<1>1. /\ Idle /\ UNCHANGED <<table, disk>> /\ obj[e].st = "requesting"
      /\ obj' = [obj EXCEPT ![e].st = "complete"] /\ held' = held \ {e}
  BY DEF RequestClosed
<1>2. TypeOK
  BY DEF TableInv
<1> DEFINE o == [obj[e] EXCEPT !.st = "complete"]
<1>3. o \in EntryObject /\ o.st # "free" /\ o.url = obj[e].url
  BY <1>1, <1>2 DEF TypeOK, EntryObject
<1>4. obj' = [obj EXCEPT ![e] = o]
  BY <1>1
<1>5. held' \subseteq Id /\ disk' \subseteq Url
  BY <1>1, <1>2 DEF TypeOK
<1>. QED
  <2> HIDE DEF o
  <2>. QED BY <1>1, <1>3, <1>4, <1>5, TouchStep

(* Entries leave the table: their slots become tombstones, which keep every
   probe that passed them going. *)
LEMMA EraseSet ==
  ASSUME TableInv, Sound, ~Inserting, pc # "load", TypeOK', Loops', pc' = pc,
         NEW gone \in SUBSET Stored,
         UNCHANGED <<fold, hash, size, ins, placed, old, loading>>,
         slot' = [p \in 0..size - 1 |-> IF p \in gone THEN Deleted ELSE slot[p]],
         count' = count - Cardinality(gone),
         obj' = [e \in Id |-> IF \E p \in gone : slot[p] = e THEN NoEntry ELSE obj[e]]
  PROVE  /\ TableInv'
         /\ Tabled' = Tabled \ {slot[p] : p \in gone}
         /\ \A e \in Tabled' : obj'[e] = obj[e]
<1>1. TypeOK /\ Loops /\ Placement /\ CountSum
  BY DEF TableInv
<1>2. ToMove = {} /\ Waiting = {} /\ loading = {}
  BY <1>1, AtRest DEF Inserting
<1>3. ToMove' = {} /\ Waiting' = {} /\ loading' = {}
  <2>1. ToMove' = {}
    BY <1>1, NoTableFacts DEF Loops, ToMove, Inserting
  <2>. QED BY <1>2, <2>1 DEF Waiting, Unplaced, Inserting
<1>4. Stored' = Stored \ gone
  <2>1. ASSUME NEW p \in 0..size - 1
        PROVE  (slot'[p] \in Id) <=> (slot[p] \in Id /\ p \notin gone)
    BY <1>1, SlotAssumption
  <2>. QED BY <2>1 DEF Stored, Valid
<1>5. \A p \in Stored' : p \in Stored /\ slot'[p] = slot[p] /\ p \in 0..size - 1 /\ slot[p] \in Id
  BY <1>4 DEF Stored, Valid
<1>6. \A p \in Stored' : obj'[slot[p]] = obj[slot[p]]
  <2> TAKE p \in Stored'
  <2>1. p \in Stored /\ slot[p] \in Id /\ p \notin gone
    BY <1>4, <1>5
  <2>2. ~\E q \in gone : slot[q] = slot[p]
    BY <1>1, <2>1 DEF Placement, Inj
  <2>. QED BY <2>1, <2>2
<1>7. Tabled' = {slot[p] : p \in Stored'} /\ \A p \in Stored' : slot[p] \in Tabled
  BY <1>3, <1>5 DEF Tabled
<1>8. Inj'
  BY <1>1, <1>3, <1>5 DEF Placement, Inj
<1>9. Apart'
  <2>1. ins' \notin loading'
    BY <1>3
  <2>. QED BY <1>3, <2>1 DEF Apart
<1>10. Alive'
  <2>1. \A e \in Tabled' \cup Waiting' : obj'[e].st # "free"
    BY <1>1, <1>3, <1>6, <1>7 DEF Placement, Alive
  <2>2. ~placed'
    BY <1>1 DEF Loops
  <2>. QED BY <2>1, <2>2 DEF Alive
<1>11. Reach'
  <2> SUFFICES ASSUME NEW p \in Stored'
               PROVE  \E c \in 0..size' :
                        /\ p = Pos(obj[slot[p]].url, c)'
                        /\ \A d \in 0..c - 1 : slot'[Pos(obj[slot[p]].url, d)'] # Null
    BY DEF Reach
  <2>1. p \in Stored /\ slot'[p] = slot[p] /\ obj'[slot[p]] = obj[slot[p]]
    BY <1>5, <1>6
  <2>2. PICK c \in 0..size : /\ p = Pos(obj[slot[p]].url, c)
                             /\ \A d \in 0..c - 1 : slot[Pos(obj[slot[p]].url, d)] # Null
    BY <1>1, <2>1 DEF Placement, Reach
  <2>3. \A d : Pos(obj[slot[p]].url, d)' = Pos(obj[slot[p]].url, d)
    BY <2>1 DEF Pos
  <2>4. obj[slot[p]].url \in Url /\ size > 0
    <3>1. slot[p] \in Id /\ p \in 0..size - 1 /\ size \in Nat
      BY <1>1, <1>5 DEF TypeOK
    <3>2. obj[slot[p]].st # "free"
      BY <1>1, <1>7 DEF Placement, Alive
    <3>. QED BY <1>1, <3>1, <3>2 DEF Loops
  <2>5. ASSUME NEW d \in 0..c - 1 PROVE slot'[Pos(obj[slot[p]].url, d)] # Null
    <3>1. d \in Nat
      BY <1>1 DEF TypeOK
    <3>2. Pos(obj[slot[p]].url, d) \in 0..size - 1
      BY <1>1, <2>4, <3>1, PosType
    <3>. QED BY <2>2, <2>5, <3>2, SlotAssumption
  <2>. QED BY <2>2, <2>3, <2>5
<1>12. CountSum'
  <2>1. /\ IsFiniteSet(Stored) /\ IsFiniteSet(gone) /\ Cardinality(gone) \in Nat
        /\ Cardinality(Stored) \in Nat
    BY <1>1, PositionsFinite, FS_Subset, FS_CardinalityType
  <2>2. Stored \cap gone = gone
    OBVIOUS
  <2>3. Cardinality(Stored') = Cardinality(Stored) - Cardinality(gone)
    BY <1>4, <2>1, <2>2, FS_Difference, ZenonT(60)
  <2>4. Cardinality({}) = 0
    BY FS_EmptySet
  <2>5. size > 0 => count = Cardinality(Stored) /\ count <= size \div 2
    BY <1>1, <1>2, <2>1, <2>4 DEF CountSum, Sound
  <2>6. size > 0 => count' = Cardinality(Stored') /\ count' <= size \div 2
    <3>1. count' <= count
      BY <1>1, <2>1 DEF TypeOK
    <3>2. size \div 2 \in Int /\ count \in Int /\ count' \in Int
      BY <1>1 DEF TypeOK
    <3>. QED BY <2>1, <2>3, <2>5, <3>1, <3>2
  <2>. QED BY <1>1, <1>3, <2>1, <2>3, <2>4, <2>6 DEF CountSum, TypeOK
<1>13. Tabled' = Tabled \ {slot[p] : p \in gone}
  <2>1. Tabled = {slot[p] : p \in Stored}
    BY <1>2 DEF Tabled
  <2>2. \A p \in Stored, q \in gone : slot[p] = slot[q] => p = q
    BY <1>1 DEF Placement, Inj
  <2>. QED BY <1>4, <1>7, <2>1, <2>2
<1>14. \A e \in Tabled' : obj'[e] = obj[e]
  BY <1>6, <1>7
<1>. QED BY <1>8, <1>9, <1>10, <1>11, <1>12, <1>13, <1>14 DEF TableInv, Placement

(* Erase is the case of one slot. *)
LEMMA EraseStep ==
  ASSUME TableInv, Sound, ~Inserting, pc # "load", pc' = pc,
         UNCHANGED <<fold, hash, ins, why, retried, placed, old, loading>>, i' \in Int,
         held' \subseteq Id, new' \subseteq Url,
         NEW p \in Stored, Erase(p)
  PROVE  TableInv' /\ Tabled' = Tabled \ {slot[p]} /\ \A e \in Tabled' : obj'[e] = obj[e]
<1>1. TypeOK /\ Loops /\ Placement /\ CountSum
  BY DEF TableInv
<1>2. p \in 0..size - 1 /\ slot[p] \in Id
  BY DEF Stored, Valid
<1>3. /\ slot' = [slot EXCEPT ![p] = Deleted] /\ count' = count - 1
      /\ obj' = [obj EXCEPT ![slot[p]] = NoEntry]
      /\ disk' = disk \ {obj[slot[p]].url} /\ size' = size
  BY DEF Erase, Free
<1>4. NoEntry \in EntryObject /\ NoEntry.st = "free"
  BY DEF NoEntry, EntryObject
<1>5. TypeOK'
  BY <1>1, <1>2, <1>3, <1>4 DEF TypeOK, Slot
<1>6. Loops'
  BY <1>1, <1>2, <1>3, <1>4 DEF Loops, Inserting, TypeOK
<1>7. slot' = [q \in 0..size - 1 |-> IF q \in {p} THEN Deleted ELSE slot[q]]
  BY <1>1, <1>3 DEF TypeOK
<1>8. obj' = [e \in Id |-> IF \E q \in {p} : slot[q] = e THEN NoEntry ELSE obj[e]]
  BY <1>1, <1>3 DEF TypeOK
<1>9. count' = count - Cardinality({p})
  BY <1>3, FS_Singleton
<1>10. {p} \in SUBSET Stored /\ UNCHANGED <<fold, hash, size, ins, placed, old, loading>>
  BY <1>3
<1>11. {slot[q] : q \in {p}} = {slot[p]}
  OBVIOUS
<1>. QED BY <1>5, <1>6, <1>7, <1>8, <1>9, <1>10, <1>11, EraseSet

LEMMA DeleteCacheEntryStep ==
  ASSUME TableInv, NEW e \in Id, DeleteCacheEntry(e)
  PROVE  TableInv'
<1>1. TypeOK /\ Loops /\ Placement
  BY DEF TableInv, DeleteCacheEntry, Idle, Sound
<1>2. /\ pc = "idle" /\ UNCHANGED <<fold, hash, loop>> /\ obj[e].st = "new" /\ held' = held \ {e}
      /\ Sound /\ ~Inserting /\ Idle
  BY DEF DeleteCacheEntry, Idle, Sound, Inserting
<1>3. CASE Probe(obj[e].url) = {}
  <2>1. UNCHANGED <<table, obj, disk>>
    BY <1>3 DEF DeleteCacheEntry
  <2>2. obj' = [obj EXCEPT ![e] = obj[e]] /\ obj[e] \in EntryObject
    BY <1>1, <2>1 DEF TypeOK
  <2>3. held' \subseteq Id /\ disk' \subseteq Url
    BY <1>1, <1>2, <2>1 DEF TypeOK
  <2>. QED BY <1>2, <2>1, <2>2, <2>3, TouchStep
<1>4. CASE Probe(obj[e].url) # {}
  <2>1. PICK p \in Probe(obj[e].url) : Erase(p)
    BY <1>4 DEF DeleteCacheEntry
  <2>2. obj[e].url \in Url /\ size > 0
    BY <1>1, <1>2 DEF Loops, TypeOK
  <2>3. p \in Stored
    BY <1>1, <2>2, ProbeStored
  <2>4. held' \subseteq Id /\ new' \subseteq Url /\ i' \in Int
    BY <1>1, <1>2 DEF TypeOK, loop
  <2>5. pc' = pc /\ pc # "load" /\ UNCHANGED <<fold, hash, ins, why, retried, placed, old, loading>>
    BY <1>2 DEF loop
  <2>. QED BY <1>2, <2>1, <2>3, <2>4, <2>5, EraseStep
<1>. QED BY <1>3, <1>4

LEMMA RemoveStep ==
  ASSUME TableInv, NEW u \in Url, Remove(u)
  PROVE  TableInv'
<1>1. TypeOK /\ Loops
  BY DEF TableInv
<1>2. pc = "idle" /\ UNCHANGED <<fold, hash, loop>> /\ held' = held /\ Sound /\ ~Inserting
  BY DEF Remove, Idle, Sound, Inserting
<1>3. PICK p \in Probe(u) : Erase(p)
  BY DEF Remove
<1>4. p \in Stored
  BY <1>1, <1>2, ProbeStored DEF Loops, TypeOK
<1>5. held' \subseteq Id /\ new' \subseteq Url /\ i' \in Int
  BY <1>1, <1>2 DEF TypeOK, loop
<1>6. pc' = pc /\ pc # "load" /\ UNCHANGED <<fold, hash, ins, why, retried, placed, old, loading>>
  BY <1>2 DEF loop
<1>. QED BY <1>2, <1>3, <1>4, <1>5, <1>6, EraseStep

LEMMA RemoveAllStep ==
  ASSUME TableInv, RemoveAll
  PROVE  /\ TableInv'
         /\ Tabled' = Tabled \ {e \in Tabled : obj[e].st = "complete"}
         /\ \A e \in Tabled' : obj'[e] = obj[e]
<1> DEFINE gone == {p \in 0..size - 1 : Valid(p) /\ obj[slot[p]].st = "complete"}
<1>1. TypeOK /\ Loops
  BY DEF TableInv
<1>2. /\ pc = "idle" /\ UNCHANGED <<fold, hash, loop>> /\ Sound /\ ~Inserting
      /\ slot' = [p \in 0..size - 1 |-> IF p \in gone THEN Deleted ELSE slot[p]]
      /\ count' = count - Cardinality(gone)
      /\ obj' = [e \in Id |-> IF \E p \in gone : slot[p] = e THEN NoEntry ELSE obj[e]]
      /\ disk' = disk \ {obj[slot[p]].url : p \in gone}
      /\ UNCHANGED <<size, held>>
  BY DEF RemoveAll, Idle, Sound, Inserting
<1>3. gone \in SUBSET Stored
  BY DEF Stored
<1>4. NoEntry \in EntryObject /\ NoEntry.st = "free"
  BY DEF NoEntry, EntryObject
<1>5. {slot[p] : p \in gone} = {e \in Tabled : obj[e].st = "complete"}
  <2>1. ToMove = {}
    BY <1>1, <1>2, AtRest
  <2>. QED BY <2>1 DEF Tabled, Stored
<1> HIDE DEF gone
<1>6. obj' \in [Id -> EntryObject]
  BY <1>1, <1>2, <1>4 DEF TypeOK
<1>7. slot' \in [0..size' - 1 -> Slot]
  BY <1>1, <1>2 DEF TypeOK, Slot
<1>8. IsFiniteSet(gone) /\ Cardinality(gone) \in Nat
  BY <1>1, <1>3, PositionsFinite, FS_Subset, FS_CardinalityType
<1>9. count' \in Int
  BY <1>1, <1>2, <1>8 DEF TypeOK
<1>10. TypeOK'
  BY <1>1, <1>2, <1>6, <1>7, <1>9 DEF TypeOK, loop
<1>11. \A e \in Id : obj'[e].st # "free" => obj'[e].url \in Url
  BY <1>1, <1>2, <1>4 DEF Loops
<1>12. Loops'
  BY <1>1, <1>2, <1>11 DEF Loops, loop, Inserting
<1>. QED BY <1>2, <1>3, <1>10, <1>12, <1>5, EraseSet DEF loop

(* The loops of MergeL and of InternalizeL go on and end. *)
LEMMA WalkStep ==
  ASSUME TableInv, Sound, ~Inserting, pc = "load" => loading = {},
         pc' \in {"idle", "drop", "adopt"}, i' \in Int, new' \subseteq Url, disk' \subseteq Url,
         UNCHANGED <<fold, hash, table, obj, held, ins, why, retried, placed, old, loading>>
  PROVE  TableInv'
<1>1. TypeOK /\ Loops /\ Placement
  BY DEF TableInv
<1>2. ToMove = {} /\ Waiting = {} /\ loading = {}
  BY <1>1, AtRest DEF Inserting, Waiting
<1>3. TypeOK'
  BY <1>1 DEF TypeOK, table
<1>4. Loops'
  BY <1>1, <1>2 DEF Loops, Inserting, table, Sound
<1>5. ToMove' = {}
  BY <1>1, NoTableFacts DEF Loops, ToMove, Inserting
<1>6. Waiting' = {} /\ ins' \notin loading' /\ ~placed'
  BY <1>1, <1>2 DEF Waiting, Unplaced, Inserting, Loops
<1>. QED BY <1>1, <1>2, <1>3, <1>4, <1>5, <1>6, KeepStep DEF table, Placement, Alive

LEMMA MergeDropStep ==
  ASSUME TableInv, NEW p \in 0..size - 1, MergeDrop(p)
  PROVE  TableInv'
<1> DEFINE u == obj[slot[p]].url
<1>1. TypeOK /\ Loops /\ Placement
  BY DEF TableInv, MergeDrop, Sound
<1>2. /\ pc = "drop" /\ Sound /\ ~Inserting /\ Valid(p) /\ i' = p - 1
      /\ UNCHANGED <<fold, hash, held, pc, ins, why, retried, placed, old, loading>>
  BY DEF MergeDrop, Sound, Inserting
<1>3. p \in Stored /\ slot[p] \in Id /\ slot[p] \in Tabled /\ size > 0
  BY <1>1, <1>2 DEF Stored, Valid, Tabled, TypeOK
<1>4. u \in Url
  BY <1>1, <1>3 DEF Placement, Alive, Loops
<1>5. held' \subseteq Id /\ i' \in Int
  BY <1>1, <1>2 DEF TypeOK
<1>6. \/ /\ new' \in {new, new \ {u}} /\ UNCHANGED <<table, obj, disk>>
      \/ new' = new /\ \E q \in Probe(u) : Erase(q)
  BY DEF MergeDrop
<1> HIDE DEF u
<1>7. CASE new' \in {new, new \ {u}} /\ UNCHANGED <<table, obj, disk>>
  <2>1. new' \subseteq Url /\ disk' \subseteq Url
    BY <1>1, <1>7 DEF TypeOK
  <2>. QED BY <1>2, <1>5, <1>7, <2>1, WalkStep
<1>8. CASE new' = new /\ \E q \in Probe(u) : Erase(q)
  <2>1. PICK q \in Probe(u) : Erase(q)
    BY <1>8
  <2>2. q \in Stored
    BY <1>1, <1>3, <1>4, ProbeStored
  <2>3. new' \subseteq Url
    BY <1>1, <1>8 DEF TypeOK
  <2>. QED BY <1>2, <1>5, <2>1, <2>2, <2>3, EraseStep
<1>. QED BY <1>6, <1>7, <1>8

LEMMA WalkSteps ==
  ASSUME TableInv, MergeL \/ MergeDropped \/ MergeDone \/ LoadDone
  PROVE  TableInv'
<1>1. TypeOK
  BY DEF TableInv
<1>2. CASE MergeL
  <2>1. /\ pc = "idle" /\ pc' = "drop" /\ i' = size - 1 /\ new' \subseteq Url /\ disk' \subseteq Url
        /\ UNCHANGED <<fold, hash, table, obj, held, ins, why, retried, placed, old, loading>>
    BY <1>2 DEF MergeL
  <2>2. i' \in Int
    BY <1>1, <2>1 DEF TypeOK
  <2>. QED BY <2>1, <2>2, WalkStep DEF Sound, Inserting
<1>3. CASE MergeDropped
  BY <1>1, <1>3, WalkStep DEF MergeDropped, Sound, Inserting, TypeOK
<1>4. CASE MergeDone
  BY <1>1, <1>4, WalkStep DEF MergeDone, Sound, Inserting, TypeOK
<1>5. CASE LoadDone
  BY <1>1, <1>5, WalkStep DEF LoadDone, Sound, Inserting, TypeOK
<1>. QED BY <1>2, <1>3, <1>4, <1>5

(* A table with nothing in it: the cache is opened. *)
Opened ==
  /\ TypeOK /\ Loops
  /\ size = InitialSize /\ slot = [p \in 0..InitialSize - 1 |-> Null] /\ count = 0
  /\ pc \in {"idle", "load"} /\ \A e \in loading : obj[e].st # "free"

LEMMA OpenedTable == Opened => TableInv
<1> SUFFICES ASSUME Opened PROVE TableInv
  OBVIOUS
<1>. USE DEF Opened
<1>1. Stored = {}
  BY SlotAssumption DEF Stored, Valid
<1>2. ToMove = {} /\ Unplaced = {} /\ ins = Null /\ ~placed
  BY AtRest DEF Inserting, Loops
<1>3. Tabled = {} /\ Waiting = loading
  BY <1>1, <1>2 DEF Tabled, Waiting
<1>4. Inj /\ Reach
  BY <1>1, <1>2 DEF Inj, Reach
<1>5. Apart /\ Alive
  BY <1>2, <1>3, SlotAssumption DEF Apart, Alive, TypeOK
<1>6. Cardinality({}) = 0 /\ 0 <= size \div 2
  BY FS_EmptySet DEF TypeOK
<1>7. CountSum
  BY <1>1, <1>2, <1>6 DEF CountSum
<1>. QED BY <1>4, <1>5, <1>7 DEF TableInv, Placement

LEMMA InitTable ==
  ASSUME Init
  PROVE  TableInv
<1>1. NoEntry \in EntryObject /\ NoEntry.st = "free"
  BY DEF NoEntry, EntryObject
<1>2. fold \in [Url -> Url] /\ hash \in [Url -> Nat]
  BY SizeAssumption DEF Init
<1>3. old = NoTable /\ DOMAIN old = {} /\ old \in [DOMAIN old -> Slot]
  BY NoTableFacts DEF Init
<1>4. slot \in [0..size - 1 -> Slot] /\ size \in Nat \ {0}
  BY SizeAssumption DEF Init, Slot
<1>5. obj \in [Id -> EntryObject] /\ \A e \in Id : obj[e].st = "free"
  BY <1>1 DEF Init
<1>6. TypeOK
  <2>1. /\ count = 0 /\ held = {} /\ disk = {} /\ pc = "idle" /\ ins = Null /\ why = "url"
        /\ retried = FALSE /\ placed = FALSE /\ i = 0 /\ new = {} /\ loading = {}
    BY DEF Init
  <2>2. DOMAIN old \subseteq Nat /\ old \in [DOMAIN old -> Slot]
    BY <1>3
  <2>3. /\ count \in Int /\ i \in Int /\ ins \in Id \cup {Null}
        /\ why \in {"url", "merge", "load"}
        /\ pc \in {"idle", "probe", "rehash", "drop", "adopt", "load", "dangling", "noslots", "panic"}
        /\ held \subseteq Id /\ disk \subseteq Url /\ new \subseteq Url /\ loading \subseteq Id
    BY <2>1
  <2>4. retried \in BOOLEAN /\ placed \in BOOLEAN
    BY <2>1, Zenon
  <2>5. size \in Nat
    BY <1>4
  <2>. QED BY <1>2, <1>4, <1>5, <2>2, <2>3, <2>5, <2>4, Zenon DEF TypeOK
<1>7. DOMAIN old = 0..(0 - 1)
  BY <1>3
<1>8. Loops
  BY <1>3, <1>4, <1>5, <1>7 DEF Init, Loops, Inserting
<1>9. Opened
  BY <1>6, <1>8 DEF Init, Opened
<1>. QED BY <1>9, OpenedTable

LEMMA ReloadStep ==
  ASSUME TableInv, Reload
  PROVE  TableInv'
<1> DEFINE saved == {e \in {slot[p] : p \in {q \in 0..size - 1 : Valid(q)}} : obj[e].body # "none"}
<1>1. TypeOK /\ Loops /\ Placement
  BY DEF TableInv, Reload, Sound
<1>2. /\ pc = "idle" /\ pc' = "load" /\ loading' = saved
      /\ size' = InitialSize /\ slot' = [p \in 0..InitialSize - 1 |-> Null] /\ count' = 0
      /\ obj' = [e \in Id |-> IF e \in saved THEN Reread(e) ELSE NoEntry]
      /\ UNCHANGED <<fold, hash, held, ins, why, retried, placed, old, i, new>>
  BY DEF Reload
<1>3. disk' = disk \cup {obj[e].url : e \in {f \in saved : obj[f].body = "mem"}}
  BY DEF Reload
<1>4. \A e \in saved : e \in Id /\ obj[e].st # "free" /\ obj[e].url \in Url
  <2>1. \A e \in saved : e \in Id /\ e \in Tabled
    BY DEF Valid, Tabled, Stored
  <2> HIDE DEF saved
  <2>. QED BY <1>1, <2>1 DEF Placement, Alive, Loops
<1> HIDE DEF saved
<1>5. NoEntry \in EntryObject /\ NoEntry.st = "free"
  BY DEF NoEntry, EntryObject
<1>6. \A e \in saved : /\ Reread(e) \in EntryObject
                       /\ Reread(e).st = "complete"
                       /\ Reread(e).url = obj[e].url
  BY <1>1, <1>4 DEF TypeOK, EntryObject, Reread
<1>7. \A e \in Id : obj'[e] \in EntryObject
                    /\ (obj'[e].st # "free" => obj'[e].url \in Url)
                    /\ (e \in saved => obj'[e].st # "free")
  BY <1>2, <1>4, <1>5, <1>6
<1>8. obj' \in [Id -> EntryObject] /\ disk' \subseteq Url /\ loading' \subseteq Id
  BY <1>1, <1>2, <1>3, <1>4, <1>7 DEF TypeOK
<1>9. TypeOK'
  BY <1>1, <1>2, <1>8, SizeAssumption DEF TypeOK, Slot
<1>10. Loops'
  BY <1>1, <1>2, <1>7, SizeAssumption DEF Loops, Inserting
<1>11. \A e \in loading' : obj'[e].st # "free"
  BY <1>2, <1>4, <1>7
<1>12. Opened'
  BY <1>2, <1>9, <1>10, <1>11 DEF Opened
<1>. QED BY <1>12, OpenedTable, PTL

LEMMA LoadLeavesStep ==
  ASSUME TableInv, LoadLeaves
  PROVE  TableInv'
<1>1. TypeOK /\ Loops
  BY DEF TableInv
<1>2. /\ pc = "load" /\ pc' = "idle" /\ loading' = {}
      /\ size' = InitialSize /\ slot' = [p \in 0..InitialSize - 1 |-> Null] /\ count' = 0
      /\ obj' = [e \in Id |-> NoEntry]
      /\ UNCHANGED <<fold, hash, held, disk, ins, why, retried, placed, old, i, new>>
  BY DEF LoadLeaves
<1>3. NoEntry \in EntryObject /\ NoEntry.st = "free"
  BY DEF NoEntry, EntryObject
<1>4. TypeOK'
  BY <1>1, <1>2, <1>3, SizeAssumption DEF TypeOK, Slot
<1>5. Loops'
  BY <1>1, <1>2, <1>3, SizeAssumption DEF Loops, Inserting
<1>6. Opened'
  BY <1>2, <1>4, <1>5 DEF Opened
<1>. QED BY <1>6, OpenedTable, PTL

(* An entry is stored in the free slot its probes end at. *)
LEMMA StoreAt ==
  ASSUME TypeOK, Loops, size > 0, Reach, NEW e \in Id, obj[e].url \in Url, NEW c \in 0..size \div 2,
         InsertStops(obj[e].url, c), NEW p, p = Pos(obj[e].url, c), ~Valid(p),
         slot' = [slot EXCEPT ![p] = e], UNCHANGED <<fold, hash, size>>,
         \A f \in {slot[q] : q \in Stored} \cup {e} : obj'[f].url = obj[f].url /\ obj[f].url \in Url
  PROVE  /\ p \in 0..size - 1 /\ p \notin Stored /\ Stored' = Stored \cup {p}
         /\ slot'[p] = e /\ \A q \in Stored : slot'[q] = slot[q]
         /\ Cardinality(Stored') = Cardinality(Stored) + 1
         /\ Reach'
<1>1. size \in Nat /\ slot \in [0..size - 1 -> Slot] /\ c \in Nat /\ c \in 0..size
  BY DEF TypeOK
<1>2. p \in 0..size - 1 /\ p \notin Stored
  BY <1>1, PosType DEF Stored
<1>3. \A q \in 0..size - 1 : slot'[q] = IF q = p THEN e ELSE slot[q]
  BY <1>1, <1>2
<1>4. Stored' = Stored \cup {p}
  BY <1>1, <1>2, <1>3 DEF Stored, Valid
<1>5. slot'[p] = e /\ \A q \in Stored : slot'[q] = slot[q] /\ q \in 0..size - 1 /\ slot[q] \in Id
  BY <1>2, <1>3 DEF Stored, Valid
<1>6. Cardinality(Stored') = Cardinality(Stored) + 1
  BY <1>2, <1>4, OneMore, PositionsFinite
<1>7. \A q \in 0..size - 1 : slot[q] # Null => slot'[q] # Null
  BY <1>3, SlotAssumption
<1>8. \A u \in Url, d \in Nat : Pos(u, d) \in 0..size - 1 /\ Pos(u, d)' = Pos(u, d)
  <2> TAKE u \in Url, d \in Nat
  <2>1. Pos(u, d) \in 0..size - 1
    BY PosType
  <2>2. Pos(u, d)' = Pos(u, d)
    BY DEF Pos
  <2>. QED BY <2>1, <2>2
<1>9. ASSUME NEW q \in Stored
      PROVE  \E b \in 0..size :
               /\ q = Pos(obj[slot[q]].url, b)
               /\ \A d \in 0..b - 1 : slot'[Pos(obj[slot[q]].url, d)] # Null
  <2>1. PICK b \in 0..size : /\ q = Pos(obj[slot[q]].url, b)
                             /\ \A d \in 0..b - 1 : slot[Pos(obj[slot[q]].url, d)] # Null
    BY DEF Reach
  <2>2. obj[slot[q]].url \in Url /\ b \in Nat
    BY <1>1
  <2>. QED BY <1>7, <1>8, <2>1, <2>2
<1>10. /\ p = Pos(obj[e].url, c)
       /\ \A d \in 0..c - 1 : slot'[Pos(obj[e].url, d)] # Null
  <2>1. ASSUME NEW d \in 0..c - 1 PROVE slot'[Pos(obj[e].url, d)] # Null
    <3>1. Pos(obj[e].url, d) \in 0..size - 1
      BY <1>1, <1>8
    <3>2. slot[Pos(obj[e].url, d)] \in Id
      BY DEF InsertStops, Valid
    <3>. QED BY <1>7, <3>1, <3>2, SlotAssumption
  <2>. QED BY <2>1
<1>11. ASSUME NEW q \in Stored'
       PROVE  \E b \in 0..size' : /\ q = Pos(obj[slot[q]].url, b)'
                                  /\ \A d \in 0..b - 1 : slot'[Pos(obj[slot[q]].url, d)'] # Null
  <2>1. CASE q \in Stored
    <3>1. obj'[slot'[q]].url = obj[slot[q]].url /\ obj[slot[q]].url \in Url
      BY <1>5, <2>1
    <3>2. \A d \in Nat : Pos(obj[slot[q]].url, d)' = Pos(obj[slot[q]].url, d)
      BY <3>1 DEF Pos
    <3>. QED BY <1>1, <1>9, <2>1, <3>2
  <2>2. CASE q = p
    <3>1. obj'[slot'[q]].url = obj[e].url
      BY <1>5, <2>2
    <3>2. \A d \in Nat : Pos(obj[slot[q]].url, d)' = Pos(obj[e].url, d)
      BY <3>1 DEF Pos
    <3>. QED BY <1>1, <1>10, <2>2, <3>2
  <2>. QED BY <1>4, <2>1, <2>2
<1>12. Reach'
  BY <1>11 DEF Reach
<1>. QED BY <1>2, <1>4, <1>5, <1>6, <1>12

(* While ReHashL has an entry to move, the new table has a free slot for it. *)
LEMMA RehashMoveStep ==
  ASSUME TableInv, NEW c \in 0..size \div 2, NEW k \in ToMove, RehashMove(k, c)
  PROVE  TableInv' /\ Tabled' = Tabled /\ Waiting' = Waiting
<1> DEFINE e == old[k]
           p == Pos(obj[old[k]].url, c)
<1>1. TypeOK /\ Loops /\ Placement /\ CountSum /\ pc = "rehash" /\ Prime(size) /\ size > 0
  <2>1. TypeOK /\ Loops /\ Placement /\ CountSum /\ pc = "rehash"
    BY DEF TableInv, RehashMove, Sound
  <2>. QED BY <2>1 DEF Loops, Prime
<1>2. /\ \A j \in ToMove : k <= j
      /\ InsertStops(obj[e].url, c)
      /\ slot' = IF Valid(p) THEN slot ELSE [slot EXCEPT ![p] = e]
      /\ i' = k + 1
      /\ UNCHANGED <<fold, hash, size, count, obj, held, disk, pc, ins, why, retried, placed, old, new, loading>>
  BY DEF RehashMove
<1>3. e \in Id /\ e \in Tabled /\ k \in Nat /\ k \in DOMAIN old
  BY <1>1 DEF ToMove, Tabled, TypeOK
<1>4. \A f \in Tabled : obj[f].url \in Url
  BY <1>1, PositionsFinite DEF Placement, Alive, Loops
<1>5. obj[e].url \in Url
  BY <1>3, <1>4
<1>6. /\ IsFiniteSet(Stored) /\ Cardinality(Stored) \in Nat
      /\ IsFiniteSet(ToMove) /\ Cardinality(ToMove) \in Nat
  BY <1>1, PositionsFinite
<1>7. Cardinality(ToMove \ {k}) = Cardinality(ToMove) - 1 /\ Cardinality(ToMove \ {k}) \in Nat
  BY <1>6, OneLess, FS_CardinalityType
<1>8. count = Cardinality(Stored) + Cardinality(ToMove) /\ count <= size \div 2
  BY <1>1 DEF CountSum
<1>9. Cardinality(Stored) <= size \div 2
  BY <1>1, <1>6, <1>7, <1>8 DEF TypeOK
<1>10. ~Valid(p)
  <2>1. PICK n \in Nat : n = size \div 2
    BY <1>1 DEF TypeOK
  <2>2. PICK b \in 0..n : ~Valid(Pos(obj[e].url, b))
    BY <1>1, <1>5, <1>9, <2>1, SlotFound
  <2>3. c \in 0..n
    BY <2>1
  <2>4. c < n => ~Valid(p)
    BY <1>2, <2>1 DEF InsertStops
  <2>5. \A d \in 0..c - 1 : Valid(Pos(obj[e].url, d))
    BY <1>2 DEF InsertStops
  <2>6. c = n => b = c
    BY <2>2, <2>3, <2>5
  <2>. QED BY <2>2, <2>3, <2>4, <2>6
<1>11. \A f \in {slot[q] : q \in Stored} \cup {e} : obj'[f].url = obj[f].url /\ obj[f].url \in Url
  BY <1>2, <1>3, <1>4 DEF Tabled
<1>12. /\ p \in 0..size - 1 /\ p \notin Stored /\ Stored' = Stored \cup {p}
       /\ slot'[p] = e /\ \A q \in Stored : slot'[q] = slot[q]
       /\ Cardinality(Stored') = Cardinality(Stored) + 1
       /\ Reach'
  <2>1. slot' = [slot EXCEPT ![p] = e] /\ UNCHANGED <<fold, hash, size>> /\ Reach
    BY <1>1, <1>2, <1>10 DEF Placement
  <2>2. InsertStops(obj[e].url, c) /\ p = Pos(obj[e].url, c)
    BY <1>2
  <2> HIDE DEF p, e
  <2>. QED BY <1>1, <1>3, <1>5, <1>10, <1>11, <2>1, <2>2, StoreAt, ZenonT(60)
<1>13. ToMove' = ToMove \ {k}
  <2>1. \A j \in DOMAIN old : (j >= k + 1 /\ old[j] \in Id) <=> (j >= i /\ old[j] \in Id /\ j # k)
    <3> TAKE j \in DOMAIN old
    <3>1. j \in Nat /\ i \in Int /\ k >= i
      BY <1>1 DEF TypeOK, ToMove
    <3>2. j >= i /\ old[j] \in Id => k <= j
      BY <1>2 DEF ToMove
    <3>. QED BY <1>3, <3>1, <3>2
  <2>. QED BY <1>2, <2>1 DEF ToMove
<1>14. Tabled' = Tabled
  <2>1. {slot'[q] : q \in Stored'} = {slot[q] : q \in Stored} \cup {e}
    BY <1>12
  <2>2. {old'[j] : j \in ToMove'} \cup {e} = {old[j] : j \in ToMove}
    BY <1>2, <1>13
  <2> HIDE DEF e
  <2>. QED BY <2>1, <2>2 DEF Tabled
<1>15. Inj'
  <2>1. \A q \in Stored : slot[q] # e
    BY <1>1 DEF Placement, Inj
  <2>2. \A a, b \in Stored' : slot'[a] = slot'[b] => a = b
    BY <1>1, <1>12, <2>1 DEF Placement, Inj
  <2>3. \A a, b \in ToMove' : old'[a] = old'[b] => a = b
    BY <1>1, <1>2, <1>13 DEF Placement, Inj
  <2>4. \A q \in Stored', j \in ToMove' : slot'[q] # old'[j]
    BY <1>1, <1>2, <1>12, <1>13 DEF Placement, Inj
  <2>. QED BY <2>2, <2>3, <2>4 DEF Inj
<1>16. Waiting' = Waiting
  BY <1>2 DEF Waiting, Unplaced, Inserting
<1>17. Apart' /\ Alive'
  BY <1>1, <1>2, <1>14, <1>16 DEF Placement, Apart, Alive
<1>18. CountSum'
  <2>1. Cardinality(ToMove') = Cardinality(ToMove) - 1
    BY <1>7, <1>13
  <2>2. count' = Cardinality(Stored') + Cardinality(ToMove') /\ count' <= size' \div 2
    BY <1>2, <1>6, <1>8, <1>12, <2>1
  <2>. QED BY <2>2 DEF CountSum
<1>19. TypeOK'
  <2>1. slot' \in [0..size' - 1 -> Slot]
    BY <1>1, <1>2, <1>3 DEF TypeOK, Slot
  <2>2. i' \in Int
    BY <1>2, <1>3
  <2> HIDE DEF p, e
  <2>. QED BY <1>1, <1>2, <2>1, <2>2 DEF TypeOK
<1>20. Loops'
  BY <1>1, <1>2 DEF Loops, Inserting
<1>. QED BY <1>12, <1>14, <1>15, <1>16, <1>17, <1>18, <1>19, <1>20 DEF TableInv, Placement

(* InsertL returns with its entry in the table, or leaves with the entry
   deleted behind the table's back. *)
LEMMA InsertedFacts ==
  ASSUME TypeOK, Loops, Inserting, Inserted
  PROVE  /\ obj' \in [Id -> EntryObject]
         /\ \A e \in Id : /\ obj'[e].url = obj[e].url
                          /\ obj[e].st # "free" => obj'[e].st # "free"
                          /\ obj'[e].st # "free" => obj'[e].url \in Url \/ e = ins
         /\ held' \subseteq Id /\ disk' \subseteq Url
         /\ pc' \in {"idle", "adopt", "load"} /\ (loading # {} => pc' = "load")
         /\ ins' = Null /\ why' = "url" /\ retried' = FALSE /\ placed' = FALSE
<1>1. ins \in Id
  BY DEF Loops
<1>2. obj' \in [Id -> EntryObject]
      /\ \A e \in Id : /\ obj'[e].url = obj[e].url
                       /\ obj[e].st # "free" => obj'[e].st # "free"
                       /\ obj'[e].st # "free" => obj'[e].url \in Url \/ e = ins
  <2>1. CASE why = "merge"
    <3> DEFINE o == [obj[ins] EXCEPT !.st = "complete"]
    <3>1. o \in EntryObject /\ o.st # "free" /\ o.url = obj[ins].url
      BY <1>1 DEF TypeOK, EntryObject
    <3>2. obj' = [obj EXCEPT ![ins] = o]
      BY <2>1 DEF Inserted
    <3> HIDE DEF o
    <3>3. \A e \in Id : obj'[e] = IF e = ins THEN o ELSE obj[e]
      BY <1>1, <3>2 DEF TypeOK
    <3>. QED BY <3>1, <3>2, <3>3 DEF TypeOK, Loops
  <2>2. CASE why # "merge"
    BY <2>2 DEF Inserted, TypeOK, Loops
  <2>. QED BY <2>1, <2>2
<1>3. held' \subseteq Id /\ disk' \subseteq Url
  BY <1>1 DEF Inserted, TypeOK
<1>4. pc' \in {"idle", "adopt", "load"} /\ (loading # {} => pc' = "load")
  BY DEF Inserted, Return, Loops, TypeOK, Inserting
<1>. QED BY <1>2, <1>3, <1>4 DEF Inserted, Returned

LEMMA FreeFacts ==
  ASSUME TypeOK, Loops, NEW e \in Id, obj' = Free(e)
  PROVE  /\ obj' \in [Id -> EntryObject]
         /\ \A f \in Id : obj'[f] = IF f = e THEN NoEntry ELSE obj[f]
         /\ \A f \in Id : obj'[f].st # "free" => obj'[f].url \in Url
<1>1. NoEntry \in EntryObject /\ NoEntry.st = "free"
  BY DEF NoEntry, EntryObject
<1>2. \A f \in Id : obj'[f] = IF f = e THEN NoEntry ELSE obj[f]
  BY DEF Free, TypeOK
<1>3. obj' \in [Id -> EntryObject]
  BY <1>1 DEF Free, TypeOK
<1>. QED BY <1>1, <1>2, <1>3 DEF Loops

(* ReHashL: every entry of the old table is still to be moved. *)
LEMMA BeginStep ==
  ASSUME TableInv, pc = "probe", NEW entries \in [0..size - 1 -> Slot], NEW K,
         K = {k \in 0..size - 1 : entries[k] \in Id},
         \A j, k \in K : entries[j] = entries[k] => j = k,
         \A k \in K : entries[k] \in Tabled \cup {ins},
         ReHashL(entries), UNCHANGED <<fold, hash, loading>>,
         count' = Cardinality(K), count' <= size, count' \in Int,
         retried' \in BOOLEAN, placed' \in BOOLEAN,
         placed' => \E k \in K : entries[k] = ins,
         ~placed' => \A k \in K : entries[k] # ins
  PROVE  TableInv' /\ Tabled' = {entries[k] : k \in K}
<1>1. TypeOK /\ Loops /\ Placement /\ ~placed /\ ins \in Id /\ Inserting
  BY DEF TableInv, Sound, Loops, Inserting
<1>2. PICK m \in 2 * size .. 4 * size + 3 : IsNextPrime(2 * size, m) /\ BeginRehash(entries, m)
  BY DEF ReHashL
<1>3. /\ size' = m /\ slot' = [p \in 0..m - 1 |-> Null]
      /\ old' = entries /\ i' = 0 /\ pc' = "rehash"
      /\ UNCHANGED <<obj, held, disk, ins, why, new>>
  BY <1>2 DEF BeginRehash
<1>4. size \in Nat \ {0} /\ m \in Nat /\ m >= 2 * size
  BY <1>1, <1>2 DEF Loops, TypeOK
<1>5. Prime(m)
  BY <1>2, <1>4 DEF Prime, IsNextPrime
<1>6. DOMAIN old' = 0..size - 1
  BY <1>3
<1>7. TypeOK'
  <2>1. slot' \in [0..size' - 1 -> Slot]
    BY <1>3 DEF Slot
  <2>2. old' \in [DOMAIN old' -> Slot] /\ DOMAIN old' \subseteq Nat
    BY <1>3, <1>4, <1>6
  <2>3. size' \in Nat /\ i' \in Int
    BY <1>3, <1>4
  <2>. QED BY <1>1, <1>3, <2>1, <2>2, <2>3 DEF TypeOK
<1>8. Loops'
  <2>1. \E n \in Nat : DOMAIN old' = 0..n - 1
    BY <1>4, <1>6
  <2>. QED BY <1>1, <1>3, <1>4, <1>5, <2>1 DEF Loops, Inserting
<1>9. Stored' = {}
  BY <1>3, SlotAssumption DEF Stored, Valid
<1>10. ToMove' = K
  BY <1>3, <1>4, <1>6 DEF ToMove
<1>11. Tabled' = {entries[k] : k \in K}
  BY <1>3, <1>9, <1>10 DEF Tabled
<1>12. Inj' /\ Reach'
  BY <1>3, <1>9, <1>10 DEF Inj, Reach
<1>13. Waiting = loading \cup {ins} /\ Waiting' = loading \cup (IF placed' THEN {} ELSE {ins})
  BY <1>1, <1>3 DEF Waiting, Unplaced, Inserting
<1>14. Apart'
  BY <1>1, <1>3, <1>11, <1>13 DEF Placement, Apart
<1>15. Alive'
  BY <1>1, <1>3, <1>11, <1>13 DEF Placement, Alive
<1>16. CountSum'
  <2>1. Cardinality({}) = 0 /\ m \div 2 >= size
    BY <1>4, FS_EmptySet
  <2>2. count' = Cardinality({}) + Cardinality(K) /\ count' <= m \div 2
    BY <1>4, <2>1
  <2>. QED BY <1>3, <1>9, <1>10, <2>2 DEF CountSum
<1>. QED BY <1>7, <1>8, <1>11, <1>12, <1>14, <1>15, <1>16 DEF TableInv, Placement

(* It leaves without slots. *)
LEMMA NoSlotsStep ==
  ASSUME TypeOK, Loops, pc = "probe", UNCHANGED <<fold, hash, loading>>, count' \in Int,
         why # "load", size' = 0, slot' = NoTable, pc' = "noslots",
         obj' = Free(ins), Returned, new' = {}, UNCHANGED <<held, disk, old, i>>
  PROVE  TableInv' /\ Stored' = {} /\ Tabled' = {}
<1>1. ins \in Id /\ loading = {}
  BY DEF Loops, Inserting
<1>2. obj' \in [Id -> EntryObject] /\ \A f \in Id : obj'[f].st # "free" => obj'[f].url \in Url
  BY <1>1, FreeFacts
<1>3. slot' \in [0..size' - 1 -> Slot]
  BY NoTableFacts
<1>4. ins' = Null /\ why' = "url" /\ retried' = FALSE /\ placed' = FALSE
  BY DEF Returned
<1>5. TypeOK'
  BY <1>1, <1>2, <1>3, <1>4 DEF TypeOK
<1>6. Loops'
  BY <1>1, <1>2, <1>4 DEF Loops, Inserting
<1>7. CountSum' /\ ~Sound'
  BY DEF CountSum, Sound
<1>8. Stored' = {}
  BY DEF Stored
<1>9. ToMove' = {}
  BY NoTableFacts DEF ToMove, Loops
<1>. QED BY <1>5, <1>6, <1>7, <1>8, <1>9 DEF TableInv, Tabled

(* InsertL stores its entry. *)
LEMMA PlaceStep ==
  ASSUME TableInv, NEW c \in 0..size \div 2, Place(c)
  PROVE  /\ TableInv'
         /\ Tabled' = IF pc' = "noslots" THEN {} ELSE Tabled \cup {ins}
<1> DEFINE p == Pos(obj[ins].url, c)
           entries == [slot EXCEPT ![p] = ins]
<1>1. /\ pc = "probe" /\ InsertStops(obj[ins].url, c) /\ ~Valid(p)
      /\ count' = count + 1 /\ UNCHANGED <<fold, hash, loading>>
      /\ IF count + 1 > size \div 2
         THEN \/ ReHashL(entries) /\ placed' = TRUE /\ UNCHANGED retried
              \/ ReHashLeaves(entries, TRUE)
         ELSE /\ slot' = entries
              /\ Inserted \/ InitialiseLeaves
              /\ UNCHANGED <<size, old, i, new>>
  BY DEF Place
<1>2. TypeOK /\ Loops /\ Placement /\ CountSum /\ Inserting /\ ~placed /\ old = NoTable
  BY <1>1 DEF TableInv, Sound, Loops, Inserting
<1>3. ins \in Id /\ size \in Nat \ {0} /\ ToMove = {} /\ Waiting = loading \cup {ins}
  BY <1>1, <1>2, AtRest DEF Loops, TypeOK, Waiting, Unplaced
<1>4. \A e \in Tabled \cup {ins} : e \in Id /\ obj[e].url \in Url /\ obj[e].st # "free"
  BY <1>2, <1>3, PositionsFinite DEF Placement, Alive, Loops
<1>5. ins \notin Tabled /\ ins \notin loading
  BY <1>2, <1>3 DEF Placement, Apart
<1>6. c \in Nat /\ p \in 0..size - 1 /\ p \notin Stored
  <2>1. c \in Nat
    BY <1>3
  <2>. QED BY <1>1, <1>2, <1>3, <1>4, <2>1, PosType DEF Stored
<1>7. /\ IsFiniteSet(Stored) /\ Cardinality(Stored) \in Nat /\ count = Cardinality(Stored)
      /\ count <= size \div 2 /\ Cardinality(Stored \cup {p}) = Cardinality(Stored) + 1
  <2>1. IsFiniteSet(Stored) /\ Cardinality(Stored) \in Nat
    BY <1>2, PositionsFinite
  <2>2. Cardinality({}) = 0
    BY FS_EmptySet
  <2>3. count = Cardinality(Stored) /\ count <= size \div 2
    BY <1>1, <1>2, <1>3, <2>1, <2>2 DEF CountSum
  <2> HIDE DEF p
  <2>. QED BY <1>6, <2>1, <2>3, OneMore
<1>8. entries \in [0..size - 1 -> Slot]
      /\ \A q \in 0..size - 1 : entries[q] = IF q = p THEN ins ELSE slot[q]
  BY <1>2, <1>3, <1>6 DEF TypeOK, Slot
<1>9. {k \in 0..size - 1 : entries[k] \in Id} = Stored \cup {p}
  <2> HIDE DEF p, entries
  <2>. QED BY <1>3, <1>6, <1>8 DEF Stored, Valid
<1>10. \A q \in Stored : q \in 0..size - 1 /\ slot[q] \in Tabled /\ slot[q] # ins
  BY <1>5 DEF Stored, Tabled
<1>11. \A j, k \in Stored \cup {p} : entries[j] = entries[k] => j = k
  <2> HIDE DEF p, entries
  <2>. QED BY <1>2, <1>6, <1>8, <1>10 DEF Placement, Inj
<1>12. \A k \in Stored \cup {p} : entries[k] \in Tabled \cup {ins}
  <2> HIDE DEF p, entries
  <2>. QED BY <1>6, <1>8, <1>10
<1>13. \E k \in Stored \cup {p} : entries[k] = ins
  <2> HIDE DEF p, entries
  <2>. QED BY <1>6, <1>8
<1>14. {entries[k] : k \in Stored \cup {p}} = Tabled \cup {ins}
  <2>1. Tabled = {slot[k] : k \in Stored} /\ p \in 0..size - 1 /\ p \notin Stored
    BY <1>3, <1>6 DEF Tabled
  <2> HIDE DEF p, entries
  <2>2. \A k \in Stored : entries[k] = slot[k]
    BY <1>8, <1>10, <2>1
  <2>3. entries[p] = ins
    BY <1>8, <2>1
  <2>. QED BY <2>1, <2>2, <2>3
<1>15. count' \in Int /\ count' = Cardinality(Stored \cup {p}) /\ count' <= size
  <2>1. size \div 2 + 1 <= size \/ size = 1
    BY <1>3
  <2>2. size = 1 => size \div 2 = 0
    OBVIOUS
  <2> HIDE DEF p
  <2>. QED BY <1>1, <1>3, <1>7, <2>1, <2>2
<1>16. CASE ReHashL(entries) /\ placed' = TRUE /\ UNCHANGED retried
  <2>1. retried' \in BOOLEAN /\ placed' \in BOOLEAN
    BY <1>2, <1>16 DEF TypeOK
  <2> DEFINE K == Stored \cup {p}
  <2>2. K = {k \in 0..size - 1 : entries[k] \in Id}
    BY <1>9
  <2>3. \A j, k \in K : entries[j] = entries[k] => j = k
    BY <1>11
  <2>4. \A k \in K : entries[k] \in Tabled \cup {ins}
    BY <1>12
  <2>5. (\E k \in K : entries[k] = ins) /\ count' = Cardinality(K)
    BY <1>13, <1>15
  <2> HIDE DEF K, p, entries
  <2>6. TableInv' /\ Tabled' = {entries[k] : k \in K}
    BY <1>1, <1>8, <1>15, <1>16, <2>1, <2>2, <2>3, <2>4, <2>5, BeginStep
  <2>7. pc' = "rehash"
    BY <1>16 DEF ReHashL, BeginRehash
  <2>. QED BY <1>14, <2>6, <2>7 DEF K
<1>17. CASE ReHashLeaves(entries, TRUE)
  <2>1. /\ why # "load" /\ Returned /\ obj' = Free(ins) /\ new' = {}
        /\ UNCHANGED <<held, disk, old, i>>
        /\ \/ size' = size /\ slot' = entries /\ pc' = "dangling"
           \/ size' = 0 /\ slot' = NoTable /\ pc' = "noslots"
    BY <1>17 DEF ReHashLeaves
  <2>2. CASE size' = 0 /\ slot' = NoTable /\ pc' = "noslots"
    BY <1>1, <1>2, <1>15, <2>1, <2>2, NoSlotsStep
  <2>3. CASE size' = size /\ slot' = entries /\ pc' = "dangling"
    <3>1. /\ obj' \in [Id -> EntryObject]
          /\ \A f \in Id : obj'[f].st # "free" => obj'[f].url \in Url
      BY <1>2, <1>3, <2>1, FreeFacts
    <3>2. ins' = Null /\ why' = "url" /\ retried' = FALSE /\ placed' = FALSE /\ loading' = {}
      BY <1>1, <1>2, <2>1 DEF Returned, Loops
    <3>3. slot' \in [0..size' - 1 -> Slot]
      BY <1>8, <2>3
    <3> HIDE DEF entries, p
    <3>4. TypeOK'
      BY <1>1, <1>2, <1>15, <2>1, <2>3, <3>1, <3>2, <3>3 DEF TypeOK
    <3>5. Loops'
      BY <1>1, <1>2, <2>1, <2>3, <3>1, <3>2 DEF Loops, Inserting
    <3>6. Stored' = Stored \cup {p} /\ ToMove' = {}
      BY <1>2, <1>9, <2>1, <2>3, NoTableFacts DEF Stored, Valid, ToMove
    <3>7. CountSum' /\ ~Sound'
      <4>1. Cardinality({}) = 0
        BY FS_EmptySet
      <4>. QED BY <1>7, <1>15, <2>3, <3>6, <4>1 DEF CountSum, Sound
    <3>8. Tabled' = Tabled \cup {ins}
      <4>1. Tabled' = {slot'[q] : q \in Stored'}
        BY <3>6 DEF Tabled
      <4>. QED BY <1>14, <2>3, <3>6, <4>1
    <3>. QED BY <2>3, <3>4, <3>5, <3>7, <3>8 DEF TableInv
  <2>. QED BY <2>1, <2>2, <2>3
<1>18. CASE /\ ~(count + 1 > size \div 2) /\ slot' = entries
            /\ UNCHANGED <<size, old, i, new>>
            /\ Inserted \/ InitialiseLeaves
  <2>1. Stored' = Stored \cup {p} /\ ToMove' = {}
    BY <1>2, <1>9, <1>18, NoTableFacts DEF Stored, Valid, ToMove
  <2>2. CountSum'
    <3>1. Cardinality({}) = 0
      BY FS_EmptySet
    <3>2. count' <= size' \div 2 /\ count' = Cardinality(Stored') + Cardinality(ToMove')
      <4> HIDE DEF p, entries
      <4>. QED BY <1>1, <1>3, <1>7, <1>15, <1>18, <2>1, <3>1
    <3>. QED BY <3>2 DEF CountSum
  <2>3. slot' \in [0..size' - 1 -> Slot]
    BY <1>8, <1>18
  <2>4. Tabled' = Tabled \cup {ins}
    <3>1. Tabled' = {slot'[q] : q \in Stored'}
      BY <2>1 DEF Tabled
    <3> HIDE DEF p, entries
    <3>. QED BY <1>18, <1>14, <2>1, <3>1
  <2>5. CASE Inserted
    <3>1. /\ obj' \in [Id -> EntryObject]
          /\ \A e \in Id : /\ obj'[e].url = obj[e].url
                           /\ obj[e].st # "free" => obj'[e].st # "free"
                           /\ obj'[e].st # "free" => obj'[e].url \in Url \/ e = ins
          /\ held' \subseteq Id /\ disk' \subseteq Url
          /\ pc' \in {"idle", "adopt", "load"} /\ (loading # {} => pc' = "load")
          /\ ins' = Null /\ why' = "url" /\ retried' = FALSE /\ placed' = FALSE
      BY <1>2, <2>5, InsertedFacts
    <3>2. TypeOK'
      <4> HIDE DEF p, entries
      <4>. QED BY <1>1, <1>2, <1>15, <1>18, <2>3, <3>1 DEF TypeOK
    <3>3. Loops'
      <4> HIDE DEF p, entries
      <4>. QED BY <1>1, <1>2, <1>4, <1>18, <3>1 DEF Loops, Inserting
    <3>4. Reach' /\ slot'[p] = ins /\ \A q \in Stored : slot'[q] = slot[q]
      <4>1. \A f \in {slot[q] : q \in Stored} \cup {ins} : obj'[f].url = obj[f].url /\ obj[f].url \in Url
        BY <1>4, <3>1 DEF Tabled
      <4>2. Reach /\ InsertStops(obj[ins].url, c) /\ p = Pos(obj[ins].url, c) /\ size > 0
        BY <1>1, <1>2, <1>3 DEF Placement
      <4>3. slot' = [slot EXCEPT ![p] = ins] /\ UNCHANGED <<fold, hash, size>>
        BY <1>1, <1>18
      <4> HIDE DEF p, entries
      <4>. QED BY <1>1, <1>2, <1>3, <1>4, <4>1, <4>2, <4>3, StoreAt
    <3>5. Waiting' = loading
      BY <1>1, <3>1 DEF Waiting, Unplaced, Inserting
    <3>6. Inj'
      <4> HIDE DEF p, entries
      <4>. QED BY <1>2, <1>6, <1>10, <2>1, <3>4 DEF Placement, Inj
    <3>7. Apart'
      BY <1>1, <1>2, <1>3, <1>5, <2>4, <3>1, <3>5, SlotAssumption DEF Placement, Apart, TypeOK
    <3>8. Alive'
      BY <1>2, <1>3, <1>4, <2>4, <3>1, <3>5, AtRest DEF Placement, Alive
    <3>. QED BY <2>2, <2>4, <3>1, <3>2, <3>3, <3>4, <3>6, <3>7, <3>8 DEF TableInv, Placement
  <2>6. CASE InitialiseLeaves
    <3>1. /\ why # "load" /\ obj' = Free(ins) /\ pc' = "dangling" /\ Returned
          /\ UNCHANGED <<held, disk>>
      BY <2>6 DEF InitialiseLeaves
    <3>2. /\ obj' \in [Id -> EntryObject]
          /\ \A f \in Id : obj'[f].st # "free" => obj'[f].url \in Url
      BY <1>2, <1>3, <3>1, FreeFacts
    <3>3. ins' = Null /\ why' = "url" /\ retried' = FALSE /\ placed' = FALSE /\ loading' = {}
      BY <1>1, <1>2, <3>1 DEF Returned, Loops
    <3> HIDE DEF entries, p
    <3>4. TypeOK'
      BY <1>1, <1>2, <1>15, <1>18, <2>3, <3>1, <3>2, <3>3 DEF TypeOK
    <3>5. Loops'
      BY <1>1, <1>2, <1>18, <3>1, <3>2, <3>3 DEF Loops, Inserting
    <3>. QED BY <2>2, <2>4, <3>1, <3>4, <3>5 DEF TableInv, Sound
  <2>. QED BY <1>18, <2>5, <2>6
<1>. QED
  <2> HIDE DEF entries, p
  <2>. QED BY <1>1, <1>16, <1>17, <1>18

(* It finds no slot: the table is rehashed, or InsertL gives up. *)
LEMMA NoSlotStep ==
  ASSUME TableInv, NEW c \in 0..size \div 2, NoSlot(c)
  PROVE  TableInv' /\ Tabled' = IF pc' = "noslots" THEN {} ELSE Tabled
<1>1. /\ pc = "probe" /\ UNCHANGED <<fold, hash, count, loading>>
      /\ IF ~retried
         THEN \/ ReHashL(slot) /\ retried' = TRUE /\ UNCHANGED placed
              \/ ReHashLeaves(slot, FALSE)
         ELSE /\ obj' = Free(ins)
              /\ pc' = IF why = "merge" THEN "panic" ELSE Return
              /\ Returned
              /\ UNCHANGED <<size, slot, old, i, new, held, disk>>
  BY DEF NoSlot
<1>2. TypeOK /\ Loops /\ Placement /\ CountSum /\ Sound /\ Inserting /\ ~placed /\ old = NoTable
  BY <1>1 DEF TableInv, Sound, Loops, Inserting
<1>3. ins \in Id /\ size \in Nat \ {0} /\ ToMove = {} /\ Waiting = loading \cup {ins}
  BY <1>1, <1>2, AtRest DEF Loops, TypeOK, Waiting, Unplaced
<1>4. ins \notin Tabled /\ ins \notin loading /\ Tabled \in SUBSET Id
  BY <1>2, <1>3, PositionsFinite DEF Placement, Apart
<1>5. CASE ReHashL(slot) /\ retried' = TRUE /\ UNCHANGED placed
  <2>1. Stored = {k \in 0..size - 1 : slot[k] \in Id}
    BY DEF Stored, Valid
  <2>2. /\ \A j, k \in Stored : slot[j] = slot[k] => j = k
        /\ \A k \in Stored : slot[k] \in Tabled
        /\ \A k \in Stored : slot[k] # ins
    BY <1>2, <1>4 DEF Placement, Inj, Tabled
  <2>3. Cardinality({}) = 0 /\ IsFiniteSet(Stored) /\ Cardinality(Stored) \in Nat
    BY <1>2, FS_EmptySet, PositionsFinite
  <2>4. count' = Cardinality(Stored) /\ count' \in Int
    BY <1>1, <1>2, <1>3, <2>3 DEF CountSum, TypeOK
  <2>5. count' <= size
    <3>1. Stored \in SUBSET (0..size - 1)
      BY <2>1
    <3>. QED BY <1>3, <2>4, <3>1, SlotsFinite
  <2>6. retried' \in BOOLEAN /\ placed' \in BOOLEAN /\ slot \in [0..size - 1 -> Slot]
    BY <1>2, <1>5 DEF TypeOK
  <2>7. TableInv' /\ Tabled' = {slot[k] : k \in Stored}
    BY <1>1, <1>2, <1>5, <2>1, <2>2, <2>4, <2>5, <2>6, BeginStep
  <2>8. pc' = "rehash"
    BY <1>5 DEF ReHashL, BeginRehash
  <2>. QED BY <1>3, <2>7, <2>8 DEF Tabled
<1>6. ASSUME obj' = Free(ins), Returned, UNCHANGED <<size, slot, old, i, held, disk>>, new' \in {{}, new},
             pc' \in {"idle", "adopt", "load", "panic"},
             loading # {} => pc' = "load"
      PROVE  TableInv' /\ Tabled' = Tabled
  <2>1. /\ obj' \in [Id -> EntryObject]
        /\ \A f \in Id : obj'[f] = IF f = ins THEN NoEntry ELSE obj[f]
        /\ \A f \in Id : obj'[f].st # "free" => obj'[f].url \in Url
    BY <1>2, <1>3, <1>6, FreeFacts
  <2>2. ins' = Null /\ why' = "url" /\ retried' = FALSE /\ placed' = FALSE
    BY <1>6 DEF Returned
  <2>3. TypeOK'
    BY <1>1, <1>2, <1>6, <2>1, <2>2 DEF TypeOK
  <2>4. Loops'
    BY <1>1, <1>2, <1>3, <1>6, <2>1, <2>2 DEF Loops, Inserting
  <2>5. ToMove' = {} /\ Waiting' = loading
    BY <1>1, <1>2, <1>6, <2>2, NoTableFacts DEF ToMove, Waiting, Unplaced, Inserting
  <2>6. \A e \in Tabled : obj'[e].url = obj[e].url
    BY <1>4, <2>1
  <2>7. \A e \in Tabled \cup Waiting' : obj'[e].st # "free"
    BY <1>2, <1>3, <1>4, <2>1, <2>5, AtRest DEF Placement, Alive
  <2>8. Tabled \cap Waiting' = {} /\ ins' \notin loading' /\ ~placed'
    BY <1>1, <1>2, <1>3, <2>2, <2>5, SlotAssumption DEF Placement, Apart, TypeOK
  <2>9. Tabled' = Tabled
    BY <1>3, <1>6, <2>5 DEF Tabled, Stored, Valid
  <2>. QED BY <1>1, <1>2, <1>3, <1>6, <2>3, <2>4, <2>5, <2>6, <2>7, <2>8, <2>9, KeepStep
<1>7. CASE ReHashLeaves(slot, FALSE)
  <2>1. /\ why # "load" /\ Returned /\ obj' = Free(ins) /\ new' = {}
        /\ UNCHANGED <<held, disk, old, i>>
        /\ \/ size' = size /\ slot' = slot /\ pc' = "idle"
           \/ size' = 0 /\ slot' = NoTable /\ pc' = "noslots"
    BY <1>7 DEF ReHashLeaves
  <2>2. count' \in Int
    BY <1>1, <1>2 DEF TypeOK
  <2>3. CASE size' = 0 /\ slot' = NoTable /\ pc' = "noslots"
    BY <1>1, <1>2, <2>1, <2>2, <2>3, NoSlotsStep
  <2>4. CASE size' = size /\ slot' = slot /\ pc' = "idle"
    <3>1. loading = {}
      BY <1>1, <1>2, <2>1 DEF Loops
    <3>. QED BY <1>6, <2>1, <2>4, <3>1
  <2>. QED BY <2>1, <2>3, <2>4
<1>8. CASE /\ obj' = Free(ins) /\ Returned
           /\ pc' = IF why = "merge" THEN "panic" ELSE Return
           /\ UNCHANGED <<size, slot, old, i, new, held, disk>>
  <2>1. pc' \in {"idle", "adopt", "load", "panic"} /\ (loading # {} => pc' = "load")
    BY <1>1, <1>2, <1>8 DEF Return, Loops, TypeOK
  <2>. QED BY <1>6, <1>8, <2>1
<1>. QED BY <1>1, <1>5, <1>7, <1>8

(* ReHashL returns. *)
LEMMA RehashDoneStep ==
  ASSUME TableInv, RehashDone
  PROVE  TableInv' /\ Tabled' = Tabled
<1>1. /\ pc = "rehash" /\ ToMove = {} /\ old' = NoTable /\ i' = 0
      /\ UNCHANGED <<fold, hash, table, new, loading>>
      /\ \/ placed /\ (Inserted \/ InitialiseLeaves)
         \/ ~placed /\ pc' = "probe" /\ UNCHANGED <<obj, held, disk, ins, why, retried, placed>>
  BY DEF RehashDone
<1>2. TypeOK /\ Loops /\ Placement /\ CountSum /\ Sound /\ Inserting /\ ins \in Id
  BY <1>1 DEF TableInv, Sound, Loops, Inserting
<1>3. ToMove' = {} /\ DOMAIN old' = 0..(0 - 1) /\ DOMAIN old' = {} /\ old' \in [DOMAIN old' -> Slot]
  BY <1>1, NoTableFacts DEF ToMove
<1>4. /\ \E n \in Nat : DOMAIN old' = 0..n - 1
      /\ DOMAIN old' \subseteq Nat /\ old' \in [DOMAIN old' -> Slot] /\ i' \in Int
  BY <1>1, <1>3
<1>5. UNCHANGED <<fold, hash, size, slot, count, new, loading>>
  BY <1>1 DEF table
<1>6. \A e \in Tabled \cup {ins} : e \in Id /\ (e \in Tabled => obj[e].url \in Url)
  BY <1>2, PositionsFinite DEF Placement, Alive, Loops
<1>7. Tabled' = Tabled
  BY <1>1, <1>3, <1>5 DEF Tabled, Stored, Valid
<1>8. CASE ~placed /\ pc' = "probe" /\ UNCHANGED <<obj, held, disk, ins, why, retried, placed>>
  <2>1. TypeOK'
    BY <1>1, <1>2, <1>3, <1>4, <1>8 DEF TypeOK, table
  <2>2. Loops'
    BY <1>1, <1>2, <1>3, <1>4, <1>8 DEF Loops, Inserting, table
  <2>3. Waiting' = Waiting
    BY <1>1, <1>2, <1>8 DEF Waiting, Unplaced, Inserting
  <2>4. /\ \A e \in Tabled \cup Waiting' : obj'[e].st # "free"
        /\ Tabled \cap Waiting' = {} /\ ins' \notin loading' /\ ~placed'
    BY <1>1, <1>2, <1>8, <2>3 DEF Placement, Alive, Apart
  <2>. QED BY <1>1, <1>2, <1>3, <1>8, <1>7, <2>1, <2>2, <2>4, KeepStep DEF table
<1>9. CASE placed /\ Inserted
  <2>1. /\ obj' \in [Id -> EntryObject]
        /\ \A e \in Id : /\ obj'[e].url = obj[e].url
                         /\ obj[e].st # "free" => obj'[e].st # "free"
                         /\ obj'[e].st # "free" => obj'[e].url \in Url \/ e = ins
        /\ held' \subseteq Id /\ disk' \subseteq Url
        /\ pc' \in {"idle", "adopt", "load"} /\ (loading # {} => pc' = "load")
        /\ ins' = Null /\ why' = "url" /\ retried' = FALSE /\ placed' = FALSE
    BY <1>2, <1>9, InsertedFacts
  <2>2. ins \in Tabled
    BY <1>2, <1>9 DEF Placement, Alive
  <2>3. TypeOK'
    BY <1>2, <1>4, <1>5, <2>1 DEF TypeOK
  <2>4. Loops'
    BY <1>1, <1>2, <1>3, <1>4, <1>6, <2>1, <2>2 DEF Loops, Inserting, table
  <2>5. Waiting' = loading
    BY <1>1, <2>1 DEF Waiting, Unplaced, Inserting
  <2>6. loading \in SUBSET Waiting /\ loading \in SUBSET Id
    BY <1>2 DEF Waiting, TypeOK
  <2>7. \A e \in Tabled \cup Waiting' : obj'[e].st # "free"
    BY <1>2, <1>6, <2>1, <2>5, <2>6 DEF Placement, Alive
  <2>8. Tabled \cap Waiting' = {} /\ ins' \notin loading' /\ ~placed'
    BY <1>1, <1>2, <2>1, <2>5, <2>6, SlotAssumption DEF Placement, Apart
  <2>9. \A e \in Tabled : obj'[e].url = obj[e].url
    BY <1>6, <2>1
  <2>. QED BY <1>1, <1>2, <1>3, <1>7, <2>3, <2>4, <2>7, <2>8, <2>9, KeepStep DEF table
<1>10. CASE placed /\ InitialiseLeaves
  <2>1. /\ why # "load" /\ obj' = Free(ins) /\ pc' = "dangling" /\ Returned
        /\ UNCHANGED <<held, disk>>
    BY <1>10 DEF InitialiseLeaves
  <2>2. /\ obj' \in [Id -> EntryObject]
        /\ \A f \in Id : obj'[f].st # "free" => obj'[f].url \in Url
    BY <1>2, <2>1, FreeFacts
  <2>3. ins' = Null /\ why' = "url" /\ retried' = FALSE /\ placed' = FALSE /\ loading' = {}
    BY <1>1, <1>2, <2>1 DEF Returned, Loops
  <2>4. TypeOK'
    BY <1>2, <1>4, <1>5, <2>1, <2>2, <2>3 DEF TypeOK
  <2>5. Loops'
    BY <1>1, <1>2, <1>3, <1>4, <2>1, <2>2, <2>3 DEF Loops, Inserting, table
  <2>6. Stored' = Stored
    BY <1>1 DEF Stored, Valid, table
  <2>7. CountSum' /\ ~Sound'
    BY <1>1, <1>2, <1>3, <2>1, <2>6 DEF CountSum, Sound, table
  <2>. QED BY <1>7, <2>4, <2>5, <2>7 DEF TableInv
<1>. QED BY <1>1, <1>8, <1>9, <1>10, <1>7

-----------------------------------------------------------------------------
LEMMA TableStep == TableInv /\ [Next]_vars => TableInv'
<1> SUFFICES ASSUME TableInv, [Next]_vars PROVE TableInv'
  OBVIOUS
<1>1. ASSUME NEW u \in Url, InsertL(u) \/ RequestL(u) \/ Remove(u) \/ MergeAdopt(u)
      PROVE  TableInv'
  BY <1>1, InsertLStep, RequestLStep, RemoveStep, MergeAdoptStep
<1>2. ASSUME NEW c \in 0..size \div 2,
             Place(c) \/ NoSlot(c) \/ \E k \in ToMove : RehashMove(k, c)
      PROVE  TableInv'
  BY <1>2, PlaceStep, NoSlotStep, RehashMoveStep
<1>3. ASSUME NEW e \in Id,
             ResponseComplete(e) \/ Flush(e) \/ RequestClosed(e) \/ DeleteCacheEntry(e) \/ LoadEntry(e)
      PROVE  TableInv'
  BY <1>3, ResponseCompleteStep, FlushStep, RequestClosedStep, DeleteCacheEntryStep, LoadEntryStep
<1>4. ASSUME RehashDone \/ RemoveAll \/ Reload \/ LoadLeaves PROVE TableInv'
  BY <1>4, RehashDoneStep, RemoveAllStep, ReloadStep, LoadLeavesStep
<1>5. ASSUME NEW p \in 0..size - 1, MergeDrop(p) PROVE TableInv'
  BY <1>5, MergeDropStep
<1>6. ASSUME MergeL \/ MergeDropped \/ MergeDone \/ LoadDone PROVE TableInv'
  BY <1>6, WalkSteps
<1>7. CASE UNCHANGED vars
  BY <1>7, SMTT(40) DEF vars, table, loop, TableInv, TypeOK, Loops, CountSum, Sound, Placement, Inj, Apart,
              Alive, Reach, Stored, ToMove, Tabled, Waiting, Unplaced, Inserting, Valid, Pos
<1>. QED BY <1>1, <1>2, <1>3, <1>4, <1>5, <1>6, <1>7 DEF Next

(* Whatever the events: the table is well-typed, an entry is in one slot, the
   probes for its URL get to it, iCount counts what is stored, and no more than
   half of the slots are in use. *)
THEOREM TableTheorem == Spec => []TableInv
BY InitTable, TableStep, PTL DEF Spec

(* Findable                                                                 *)
LEMMA FindStored ==
  ASSUME TableInv, Sound, NEW p \in Stored
  PROVE  Probe(obj[slot[p]].url) # {}
<1> DEFINE u == obj[slot[p]].url
<1>1. TypeOK /\ Reach /\ size \in Nat
  BY DEF TableInv, Placement, TypeOK
<1>2. PICK c \in 0..size : p = Pos(u, c) /\ \A d \in 0..c - 1 : slot[Pos(u, d)] # Null
  BY <1>1 DEF Reach
<1> DEFINE S == {d \in 0..size : Matches(u, Pos(u, d))}
<1>3. c \in S
  BY <1>2 DEF Matches, Same, Stored
<1>4. S \in SUBSET Nat
  BY <1>1
<1>5. PICK b \in S : \A d \in S : b <= d
  BY <1>3, <1>4, LeastNumber
<1>6. b \in 0..size /\ b <= c /\ Matches(u, Pos(u, b))
  BY <1>3, <1>5
<1>7. ASSUME NEW d \in 0..b - 1 PROVE slot[Pos(u, d)] # Null /\ ~Matches(u, Pos(u, d))
  <2>1. d \in 0..c - 1 /\ d \in 0..size /\ ~(b <= d)
    BY <1>1, <1>2, <1>6
  <2>2. d \notin S
    BY <1>5, <2>1
  <2>. QED BY <1>2, <2>1, <2>2
<1>8. FindStops(u, b)
  BY <1>6, <1>7 DEF FindStops
<1>9. b \in 0..size + 1
  BY <1>1, <1>6
<1>. QED BY <1>8, <1>9 DEF Probe

(* What was inserted is found, whatever was erased, rehashed, merged and
   loaded since, and whichever allocations failed: Probe ends at an entry of
   the URL for every stored entry, between the operations and within them. *)
THEOREM FindableTheorem == Spec => []Findable
<1>1. TableInv => Findable
  BY FindStored DEF Findable, TableInv, Stored, Sound
<1>. QED BY <1>1, TableTheorem, PTL

(* The slots, the count, the entries and the loops are well-typed. *)
THEOREM TypesTheorem == Spec => []TypeOK
<1>1. TableInv => TypeOK
  BY DEF TableInv
<1>. QED BY <1>1, TableTheorem, PTL

(* iCount is the number of stored entries, those still in the old table
   included, and at most half of the slots are in use between two insertions:
   after any sequence of operations, merges, reloads and failed allocations. *)
THEOREM CountedTheorem == Spec => []Counted
<1>1. TableInv => Counted
  BY DEF TableInv, CountSum, Counted
<1>. QED BY <1>1, TableTheorem, PTL

-----------------------------------------------------------------------------
(* The abstract set of entries                                              *)

(* Without failing allocations and merges every object that is alive is in
   the table, or on its way into it: InsertL rehashes into a prime table, in
   which its entry gets a slot. *)
LiveInv ==
  /\ Sound /\ pc \notin {"drop", "adopt"} /\ why # "merge"
  /\ \A e \in Id : obj[e].st # "free" => e \in Contents
  /\ \A e \in Id : /\ obj[e].st = "new" => obj[e].body = "none"
                   /\ obj[e].st = "requesting" => obj[e].body # "none"
  /\ retried => pc \in {"probe", "rehash"} /\ Prime(size)

LEMMA ContentsIs == Contents = Tabled \cup loading \cup Unplaced
BY DEF Contents, Tabled, Unplaced, Inserting

LEMMA ContentsIsNext == Contents' = Tabled' \cup loading' \cup Unplaced'
BY DEF Contents, Tabled, Unplaced, Inserting

LEMMA ContentsAlive ==
  ASSUME TableInv, LiveInv
  PROVE  /\ Contents \in SUBSET Id
         /\ \A e \in Id : e \in Contents <=> obj[e].st # "free"
         /\ \A e \in Contents : obj[e].url \in Url
<1>1. TypeOK /\ Loops /\ Placement
  BY DEF TableInv, LiveInv
<1>2. Contents = Tabled \cup Waiting
  BY ContentsIs DEF Waiting
<1>3. Contents \in SUBSET Id
  BY <1>1, <1>2, AtRest, PositionsFinite
<1>4. \A e \in Contents : obj[e].st # "free"
  BY <1>1, <1>2 DEF Placement, Alive
<1>. QED BY <1>1, <1>3, <1>4 DEF LiveInv, Loops

(* Between two insertions the table holds them all. *)
LEMMA ContentsAtRest ==
  ASSUME TableInv, ~Inserting, pc # "load"
  PROVE  Contents = Tabled
<1>1. loading = {} /\ Unplaced = {}
  BY AtRest DEF TableInv
<1>. QED BY <1>1, ContentsIs

LEMMA SameTabled ==
  ASSUME TableInv, TableInv', pc # "rehash", pc' # "rehash", UNCHANGED <<size, slot>>
  PROVE  Tabled' = Tabled
<1>1. ToMove = {} /\ ToMove' = {}
  BY NoTableFacts DEF TableInv, Loops, ToMove
<1>. QED BY <1>1 DEF Tabled, Stored, Valid

(* What a step does to the set of entries. *)
LEMMA PutStep ==
  ASSUME NEW e, NEW r, Contents' = Contents \cup {e}, IndexEntry(e)' = r,
         \A f \in Contents : f # e => obj'[f] = obj[f]
  PROVE  Index!Put(e, r)
<1>1. \A f \in Contents : f # e => IndexEntry(f)' = IndexEntry(f)
  BY DEF IndexEntry
<1>2. DOMAIN IndexEntries = Contents /\ \A f \in Contents : IndexEntries[f] = IndexEntry(f)
  BY DEF IndexEntries
<1>3. IndexEntries' = [f \in Contents' |-> IndexEntry(f)']
  BY DEF IndexEntries
<1>. QED BY <1>1, <1>2, <1>3 DEF Index!Put, Index!Stored

LEMMA SetStep ==
  ASSUME NEW e \in Contents, NEW used, NEW body, Contents' = Contents,
         obj'[e].url = obj[e].url,
         (obj'[e].st # "complete") = used, (obj'[e].body # "none") = body,
         \A f \in Contents : f # e => obj'[f] = obj[f]
  PROVE  Index!Set(e, used, body)
<1>1. IndexEntries[e].url = obj[e].url
  BY DEF IndexEntries, IndexEntry
<1>2. IndexEntry(e)' = [url |-> IndexEntries[e].url, used |-> used, body |-> body]
  BY <1>1 DEF IndexEntry
<1>3. Contents' = Contents \cup {e}
  OBVIOUS
<1>. QED BY <1>2, <1>3, PutStep DEF Index!Set

LEMMA DropStep ==
  ASSUME NEW gone, Contents' = Contents \ gone, \A f \in Contents' : obj'[f] = obj[f]
  PROVE  Index!Drop(gone)
<1>1. \A f \in Contents' : IndexEntry(f)' = IndexEntry(f)
  BY DEF IndexEntry
<1>2. DOMAIN IndexEntries = Contents /\ \A f \in Contents : IndexEntries[f] = IndexEntry(f)
  BY DEF IndexEntries
<1>3. IndexEntries' = [f \in Contents' |-> IndexEntry(f)']
  BY DEF IndexEntries
<1>. QED BY <1>1, <1>2, <1>3 DEF Index!Drop, Index!Stored

LEMMA StutterStep ==
  ASSUME Contents' = Contents,
         \A f \in Contents : /\ obj'[f].url = obj[f].url
                             /\ (obj'[f].st = "complete") = (obj[f].st = "complete")
                             /\ (obj'[f].body = "none") = (obj[f].body = "none")
  PROVE  IndexEntries' = IndexEntries
<1>1. \A f \in Contents : IndexEntry(f)' = IndexEntry(f)
  BY DEF IndexEntry
<1>2. IndexEntries' = [f \in Contents' |-> IndexEntry(f)']
  BY DEF IndexEntries
<1>. QED BY <1>1, <1>2 DEF IndexEntries

LEMMA EntryFacts ==
  /\ Index!Stored = Contents
  /\ \A e \in Contents : /\ IndexEntries[e].url = obj[e].url
                         /\ IndexEntries[e].used = (obj[e].st # "complete")
                         /\ IndexEntries[e].body = (obj[e].body # "none")
  /\ \A u, w : Index!Same(u, w) <=> Same(u, w)
BY DEF Index!Stored, IndexEntries, IndexEntry, Index!Same, Same

Mapped == [Index!Next]_<<fold, IndexEntries>>

(* A new entry. *)
LEMMA InsertLMapped ==
  ASSUME TableInv, LiveInv, TableInv', NEW u \in Url, InsertL(u)
  PROVE  LiveInv' /\ Mapped
<1>1. PICK e \in Id : /\ obj[e].st = "free"
                      /\ obj' = [obj EXCEPT ![e] = NewEntry(u)]
                      /\ Start(e, "url")
  BY DEF InsertL
<1>2. /\ pc = "idle" /\ UNCHANGED <<fold, hash, table, held, disk, new, loading>>
      /\ Find(u) = {} /\ Sound /\ ~Inserting
  BY DEF InsertL, Sound, Inserting
<1>3. TypeOK /\ Loops /\ size > 0
  BY <1>2 DEF TableInv, Loops, TypeOK
<1>4. /\ pc' = "probe" /\ why' = "url" /\ ins' = e /\ retried' = retried
      /\ UNCHANGED <<size, slot, loading>> /\ placed' = FALSE
  BY <1>1, <1>2, <1>3, Zenon DEF Start, Loops, table, TypeOK
<1>5. Contents = Tabled /\ loading = {} /\ Tabled' = Tabled /\ Unplaced' = {e}
  BY <1>2, <1>3, <1>4, ContentsAtRest, SameTabled, AtRest DEF Unplaced, Inserting
<1>6. Contents' = Contents \cup {e}
  BY <1>4, <1>5, ContentsIsNext
<1>7. obj'[e] = NewEntry(u) /\ \A f \in Id : f # e => obj'[f] = obj[f]
  BY <1>1, <1>3 DEF TypeOK
<1>8. e \notin Contents /\ Contents \in SUBSET Id
  BY <1>1, ContentsAlive
<1>9. LiveInv'
  BY <1>1, <1>4, <1>6, <1>7 DEF LiveInv, Sound, NewEntry
<1>10. IndexEntry(e)' = [url |-> u, used |-> TRUE, body |-> FALSE]
  <2>1. obj'[e].url = u /\ (obj'[e].st # "complete") = TRUE /\ (obj'[e].body # "none") = FALSE
    BY <1>7 DEF NewEntry
  <2>. QED BY <2>1, Zenon DEF IndexEntry
<1>11. \/ \A f \in Contents : obj[f].url # u
       \/ \E f \in Contents : Same(obj[f].url, u) /\ obj[f].st = "complete" /\ obj[f].body = "none"
  <2>1. CASE Probe(u) = {}
    <3>1. \A p \in Stored : obj[slot[p]].url # u
      BY <1>2, <2>1, FindStored
    <3>. QED BY <1>2, <1>3, <1>5, <3>1, AtRest DEF Tabled, Inserting
  <2>2. CASE Probe(u) # {}
    <3>1. PICK p \in Probe(u) : TRUE
      BY <2>2
    <3>2. p \in Stored /\ Same(obj[slot[p]].url, u)
      BY <1>3, ProbeStored
    <3>3. Hidden(slot[p])
      BY <1>2, <3>1 DEF Find
    <3>4. slot[p] \in Contents
      BY <1>5, <3>2 DEF Tabled
    <3>. QED BY <3>2, <3>3, <3>4 DEF Hidden
  <2>. QED BY <2>1, <2>2
<1>12. Index!Insert(e, u)
  <2>1. Index!Put(e, [url |-> u, used |-> TRUE, body |-> FALSE])
    BY <1>6, <1>7, <1>8, <1>10, PutStep
  <2>. QED BY <1>8, <1>11, <2>1, EntryFacts DEF Index!Insert, Index!Hidden
<1>. QED BY <1>2, <1>9, <1>12 DEF Index!Next, Mapped

(* The steps of transactions: one entry changes its state or its body. *)
LEMMA TouchMapped ==
  ASSUME TableInv, LiveInv, TableInv', Idle, UNCHANGED table,
         NEW e \in Id, NEW st \in {"complete", "requesting", "new"}, NEW body \in {"none", "mem", "file"},
         obj[e].st # "free", obj'[e] = [url |-> obj[e].url, st |-> st, body |-> body],
         \A f \in Id : f # e => obj'[f] = obj[f],
         st = "new" => body = "none", st = "requesting" => body # "none"
  PROVE  /\ LiveInv' /\ e \in Contents /\ UNCHANGED fold
         /\ Index!Set(e, st # "complete", body # "none")
<1>1. pc = "idle" /\ UNCHANGED <<size, slot, loop>> /\ Sound /\ ~Inserting /\ UNCHANGED fold
  BY DEF Idle, Sound, Inserting, table
<1>2. e \in Contents /\ Contents \in SUBSET Id
  BY ContentsAlive
<1>3. Tabled' = Tabled
  BY <1>1, SameTabled DEF loop
<1>4. Contents' = Contents
  BY <1>1, <1>3, ContentsIs, ContentsIsNext DEF loop, Unplaced, Inserting
<1>5. LiveInv'
  BY <1>1, <1>2, <1>4 DEF LiveInv, Sound, loop
<1>6. obj'[e].url = obj[e].url /\ (obj'[e].st # "complete") = (st # "complete")
      /\ (obj'[e].body # "none") = (body # "none")
  OBVIOUS
<1>7. Index!Set(e, st # "complete", body # "none")
  BY <1>2, <1>4, <1>6, SetStep
<1>. QED BY <1>1, <1>2, <1>5, <1>7

LEMMA CompleteMapped ==
  ASSUME TableInv, LiveInv, TableInv', NEW e \in Id, ResponseComplete(e)
  PROVE  LiveInv' /\ Mapped
<1>1. Idle /\ UNCHANGED table /\ obj[e].st = "new"
      /\ \E b \in {"mem", "none"} : obj' = [obj EXCEPT ![e].st = "complete", ![e].body = b]
  BY DEF ResponseComplete
<1>2. PICK b \in {"mem", "none"} : obj' = [obj EXCEPT ![e].st = "complete", ![e].body = b]
  BY <1>1
<1>3. obj \in [Id -> EntryObject]
  BY DEF TableInv, TypeOK
<1>4. /\ obj'[e] = [url |-> obj[e].url, st |-> "complete", body |-> b]
      /\ \A f \in Id : f # e => obj'[f] = obj[f]
  BY <1>2, <1>3 DEF EntryObject
<1>5. /\ LiveInv' /\ e \in Contents /\ UNCHANGED fold
      /\ Index!Set(e, FALSE, b # "none")
  <2>1. ("complete" # "complete") = FALSE
    OBVIOUS
  <2>. QED BY <1>1, <1>4, <2>1, TouchMapped
<1>6. obj[e].body = "none"
  BY <1>1 DEF LiveInv
<1>7. Index!Complete(e, b # "none")
  BY <1>1, <1>5, <1>6, EntryFacts DEF Index!Complete
<1>8. (b # "none") \in BOOLEAN
  OBVIOUS
<1>. QED BY <1>5, <1>7, <1>8 DEF Index!Next, Mapped

LEMMA FlushMapped ==
  ASSUME TableInv, LiveInv, TableInv', NEW e \in Id, Flush(e)
  PROVE  LiveInv' /\ Mapped
<1>1. /\ Idle /\ UNCHANGED <<table, held>> /\ obj' = [obj EXCEPT ![e].body = "file"]
      /\ obj[e].st # "free" /\ obj[e].body = "mem"
  BY DEF Flush
<1>2. obj \in [Id -> EntryObject]
  BY DEF TableInv, TypeOK
<1>3. /\ obj'[e] = [url |-> obj[e].url, st |-> obj[e].st, body |-> "file"]
      /\ \A f \in Id : f # e => obj'[f] = obj[f]
  BY <1>1, <1>2 DEF EntryObject
<1>4. obj[e].st \in {"complete", "requesting"}
  BY <1>1, <1>2 DEF LiveInv, EntryObject
<1>5. /\ pc = "idle" /\ UNCHANGED <<size, slot, loop, fold>> /\ Sound /\ ~Inserting
  BY <1>1 DEF Idle, Sound, Inserting, table
<1>6. Tabled' = Tabled
  BY <1>5, SameTabled DEF loop
<1>7. Contents' = Contents /\ Contents \in SUBSET Id
  BY <1>5, <1>6, ContentsIs, ContentsIsNext, ContentsAlive DEF loop, Unplaced, Inserting
<1>8. LiveInv'
  BY <1>1, <1>3, <1>4, <1>5, <1>7 DEF LiveInv, Sound, loop
<1>9. IndexEntries' = IndexEntries
  BY <1>1, <1>3, <1>7, StutterStep
<1>. QED BY <1>5, <1>8, <1>9 DEF Mapped

LEMMA RequestLMapped ==
  ASSUME TableInv, LiveInv, TableInv', NEW u \in Url, RequestL(u)
  PROVE  LiveInv' /\ Mapped
<1>1. Idle /\ UNCHANGED table
  BY DEF RequestL
<1>2. TypeOK /\ size > 0 /\ Sound
  BY <1>1 DEF TableInv, Idle, Loops, TypeOK, Sound
<1>3. PICK e \in Find(u) : obj[e].st = "complete" /\ obj' = [obj EXCEPT ![e].st = "requesting"]
  BY DEF RequestL
<1>4. PICK p \in Probe(u) : e = slot[p] /\ ~Hidden(e)
  BY <1>3 DEF Find
<1>5. e \in Id /\ obj[e].body # "none" /\ obj[e].body \in {"mem", "file"}
  BY <1>2, <1>3, <1>4, ProbeStored DEF Hidden, TypeOK, EntryObject
<1>6. /\ obj'[e] = [url |-> obj[e].url, st |-> "requesting", body |-> obj[e].body]
      /\ \A f \in Id : f # e => obj'[f] = obj[f]
  BY <1>2, <1>3, <1>5 DEF TypeOK, EntryObject
<1>7. /\ LiveInv' /\ e \in Contents /\ UNCHANGED fold
      /\ Index!Set(e, TRUE, TRUE)
  <2>1. ("requesting" # "complete") = TRUE /\ (obj[e].body # "none") = TRUE
    BY <1>5
  <2>2. /\ LiveInv' /\ e \in Contents /\ UNCHANGED fold
        /\ Index!Set(e, "requesting" # "complete", obj[e].body # "none")
    BY <1>1, <1>3, <1>5, <1>6, TouchMapped
  <2>. QED BY <2>1, <2>2, Zenon
<1>8. Index!Take(e)
  BY <1>3, <1>5, <1>7, EntryFacts DEF Index!Take
<1>. QED BY <1>5, <1>7, <1>8 DEF Index!Next, Mapped

LEMMA RequestClosedMapped ==
  ASSUME TableInv, LiveInv, TableInv', NEW e \in Id, RequestClosed(e)
  PROVE  LiveInv' /\ Mapped
<1>1. /\ Idle /\ UNCHANGED table /\ obj[e].st = "requesting"
      /\ obj' = [obj EXCEPT ![e].st = "complete"]
  BY DEF RequestClosed
<1>2. obj \in [Id -> EntryObject]
  BY DEF TableInv, TypeOK
<1>3. obj[e].body # "none" /\ obj[e].body \in {"mem", "file"}
  BY <1>1, <1>2 DEF LiveInv, EntryObject
<1>4. /\ obj'[e] = [url |-> obj[e].url, st |-> "complete", body |-> obj[e].body]
      /\ \A f \in Id : f # e => obj'[f] = obj[f]
  BY <1>1, <1>2 DEF EntryObject
<1>5. /\ LiveInv' /\ e \in Contents /\ UNCHANGED fold
      /\ Index!Set(e, FALSE, TRUE)
  <2>1. ("complete" # "complete") = FALSE /\ (obj[e].body # "none") = TRUE
    BY <1>3
  <2>2. /\ LiveInv' /\ e \in Contents /\ UNCHANGED fold
        /\ Index!Set(e, "complete" # "complete", obj[e].body # "none")
    BY <1>1, <1>3, <1>4, TouchMapped
  <2>. QED BY <2>1, <2>2, Zenon
<1>6. Index!Release(e)
  BY <1>1, <1>3, <1>5, EntryFacts DEF Index!Release
<1>. QED BY <1>5, <1>6 DEF Index!Next, Mapped

(* Entries go: their objects are freed. *)
LEMMA GoneMapped ==
  ASSUME TableInv, LiveInv, TableInv', Idle, NEW gone \in SUBSET Contents,
         Tabled' = Tabled \ gone, \A f \in Tabled' : obj'[f] = obj[f],
         size' = size, \A f \in gone : obj'[f].st = "free",
         \A f \in Id : obj'[f] = obj[f] \/ obj'[f].st = "free"
  PROVE  LiveInv' /\ UNCHANGED fold /\ Index!Drop(gone)
<1>1. pc = "idle" /\ UNCHANGED <<loop, fold>> /\ Sound /\ ~Inserting
  BY DEF Idle, Sound, Inserting
<1>2. pc' = "idle" /\ ~Inserting'
  BY <1>1 DEF loop, Inserting
<1>3. Contents = Tabled /\ Contents' = Tabled'
  <2>1. loading = {} /\ Unplaced = {} /\ loading' = {} /\ Unplaced' = {}
    BY <1>1, AtRest DEF TableInv, loop, Unplaced, Inserting
  <2>. QED BY <2>1, ContentsIs, ContentsIsNext
<1>4. \A f \in Id : f \in Contents <=> obj[f].st # "free"
  BY ContentsAlive
<1>5. Index!Drop(gone)
  BY <1>3, DropStep
<1>6. ~retried'
  BY <1>1 DEF LiveInv, loop
<1>7. \A f \in Id : obj'[f].st # "free" => f \in Contents'
  <2>1. ASSUME NEW f \in Id, obj'[f].st # "free" PROVE f \in Tabled'
    <3>1. obj'[f] = obj[f] /\ f \in Tabled
      BY <1>3, <1>4, <2>1
    <3>2. f \notin gone
      BY <2>1
    <3>. QED BY <3>1, <3>2
  <2>. QED BY <1>3, <2>1
<1>. QED BY <1>1, <1>2, <1>5, <1>6, <1>7 DEF LiveInv, Sound, loop

(* The entry a lookup of u stops at is erased. *)
LEMMA EraseMapped ==
  ASSUME TableInv, LiveInv, TableInv', Idle, NEW u \in Url, NEW p \in Probe(u), Erase(p),
         held' \subseteq Id
  PROVE  /\ LiveInv' /\ UNCHANGED fold
         /\ slot[p] \in Contents /\ Same(obj[slot[p]].url, u) /\ Index!Drop({slot[p]})
<1>1. /\ pc = "idle" /\ UNCHANGED <<fold, hash, loop>> /\ Sound /\ ~Inserting
      /\ TypeOK /\ Loops /\ size > 0
  BY DEF TableInv, Idle, Sound, Inserting, Loops, TypeOK
<1>2. p \in Stored /\ Same(obj[slot[p]].url, u) /\ slot[p] \in Id
  BY <1>1, ProbeStored
<1>3. held' \subseteq Id /\ new' \subseteq Url /\ i' \in Int
      /\ pc' = pc /\ pc # "load" /\ UNCHANGED <<fold, hash, ins, why, retried, placed, old, loading>>
  BY <1>1 DEF TypeOK, loop
<1>4. Tabled' = Tabled \ {slot[p]} /\ \A f \in Tabled' : obj'[f] = obj[f]
  BY <1>1, <1>2, <1>3, EraseStep
<1>5. slot[p] \in Contents
  BY <1>1, <1>2, ContentsAtRest DEF Tabled
<1>6. size' = size /\ obj' = [obj EXCEPT ![slot[p]] = NoEntry]
  BY DEF Erase, Free
<1>7. \A f \in Id : obj'[f] = obj[f] \/ obj'[f].st = "free"
  BY <1>1, <1>6 DEF TypeOK, NoEntry
<1>8. \A f \in {slot[p]} : obj'[f].st = "free"
  BY <1>1, <1>2, <1>6 DEF TypeOK, NoEntry
<1>. QED BY <1>2, <1>4, <1>5, <1>6, <1>7, <1>8, GoneMapped

LEMMA DeleteCacheEntryMapped ==
  ASSUME TableInv, LiveInv, TableInv', NEW e \in Id, DeleteCacheEntry(e)
  PROVE  LiveInv' /\ Mapped
<1>1. Idle /\ obj[e].st = "new" /\ held' \subseteq Id
  BY DEF DeleteCacheEntry, TableInv, TypeOK
<1>2. pc = "idle" /\ Sound /\ ~Inserting /\ TypeOK /\ Loops
  BY <1>1 DEF Idle, Sound, Inserting, TableInv
<1>3. e \in Contents /\ Contents = Tabled /\ ToMove = {} /\ obj[e].url \in Url
  BY <1>1, <1>2, ContentsAlive, ContentsAtRest, AtRest DEF Inserting
<1>4. PICK q \in Stored : e = slot[q]
  BY <1>3 DEF Tabled
<1>5. PICK p \in Probe(obj[e].url) : Erase(p)
  BY <1>2, <1>4, FindStored DEF DeleteCacheEntry
<1>6. /\ LiveInv' /\ UNCHANGED fold
      /\ slot[p] \in Contents /\ Same(obj[slot[p]].url, obj[e].url) /\ Index!Drop({slot[p]})
  BY <1>1, <1>3, <1>5, EraseMapped
<1>7. obj[e].body = "none"
  BY <1>1 DEF LiveInv
<1>8. Index!Abandon(e)
  BY <1>1, <1>3, <1>6, <1>7, EntryFacts DEF Index!Abandon
<1>. QED BY <1>6, <1>8 DEF Index!Next, Mapped

LEMMA RemoveMapped ==
  ASSUME TableInv, LiveInv, TableInv', NEW u \in Url, Remove(u)
  PROVE  LiveInv' /\ Mapped
<1>1. Idle /\ held' \subseteq Id
  BY DEF Remove, TableInv, TypeOK
<1>2. PICK p \in Probe(u) : obj[slot[p]].st = "complete" /\ Erase(p)
  BY DEF Remove
<1>3. LiveInv' /\ UNCHANGED fold /\ slot[p] \in Contents /\ Index!Drop({slot[p]})
  BY <1>1, <1>2, EraseMapped
<1>4. Index!Remove(slot[p])
  BY <1>2, <1>3, EntryFacts DEF Index!Remove
<1>5. slot[p] \in Id
  BY <1>3, ContentsAlive
<1>. QED BY <1>3, <1>4, <1>5 DEF Index!Next, Mapped

LEMMA RemoveAllMapped ==
  ASSUME TableInv, LiveInv, TableInv', RemoveAll
  PROVE  LiveInv' /\ Mapped
<1> DEFINE cleared == {e \in Tabled : obj[e].st = "complete"}
           gone == {p \in 0..size - 1 : Valid(p) /\ obj[slot[p]].st = "complete"}
<1>1. /\ Idle /\ size' = size
      /\ obj' = [e \in Id |-> IF \E p \in gone : slot[p] = e THEN NoEntry ELSE obj[e]]
  BY DEF RemoveAll
<1>2. Tabled' = Tabled \ cleared /\ \A f \in Tabled' : obj'[f] = obj[f]
  BY RemoveAllStep
<1>3. Contents = Tabled /\ ToMove = {} /\ Tabled \in SUBSET Id
  BY <1>1, ContentsAtRest, AtRest, ContentsAlive DEF Idle, Inserting, TableInv
<1>4. \A f \in cleared : obj'[f].st = "free"
  <2>1. ASSUME NEW f \in cleared PROVE obj'[f].st = "free"
    <3>1. PICK p \in Stored : f = slot[p]
      BY <1>3 DEF Tabled
    <3>2. p \in gone
      BY <3>1 DEF Stored
    <3>. QED BY <1>1, <1>3, <3>1, <3>2 DEF NoEntry
  <2>. QED BY <2>1
<1>5. \A f \in Id : obj'[f] = obj[f] \/ obj'[f].st = "free"
  BY <1>1 DEF NoEntry
<1>6. LiveInv' /\ UNCHANGED fold /\ Index!Drop(cleared)
  BY <1>1, <1>2, <1>3, <1>4, <1>5, GoneMapped
<1>7. {e \in Index!Stored : ~IndexEntries[e].used} = cleared
  BY <1>3, EntryFacts
<1>8. Index!Clear
  BY <1>6, <1>7 DEF Index!Clear
<1>. QED BY <1>6, <1>8 DEF Index!Next, Mapped

(* The cache is opened again. *)
LEMMA ReloadMapped ==
  ASSUME TableInv, LiveInv, TableInv', Reload
  PROVE  LiveInv' /\ Mapped
<1> DEFINE saved == {e \in {slot[p] : p \in {q \in 0..size - 1 : Valid(q)}} : obj[e].body # "none"}
<1>1. /\ pc = "idle" /\ pc' = "load" /\ loading' = saved
      /\ size' = InitialSize /\ slot' = [p \in 0..InitialSize - 1 |-> Null]
      /\ obj' = [e \in Id |-> IF e \in saved THEN Reread(e) ELSE NoEntry]
      /\ UNCHANGED <<fold, ins, why, retried, placed, old>>
  BY DEF Reload
<1>2. TypeOK /\ Loops /\ ~Inserting /\ ~Inserting' /\ ToMove = {} /\ retried' = retried
  BY <1>1, AtRest DEF TableInv, Inserting
<1>3. Contents = Tabled /\ Contents \in SUBSET Id
  BY <1>1, <1>2, ContentsAtRest, ContentsAlive
<1>4. saved = {e \in Contents : obj[e].body # "none"}
  BY <1>2, <1>3 DEF Tabled, Stored
<1> HIDE DEF saved
<1>5. Stored' = {} /\ ToMove' = {} /\ Unplaced' = {}
  BY <1>1, <1>2, NoTableFacts, SlotAssumption DEF Loops, ToMove, Stored, Valid, Unplaced, Inserting
<1>6. Contents' = saved
  BY <1>1, <1>5, ContentsIsNext DEF Tabled
<1>7. \A e \in saved : /\ obj'[e].url = obj[e].url /\ obj'[e].st = "complete" /\ obj'[e].body = "file"
  BY <1>1, <1>3, <1>4 DEF Reread
<1>8. \A e \in Id : obj'[e].st # "free" => e \in saved
  BY <1>1 DEF NoEntry
<1>9. \A e \in Id : obj'[e].st # "new" /\ obj'[e].st # "requesting"
  BY <1>1 DEF NoEntry, Reread
<1>10. LiveInv'
  <2>1. ~retried
    BY <1>1 DEF LiveInv
  <2>. QED BY <1>1, <1>2, <1>6, <1>8, <1>9, <2>1 DEF LiveInv, Sound
<1>11. Index!Reopen
  <2>1. DOMAIN IndexEntries = Contents /\ \A e \in Contents : IndexEntries[e] = IndexEntry(e)
    BY DEF IndexEntries
  <2>2. {e \in Index!Stored : IndexEntries[e].body} = saved
    BY <1>4, EntryFacts
  <2>3. ASSUME NEW e \in saved
        PROVE  IndexEntry(e)' = [url |-> IndexEntries[e].url, used |-> FALSE, body |-> TRUE]
    <3>1. e \in Contents /\ IndexEntries[e].url = obj[e].url
      BY <1>4, EntryFacts
    <3>2. /\ obj'[e].url = obj[e].url /\ (obj'[e].st # "complete") = FALSE
          /\ (obj'[e].body # "none") = TRUE
      BY <1>7
    <3>3. IndexEntry(e)' = [url |-> obj[e].url, used |-> FALSE, body |-> TRUE]
      BY <3>2, Zenon DEF IndexEntry
    <3>. QED BY <3>1, <3>3
  <2>4. IndexEntries' = [e \in saved |-> IndexEntry(e)']
    BY <1>6 DEF IndexEntries
  <2>5. IndexEntries' = [e \in saved |-> [url |-> IndexEntries[e].url, used |-> FALSE, body |-> TRUE]]
    BY <2>3, <2>4, Zenon
  <2>. QED BY <2>2, <2>5 DEF Index!Reopen
<1>. QED BY <1>1, <1>10, <1>11 DEF Index!Next, Mapped

LEMMA LoadMapped ==
  ASSUME TableInv, LiveInv, TableInv', LoadDone \/ (\E e \in Id : LoadEntry(e))
  PROVE  LiveInv' /\ Mapped
<1>1. /\ pc = "load" /\ pc' # "rehash" /\ UNCHANGED <<fold, hash, size, slot, obj>>
      /\ pc' \in {"idle", "probe"} /\ why' \in {why, "load"} /\ retried' = retried /\ placed' = placed
  BY DEF LoadDone, LoadEntry, Start, table
<1>2. Tabled' = Tabled /\ ~placed /\ ~retried
  BY <1>1, SameTabled DEF TableInv, Loops, Inserting, LiveInv
<1>3. Contents' = Contents
  <2>1. CASE LoadDone
    <3>1. loading' = loading /\ Unplaced = {} /\ Unplaced' = {}
      BY <2>1 DEF LoadDone, Unplaced, Inserting
    <3>. QED BY <1>2, <3>1, ContentsIs, ContentsIsNext
  <2>2. CASE \E e \in Id : LoadEntry(e)
    <3>1. PICK e \in Id : LoadEntry(e)
      BY <2>2
    <3>2. e \in loading /\ loading' = loading \ {e} /\ Unplaced = {} /\ Unplaced' = {e}
      BY <1>1, <1>2, <3>1 DEF LoadEntry, Start, Unplaced, Inserting
    <3>. QED BY <1>2, <3>2, ContentsIs, ContentsIsNext
  <2>. QED BY <2>1, <2>2
<1>4. LiveInv'
  BY <1>1, <1>2, <1>3 DEF LiveInv, Sound
<1>5. IndexEntries' = IndexEntries
  BY <1>1, <1>3, StutterStep
<1>. QED BY <1>1, <1>4, <1>5 DEF Mapped

(* InsertL's entry is in the set already; the table takes it over. *)
LEMMA KeepMapped ==
  ASSUME TableInv, LiveInv, UNCHANGED <<fold, obj>>, Contents' = Contents,
         Sound', pc' \notin {"drop", "adopt"}, why' # "merge",
         retried' => pc' \in {"probe", "rehash"} /\ Prime(size')
  PROVE  LiveInv' /\ Mapped
<1>1. IndexEntries' = IndexEntries
  BY StutterStep
<1>. QED BY <1>1 DEF LiveInv, Mapped

LEMMA PlaceMapped ==
  ASSUME ~MemErrors, TableInv, LiveInv, TableInv', NEW c \in 0..size \div 2, Place(c)
  PROVE  LiveInv' /\ Mapped
<1> DEFINE entries == [slot EXCEPT ![Pos(obj[ins].url, c)] = ins]
<1>1. /\ pc = "probe" /\ UNCHANGED <<fold, hash, loading>>
      /\ \/ ReHashL(entries) /\ placed' = TRUE /\ UNCHANGED retried
         \/ Inserted
  BY DEF Place, ReHashLeaves, InitialiseLeaves
<1> HIDE DEF entries
<1>2. /\ Tabled' = IF pc' = "noslots" THEN {} ELSE Tabled \cup {ins}
  BY PlaceStep
<1>3. ~placed /\ why \in {"url", "load"} /\ TypeOK
  BY <1>1 DEF TableInv, Loops, LiveInv, TypeOK
<1>4. Contents = Tabled \cup {ins} \cup loading
  BY <1>1, <1>3, ContentsIs DEF Unplaced, Inserting
<1>5. CASE ReHashL(entries) /\ placed' = TRUE /\ UNCHANGED retried
  <2>1. pc' = "rehash" /\ UNCHANGED <<obj, ins, why>>
    BY <1>5 DEF ReHashL, BeginRehash
  <2>2. Prime(size')
    BY <2>1 DEF TableInv, Loops
  <2>3. Contents' = Contents
    BY <1>1, <1>2, <1>4, <1>5, <2>1, ContentsIsNext DEF Unplaced
  <2>. QED BY <1>1, <1>3, <2>1, <2>2, <2>3, KeepMapped DEF Sound
<1>6. CASE Inserted
  <2>1. pc' \in {"idle", "load"} /\ obj' = obj /\ why' = "url" /\ ~retried'
    BY <1>3, <1>6 DEF Inserted, Returned, Return
  <2>2. Contents' = Contents
    BY <1>1, <1>2, <1>4, <2>1, ContentsIsNext DEF Unplaced, Inserting
  <2>. QED BY <1>1, <2>1, <2>2, KeepMapped DEF Sound
<1>. QED BY <1>1, <1>5, <1>6

(* The second try, in a prime table, finds a slot: InsertL never gives up. *)
LEMMA NoSlotMapped ==
  ASSUME ~MemErrors, TableInv, LiveInv, TableInv', NEW c \in 0..size \div 2, NoSlot(c)
  PROVE  LiveInv' /\ Mapped
<1>1. /\ pc = "probe" /\ InsertStops(obj[ins].url, c) /\ Valid(Pos(obj[ins].url, c))
      /\ UNCHANGED <<fold, hash, loading>>
  BY DEF NoSlot
<1>2. TypeOK /\ Loops /\ Placement /\ CountSum /\ ~placed /\ ToMove = {} /\ size \in Nat /\ size > 0
  <2>1. TypeOK /\ Loops /\ CountSum /\ Placement
    BY <1>1 DEF TableInv, Sound
  <2>2. ~placed /\ size # 0
    BY <1>1, <2>1 DEF Loops
  <2>3. ToMove = {}
    BY <1>1, <2>1, AtRest
  <2>4. size \in Nat
    BY <2>1 DEF TypeOK
  <2>5. size > 0
    BY <2>2, <2>4
  <2>. QED BY <2>1, <2>2, <2>3, <2>4, <2>5
<1>3. obj[ins].url \in Url
  BY <1>1, <1>2 DEF Placement, Alive, Waiting, Unplaced, Inserting, Loops
<1>4. ~retried
  <2> SUFFICES ASSUME retried PROVE FALSE
    OBVIOUS
  <2>1. Prime(size)
    BY DEF LiveInv
  <2>2. Cardinality(Stored) <= size \div 2
    <3>1. Cardinality({}) = 0 /\ Cardinality(Stored) \in Nat
      BY <1>2, FS_EmptySet, PositionsFinite
    <3>. QED BY <1>1, <1>2, <3>1 DEF CountSum
  <2>3. PICK d \in 0..size \div 2 : ~Valid(Pos(obj[ins].url, d))
    BY <1>2, <1>3, <2>1, <2>2, SlotFound
  <2>4. c = size \div 2
    BY <1>1, <1>2 DEF InsertStops
  <2>5. d # c /\ d \in 0..c - 1
    BY <1>1, <1>2, <2>3, <2>4
  <2>. QED BY <1>1, <2>3, <2>5 DEF InsertStops
<1>5. ReHashL(slot) /\ retried' = TRUE /\ placed' = placed
  BY <1>4 DEF NoSlot, ReHashLeaves
<1>6. pc' = "rehash" /\ UNCHANGED <<obj, ins, why>>
  BY <1>5 DEF ReHashL, BeginRehash
<1>7. Tabled' = Tabled
  BY <1>6, NoSlotStep
<1>8. Prime(size')
  BY <1>6 DEF TableInv, Loops
<1>9. Contents' = Contents
  BY <1>1, <1>5, <1>6, <1>7, ContentsIs, ContentsIsNext DEF Unplaced, Inserting
<1>. QED BY <1>1, <1>6, <1>8, <1>9, KeepMapped DEF Sound, LiveInv

LEMMA RehashMapped ==
  ASSUME ~MemErrors, TableInv, LiveInv, TableInv',
         RehashDone \/ (\E c \in 0..size \div 2 : \E k \in ToMove : RehashMove(k, c))
  PROVE  LiveInv' /\ Mapped
<1>1. CASE RehashDone
  <2>1. /\ pc = "rehash" /\ UNCHANGED <<fold, hash, size, loading>>
        /\ IF placed THEN Inserted
           ELSE pc' = "probe" /\ UNCHANGED <<obj, held, disk, ins, why, retried, placed>>
    BY <1>1 DEF RehashDone, InitialiseLeaves, table
  <2>2. Tabled' = Tabled /\ TypeOK /\ Placement /\ why \in {"url", "load"}
    BY <1>1, RehashDoneStep DEF TableInv, LiveInv, TypeOK
  <2>3. CASE placed
    <3>1. pc' \in {"idle", "load"} /\ obj' = obj /\ why' = "url" /\ ~retried'
      BY <2>1, <2>2, <2>3 DEF Inserted, Returned, Return
    <3>2. Contents' = Contents
      BY <2>1, <2>2, <2>3, <3>1, ContentsIs, ContentsIsNext DEF Unplaced, Inserting
    <3>. QED BY <2>1, <3>1, <3>2, KeepMapped DEF Sound
  <2>4. CASE ~placed
    <3>1. Contents' = Contents
      BY <2>1, <2>2, <2>4, ContentsIs, ContentsIsNext DEF Unplaced, Inserting
    <3>2. retried' => Prime(size')
      BY <2>1, <2>4 DEF LiveInv, Prime
    <3>. QED BY <2>1, <2>2, <2>4, <3>1, <3>2, KeepMapped DEF Sound
  <2>. QED BY <2>3, <2>4
<1>2. CASE \E c \in 0..size \div 2 : \E k \in ToMove : RehashMove(k, c)
  <2>1. PICK c \in 0..size \div 2, k \in ToMove : RehashMove(k, c)
    BY <1>2
  <2>2. /\ pc = "rehash" /\ UNCHANGED <<fold, size, obj, pc, ins, why, retried, placed, loading>>
    BY <2>1 DEF RehashMove
  <2>3. Tabled' = Tabled
    BY <2>1, RehashMoveStep
  <2>4. Contents' = Contents
    BY <2>2, <2>3, ContentsIs, ContentsIsNext DEF Unplaced, Inserting
  <2>. QED BY <2>2, <2>4, KeepMapped DEF LiveInv, Sound
<1>. QED BY <1>1, <1>2

LEMMA IndexInit ==
  ASSUME Init
  PROVE  LiveInv /\ Index!Init
<1>1. Contents = {}
  <2>1. Stored = {} /\ loading = {} /\ pc = "idle"
    BY SlotAssumption DEF Init, Stored, Valid
  <2>2. ToMove = {}
    BY NoTableFacts DEF Init, ToMove
  <2>. QED BY <2>1, <2>2 DEF Contents
<1>2. fold \in [Url -> Url]
  BY DEF Init
<1>3. IndexEntries = [e \in {} |-> TRUE]
  BY <1>1 DEF IndexEntries
<1>4. LiveInv
  BY DEF Init, LiveInv, Sound, NoEntry
<1>. QED BY <1>2, <1>3, <1>4 DEF Index!Init

LEMMA IndexStep ==
  ASSUME ~MemErrors, ~Merges, TableInv, LiveInv, TableInv', [Next]_vars
  PROVE  LiveInv' /\ Mapped
<1>1. CASE UNCHANGED vars
  <2>1. UNCHANGED <<fold, slot, size, old, i, loading, why, placed, ins, obj, pc, retried>>
    BY <1>1 DEF vars, table, loop
  <2>2. Contents' = Contents
    BY <2>1 DEF Contents, Stored, Valid, ToMove
  <2>. QED BY <2>1, <2>2, KeepMapped DEF LiveInv, Sound
<1>2. ASSUME MergeL \/ MergeDropped \/ MergeDone \/ LoadLeaves
             \/ (\E u \in Url : MergeAdopt(u)) \/ (\E p \in 0..size - 1 : MergeDrop(p))
      PROVE  FALSE
  BY <1>2 DEF MergeL, MergeDropped, MergeDone, MergeAdopt, MergeDrop, LoadLeaves, LiveInv
<1>3. CASE Next
  <2>1. ASSUME NEW u \in Url, InsertL(u) \/ RequestL(u) \/ Remove(u) PROVE LiveInv' /\ Mapped
    BY <2>1, InsertLMapped, RequestLMapped, RemoveMapped
  <2>2. ASSUME NEW e \in Id,
               \/ ResponseComplete(e) \/ Flush(e) \/ RequestClosed(e) \/ DeleteCacheEntry(e)
        PROVE  LiveInv' /\ Mapped
    BY <2>2, CompleteMapped, FlushMapped, RequestClosedMapped, DeleteCacheEntryMapped
  <2>3. ASSUME NEW c \in 0..size \div 2, Place(c) \/ NoSlot(c) PROVE LiveInv' /\ Mapped
    BY <2>3, PlaceMapped, NoSlotMapped
  <2>. QED BY <1>2, <1>3, <2>1, <2>2, <2>3, RemoveAllMapped, ReloadMapped, LoadMapped, RehashMapped
           DEF Next
<1>. QED BY <1>1, <1>3

(* Probing, tombstones, rehashing and reloading are invisible, and nothing is
   lost: the table implements a set of entries that only the operations of the
   cache change, with namesakes and responses without a body, as long as no
   allocation fails and no other process rewrites the index. *)
THEOREM IndexTheorem ==
  ASSUME ~MemErrors, ~Merges
  PROVE  Spec => IndexSpec
<1>1. TableInv /\ LiveInv /\ TableInv' /\ [Next]_vars => LiveInv' /\ [Index!Next]_<<fold, IndexEntries>>
  BY IndexStep DEF Mapped
<1>2. Init => LiveInv /\ Index!Init
  BY IndexInit
<1>. QED BY <1>1, <1>2, TableTheorem, PTL DEF Spec, IndexSpec, Index!Spec

=============================================================================
