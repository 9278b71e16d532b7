------------------ MODULE HttpCacheFileWriteHandlerProofs ------------------
EXTENDS HttpCacheFileWriteHandler, QueueLemmas, FiniteSetTheorems, SequenceTheorems, TLAPS

Prepend(x, s) == <<x>> \o s

(* Putting an entry that is not queued in front. *)
LEMMA PrependLemma ==
  ASSUME NEW s \in Seq(Entry), NoDup(s), NEW x \in Entry, x \notin ToSet(s)
  PROVE  /\ Prepend(x, s) \in Seq(Entry) /\ NoDup(Prepend(x, s))
         /\ \A y : y \in ToSet(Prepend(x, s)) <=> y = x \/ y \in ToSet(s)
<1>1. PICK u \in Seq(Entry) : /\ u = Prepend(x, s) /\ Len(u) = Len(s) + 1 /\ u[1] = x
                              /\ \A i \in 2..Len(u) : u[i] = s[i - 1]
  <2>1. <<x>> \in Seq(Entry) /\ Len(<<x>>) = 1
    OBVIOUS
  <2>2. /\ <<x>> \o s \in Seq(Entry) /\ Len(<<x>> \o s) = 1 + Len(s)
        /\ \A i \in 1..1 + Len(s) :
             (<<x>> \o s)[i] = IF i <= 1 THEN <<x>>[i] ELSE s[i - 1]
    BY <2>1, ConcatProperties
  <2>3. /\ Prepend(x, s) \in Seq(Entry) /\ Len(Prepend(x, s)) = 1 + Len(s)
        /\ \A i \in 1..1 + Len(s) :
             Prepend(x, s)[i] = IF i <= 1 THEN <<x>>[i] ELSE s[i - 1]
    BY <2>2 DEF Prepend
  <2>. QED BY <2>3
<1>2. NoDup(u)
  <2> SUFFICES ASSUME NEW i \in 1..Len(u), NEW j \in 1..Len(u), u[i] = u[j] PROVE i = j
    BY DEF NoDup
  <2>1. \A l \in 2..Len(u) : l - 1 \in 1..Len(s) /\ u[l] = s[l - 1] /\ u[l] # x
    BY <1>1, ToSetLemma
  <2>2. CASE i = 1
    BY <1>1, <2>1, <2>2
  <2>3. CASE j = 1
    BY <1>1, <2>1, <2>3
  <2>4. CASE i # 1 /\ j # 1
    <3>1. i \in 2..Len(u) /\ j \in 2..Len(u)
      BY <1>1, <2>4
    <3>2. i - 1 \in 1..Len(s) /\ j - 1 \in 1..Len(s) /\ s[i - 1] = s[j - 1]
      BY <3>1, <2>1
    <3>3. i - 1 = j - 1
      BY <3>2 DEF NoDup
    <3>. QED BY <3>1, <3>3
  <2>. QED BY <2>2, <2>3, <2>4
<1>3. ASSUME NEW y PROVE y \in ToSet(u) <=> y = x \/ y \in ToSet(s)
  <2>1. ASSUME y \in ToSet(u) PROVE y = x \/ y \in ToSet(s)
    <3>1. PICK i \in 1..Len(u) : u[i] = y
      BY <1>1, <2>1, ToSetLemma
    <3>2. CASE i = 1
      BY <3>1, <3>2, <1>1
    <3>3. CASE i # 1
      <4>1. i - 1 \in 1..Len(s) /\ s[i - 1] = y
        BY <3>1, <3>3, <1>1
      <4>. QED BY <4>1, ToSetLemma
    <3>. QED BY <3>2, <3>3
  <2>2. ASSUME y = x PROVE y \in ToSet(u)
    BY <2>2, <1>1, ToSetLemma
  <2>3. ASSUME y \in ToSet(s) PROVE y \in ToSet(u)
    <3>1. PICK i \in 1..Len(s) : s[i] = y
      BY <2>3, ToSetLemma
    <3>2. i + 1 \in 2..Len(u) /\ u[i + 1] = y
      BY <3>1, <1>1
    <3>. QED BY <3>2, <1>1, ToSetLemma
  <2>. QED BY <2>1, <2>2, <2>3
<1>. QED BY <1>1, <1>2, <1>3

(* InsertInOrder keeps the elements of the queue, in whatever order the sizes
   put them. *)
LEMMA SortedLemma ==
  ASSUME NEW T, T \subseteq Entry, NEW n \in Nat, NEW q \in SortedQueues(T, n)
  PROVE  q \in Seq(Entry) /\ NoDup(q) /\ ToSet(q) = T
<1>1. q \in [1..n -> T] /\ ToSet(q) = T /\ \A i, j \in 1..n : i < j => q[i] # q[j]
  BY DEF SortedQueues
<1>2. q \in Seq(Entry) /\ Len(q) = n
  BY <1>1
<1>3. NoDup(q)
  BY <1>1, <1>2 DEF NoDup
<1>. QED BY <1>1, <1>2, <1>3

(* CollectMemory takes entries off the queue, but never the one that is being
   written. *)
LEMMA UncollectedLemma ==
  ASSUME queue \in Seq(Entry), NoDup(queue), NEW k \in 0..Len(queue),
         k <= Collectable, NEW u, u = Uncollected(k)
  PROVE  /\ u \in Seq(Entry) /\ NoDup(u) /\ ToSet(u) \subseteq ToSet(queue)
         /\ flushing \in ToSet(queue) => flushing \in ToSet(u)
<1>1. CASE \E i \in 1..k : queue[i] = flushing
  <2>1. PICK i \in 1..k : queue[i] = flushing
    BY <1>1
  <2>2. flushing \in ToSet(queue) /\ flushing \in Entry
    BY <2>1, ToSetLemma
  <2>3. k + 1 \in 0..Len(queue)
    BY <2>2 DEF Collectable
  <2>4. PICK s : s = Suffix(queue, k + 1)
    OBVIOUS
  <2>5. /\ s \in Seq(Entry) /\ NoDup(s)
        /\ \A x : x \in ToSet(s) <=> \E j \in (k+1)+1..Len(queue) : x = queue[j]
    BY <2>3, <2>4, SuffixLemma
  <2>6. flushing \notin ToSet(s)
    BY <2>1, <2>3, <2>5 DEF NoDup
  <2>7. u = Prepend(flushing, s)
    <3>1. (k + 1) + 1 = k + 2
      OBVIOUS
    <3>. QED BY <1>1, <2>4, <3>1 DEF Uncollected, Suffix, Prepend
  <2>8. u \in Seq(Entry) /\ NoDup(u) /\ \A y : y \in ToSet(u) <=> y = flushing \/ y \in ToSet(s)
    BY <2>2, <2>5, <2>6, <2>7, PrependLemma
  <2>9. ToSet(s) \subseteq ToSet(queue)
    BY <2>3, <2>5, ToSetLemma
  <2>. QED BY <2>8, <2>9, <2>2
<1>2. CASE ~ \E i \in 1..k : queue[i] = flushing
  <2>1. u = Suffix(queue, k)
    BY <1>2 DEF Uncollected, Suffix
  <2>2. /\ u \in Seq(Entry) /\ NoDup(u)
        /\ \A x : x \in ToSet(u) <=> \E j \in k+1..Len(queue) : x = queue[j]
    BY <2>1, SuffixLemma
  <2>3. ToSet(u) \subseteq ToSet(queue)
    BY <2>2, ToSetLemma
  <2>4. ASSUME flushing \in ToSet(queue) PROVE flushing \in ToSet(u)
    <3>1. PICK j \in 1..Len(queue) : queue[j] = flushing
      BY <2>4, ToSetLemma
    <3>2. j \in k+1..Len(queue)
      BY <3>1, <1>2
    <3>. QED BY <3>1, <3>2, <2>2
  <2>. QED BY <2>2, <2>3, <2>4
<1>. QED BY <1>1, <1>2

-----------------------------------------------------------------------------
(* The inductive invariant.                                                *)

IInv == TypeOK /\ QueueLinked /\ NeverForgotten /\ SingleWriter

Status == {"idle", "pending", "ok", "err"}

(* What the entries, the write handler and its helper keep. *)
StoreOK ==
  /\ entry \in [Entry -> EntryRecord]
  /\ queue \in Seq(Entry)
  /\ flushing \in Entry \cup {None}
  /\ wh \in Status
  /\ timer \in BOOLEAN
  /\ writer \in Entry \cup {None}
  /\ part \in Nat /\ werr \in BOOLEAN
  /\ QueueLinked /\ NeverForgotten /\ SingleWriter

(* The part of the inductive invariant the actions of an entry can disturb. *)
LEMMA StoreLemma ==
  ASSUME index \in [Entry -> IndexRecord], gen \in Nat,
         mode \in {"up", "closed", "freed", "bounds", "hang"}
  PROVE  StoreOK <=> IInv
BY DEF StoreOK, IInv, TypeOK, Status

(* Deleting an entry.  q, tm and w are the queue, perhaps sorted again, the
   timer and the status of the write handler at that point. *)
LEMMA EraseLemma ==
  ASSUME StoreOK, NEW e \in Entry,
         NEW q \in Seq(Entry), NoDup(q), ToSet(q) = ToSet(queue),
         NEW tm \in BOOLEAN, NEW w \in Status, NEW unlink \in BOOLEAN,
         w = wh \/ (wh = "idle" /\ w = "ok"),
         q # <<>> => tm \/ w # "idle",
         unlink \/ ~entry[e].obs,
         EraseEntry(e, q, tm, w, unlink)
  PROVE  StoreOK'
<1>1. PICK rest : rest = RemoveFirst(q, e)
  OBVIOUS
<1>2. /\ rest \in Seq(Entry) /\ NoDup(rest)
      /\ \A x : x \in ToSet(rest) <=> x \in ToSet(queue) /\ x # e
  BY <1>1, RemoveFirstLemma
<1>3. /\ entry' = [entry EXCEPT ![e] = Blank]
      /\ writer' = IF writer = e THEN None ELSE writer
      /\ wh' = IF writer = e THEN "err" ELSE w
      /\ queue' = IF unlink /\ ~(e = flushing /\ w # "idle") THEN rest ELSE q
      /\ timer' = IF ~unlink THEN tm
                  ELSE IF e = flushing /\ w # "idle" THEN TRUE
                  ELSE tm /\ ~(rest = <<>> /\ q # <<>>)
      /\ flushing' = flushing /\ part' = part /\ werr' = werr
  BY <1>1 DEF EraseEntry
<1>4. /\ entry' \in [Entry -> EntryRecord] /\ queue' \in Seq(Entry)
      /\ flushing' \in Entry \cup {None} /\ wh' \in Status
      /\ writer' \in Entry \cup {None} /\ part' \in Nat /\ werr' \in BOOLEAN
  <2>1. Blank \in EntryRecord
    BY DEF Blank, EntryRecord, EntryState, Body
  <2>. QED BY <1>2, <1>3, <2>1 DEF StoreOK, Status
<1>5. timer' \in BOOLEAN
  BY <1>3
<1>6. \A x \in ToSet(queue') : x \in ToSet(queue) /\ (x = e => e = flushing /\ w # "idle")
  BY <1>2, <1>3 DEF StoreOK, QueueLinked
<1>7. \A x \in ToSet(queue) : x # e \/ (e = flushing /\ w # "idle") => x \in ToSet(queue')
  BY <1>2, <1>3
<1>8. QueueLinked'
  <2>1. NoDup(queue')
    BY <1>2, <1>3
  <2>2. \A x \in Entry : entry'[x].obs => entry'[x].st # "free" /\ x \in ToSet(queue')
    BY <1>3, <1>7 DEF StoreOK, QueueLinked, Blank
  <2>3. \A x \in ToSet(queue') : entry'[x].obs \/ (x = flushing' /\ wh' # "idle")
    <3> SUFFICES ASSUME NEW x \in ToSet(queue')
                 PROVE  entry'[x].obs \/ (x = flushing' /\ wh' # "idle")
      OBVIOUS
    <3>1. x \in Entry
      BY <1>4, ToSetLemma
    <3>2. CASE x = e
      BY <3>2, <1>3, <1>6
    <3>3. CASE x # e
      <4>1. entry'[x] = entry[x]
        BY <3>1, <3>3, <1>3 DEF StoreOK
      <4>2. entry[x].obs \/ (x = flushing /\ wh # "idle")
        BY <1>6 DEF StoreOK, QueueLinked
      <4>. QED BY <4>1, <4>2, <1>3
    <3>. QED BY <3>2, <3>3
  <2>. QED BY <2>1, <2>2, <2>3 DEF QueueLinked, NoDup
<1>9. NeverForgotten'
  <2>1. rest # <<>> => q # <<>>
    <3> SUFFICES ASSUME rest # <<>> PROVE q # <<>>
      OBVIOUS
    <3>1. 1 \in 1..Len(rest)
      BY <1>2
    <3>2. rest[1] \in ToSet(q)
      BY <3>1, <1>2, ToSetLemma
    <3>3. \E i \in 1..Len(q) : q[i] = rest[1]
      BY <3>2, ToSetLemma
    <3>. QED BY <3>3
  <2>. QED BY <2>1, <1>3 DEF NeverForgotten
<1>10. SingleWriter'
  <2>1. ASSUME writer' # None
        PROVE  /\ writer' = flushing' /\ wh' = "pending"
               /\ entry'[writer'].st # "free" /\ entry'[writer'].file # None
    BY <2>1, <1>3 DEF StoreOK, SingleWriter
  <2>2. \A x \in Entry : entry'[x].partial <=> x = writer'
    <3> SUFFICES ASSUME NEW x \in Entry PROVE entry'[x].partial <=> x = writer'
      OBVIOUS
    <3>1. CASE x = e
      <4>1. entry'[x].partial = FALSE
        BY <3>1, <1>3 DEF StoreOK, Blank
      <4>. QED BY <3>1, <4>1, <1>3, NoneAssumption
    <3>2. CASE x # e
      <4>1. entry'[x] = entry[x]
        BY <3>2, <1>3 DEF StoreOK
      <4>. QED BY <3>2, <4>1, <1>3, NoneAssumption DEF StoreOK, SingleWriter
    <3>. QED BY <3>1, <3>2
  <2>3. wh' = "pending" => flushing' \in ToSet(queue')
    BY <1>3, <1>7 DEF StoreOK, SingleWriter
  <2>. QED BY <2>1, <2>2, <2>3 DEF SingleWriter
<1>. QED BY <1>4, <1>5, <1>8, <1>9, <1>10 DEF StoreOK

(* Changing the body, headers or state of one live entry. *)
LEMMA TouchLemma ==
  ASSUME StoreOK, NEW e \in Entry, NEW r \in EntryRecord,
         NEW q \in Seq(Entry), NoDup(q), ToSet(q) = ToSet(queue),
         NEW tm \in BOOLEAN, NEW w \in Status,
         w = wh \/ (wh = "idle" /\ w = "ok"),
         q # <<>> => tm \/ w # "idle",
         r.st # "free", r.obs = entry[e].obs, r.partial = entry[e].partial,
         writer = e => r.file = entry[e].file,
         entry' = [entry EXCEPT ![e] = r],
         queue' = q, timer' = tm, wh' = w, UNCHANGED <<flushing, helper>>
  PROVE  StoreOK'
<1>1. flushing' = flushing /\ writer' = writer /\ part' = part /\ werr' = werr
  BY DEF helper
<1>2. \A x \in Entry : /\ entry'[x].obs = entry[x].obs /\ entry'[x].partial = entry[x].partial
                       /\ entry[x].st # "free" => entry'[x].st # "free"
                       /\ x = writer => entry'[x].file = entry[x].file
  BY DEF StoreOK
<1>3. QueueLinked'
  <2>1. \A x \in Entry : entry'[x].obs => entry'[x].st # "free" /\ x \in ToSet(queue')
    BY <1>2 DEF StoreOK, QueueLinked
  <2>2. \A x \in ToSet(queue') : entry'[x].obs \/ (x = flushing' /\ wh' # "idle")
    BY <1>1, <1>2, ToSetLemma DEF StoreOK, QueueLinked
  <2>. QED BY <2>1, <2>2 DEF QueueLinked, NoDup
<1>4. SingleWriter'
  BY <1>1, <1>2 DEF StoreOK, SingleWriter
<1>5. NeverForgotten'
  BY DEF NeverForgotten
<1>. QED BY <1>1, <1>3, <1>4, <1>5 DEF StoreOK

-----------------------------------------------------------------------------
(* The operations on one entry.                                            *)

Faults == {"none", "space", "create", "write", "alloc"}

(* A fresh entry is a typed one, neither observed nor half written. *)
LEMMA BlankLemma == Blank \in EntryRecord /\ ~Blank.obs /\ ~Blank.partial
BY DEF Blank, EntryRecord, EntryState, Body

(* An empty body file. *)
LEMMA EmptyBody == <<>> \in Body
BY DEF Body

(* FlushL changes the buffer, the size and the file of an entry, not whether
   it is queued or being written, and no file that is open for a write. *)
LEMMA FlushLemma ==
  ASSUME NEW r \in EntryRecord, NEW busy \in BOOLEAN, NEW how \in Faults
  PROVE  /\ FlushL(r, busy, how) \in EntryRecord
         /\ FlushL(r, busy, how).st = r.st
         /\ FlushL(r, busy, how).obs = r.obs
         /\ FlushL(r, busy, how).partial = r.partial
         /\ busy => FlushL(r, busy, how).file = r.file
<1> PICK z \in Nat : z = 0
  OBVIOUS
<1>1. r.buf \in Seq(Nat)
  BY DEF EntryRecord, Body
<1>2. PICK f \in Body : f = IF how = "write" THEN Front(r.buf) ELSE r.buf
  <2>1. Front(r.buf) \in Seq(Nat)
    BY <1>1, SubSeqProperties DEF Front
  <2>. QED BY <1>1, <2>1 DEF Body
<1>3. CASE how = "space"
  BY <1>3 DEF FlushL
<1>4. CASE how # "space" /\ (busy \/ how = "create")
  <2>1. FlushL(r, busy, how) = [r EXCEPT !.size = z, !.buf = <<>>]
    BY <1>4 DEF FlushL, CreateFailed
  <2>. QED BY <2>1, EmptyBody DEF EntryRecord
<1>5. CASE how # "space" /\ ~(busy \/ how = "create") /\ r.cached
  <2>. PICK l \in BOOLEAN : l = (r.lost \/ how = "write")
    OBVIOUS
  <2>1. FlushL(r, busy, how) = [r EXCEPT !.file = f, !.buf = <<>>, !.cached = FALSE, !.lost = l]
    BY <1>5, <1>2 DEF FlushL
  <2>. QED BY <1>5, <2>1, EmptyBody DEF EntryRecord
<1>6. CASE how # "space" /\ ~(busy \/ how = "create") /\ ~r.cached
  <2>1. FlushL(r, busy, how) = [r EXCEPT !.file = <<>>]
    BY <1>6 DEF FlushL
  <2>. QED BY <1>6, <2>1, EmptyBody DEF EntryRecord
<1>. QED BY <1>3, <1>4, <1>5, <1>6

(* RemoveBodyData likewise. *)
LEMMA RemoveBodyDataLemma ==
  ASSUME NEW r \in EntryRecord, NEW busy \in BOOLEAN
  PROVE  LET s == RemoveBodyData(r, busy)
         IN /\ s \in EntryRecord /\ s.st = r.st /\ s.obs = r.obs /\ s.partial = r.partial
            /\ busy => s.file = r.file
<1> PICK z \in Nat : z = 0
  OBVIOUS
<1>1. CASE busy
  <2>1. RemoveBodyData(r, busy) = [r EXCEPT !.size = z, !.buf = <<>>, !.file = r.file,
                                             !.lost = FALSE]
    BY <1>1 DEF RemoveBodyData
  <2>. QED BY <2>1, EmptyBody DEF EntryRecord
<1>2. CASE ~busy
  <2>1. PICK f \in Body \cup {None} : f = IF r.file = None THEN r.file ELSE <<>>
    BY EmptyBody DEF EntryRecord
  <2>2. RemoveBodyData(r, busy) = [r EXCEPT !.size = z, !.buf = <<>>, !.file = f, !.lost = FALSE]
    BY <1>2, <2>1 DEF RemoveBodyData
  <2>. QED BY <1>2, <2>2, EmptyBody DEF EntryRecord
<1>. QED BY <1>1, <1>2

(* SaveBodyData likewise, whether it finds memory for the data or not. *)
LEMMA SaveLemma ==
  ASSUME NEW r \in EntryRecord
  PROVE  /\ SaveInMemory(r) \in EntryRecord /\ SaveInMemory(r).st = r.st
         /\ SaveInMemory(r).obs = r.obs /\ SaveInMemory(r).partial = r.partial
         /\ SaveInMemory(r).file = r.file
         /\ SaveOnDisk(r) \in EntryRecord /\ SaveOnDisk(r).st = r.st
         /\ SaveOnDisk(r).obs = r.obs /\ SaveOnDisk(r).partial = r.partial
<1>1. r.buf \in Seq(Nat) /\ r.hdr \in Nat /\ r.size \in Nat
  BY DEF EntryRecord, Body
<1>2. PICK b \in Body : b = Append(r.buf, r.hdr)
  <2>1. Append(r.buf, r.hdr) \in Seq(Nat)
    BY <1>1
  <2>. QED BY <2>1 DEF Body
<1> PICK n \in Nat : n = r.size + 1
  BY <1>1
<1>3. SaveInMemory(r) = [r EXCEPT !.buf = b, !.cached = TRUE, !.size = n]
  BY <1>2 DEF SaveInMemory
<1>4. SaveOnDisk(r) = [r EXCEPT !.file = b, !.cached = FALSE, !.size = n]
  BY <1>2 DEF SaveOnDisk
<1>5. [r EXCEPT !.buf = b, !.cached = TRUE, !.size = n] \in EntryRecord
  BY <1>1 DEF EntryRecord
<1>6. [r EXCEPT !.file = b, !.cached = FALSE, !.size = n] \in EntryRecord
  BY <1>1, EmptyBody DEF EntryRecord
<1>. QED BY <1>3, <1>4, <1>5, <1>6 DEF EntryRecord

(* ExternalizeL writes index records. *)
LEMMA SavedIndexLemma ==
  ASSUME NEW ent \in [Entry -> EntryRecord]
  PROVE  SavedIndex(ent) \in [Entry -> IndexRecord]
BY DEF SavedIndex, IndexRecord, EntryRecord

(* An entry read back from the index is neither queued nor being written. *)
LEMMA OpenedLemma ==
  ASSUME TypeOK, NEW e \in Entry, NEW crashed \in BOOLEAN
  PROVE  /\ Opened(e, crashed) \in EntryRecord
         /\ ~Opened(e, crashed).obs /\ ~Opened(e, crashed).partial
<1>1. PICK f \in Body \cup {None} : f = entry[e].file
  BY DEF TypeOK, EntryRecord
<1>2. PICK g \in Body \cup {None} : g = IF crashed THEN None ELSE f
  OBVIOUS
<1>3. CASE index[e] = None
  <2>1. Opened(e, crashed) = [Blank EXCEPT !.file = g]
    BY <1>1, <1>2, <1>3 DEF Opened
  <2>. QED BY <2>1, BlankLemma DEF EntryRecord
<1>4. CASE index[e] # None
  <2>1. PICK h \in Nat, n \in Nat, l \in BOOLEAN :
          h = index[e].hdr /\ n = index[e].size /\ l = entry[e].lost
    BY <1>4 DEF TypeOK, IndexRecord, EntryRecord
  <2>2. \/ Opened(e, crashed) = Blank
        \/ Opened(e, crashed) = [Blank EXCEPT !.st = "complete", !.hdr = h, !.size = n, !.file = f,
                                      !.lost = l]
    BY <1>1, <1>4, <2>1 DEF Opened
  <2>. QED BY <2>2, BlankLemma, ZenonT(60) DEF EntryRecord, EntryState
<1>. QED BY <1>3, <1>4

(* RunL is done with an entry: it no longer reports its deletion. *)
LEMMA SettledLemma ==
  ASSUME NEW r \in EntryRecord
  PROVE  /\ Settled(r) \in EntryRecord /\ ~Settled(r).obs
         /\ ~r.partial => ~Settled(r).partial
BY BlankLemma DEF Settled, EntryRecord, EntryState

(* RunL between its two halves and before it flushes the next entry. *)
RunLOK(ent, q) ==
  /\ ent \in [Entry -> EntryRecord] /\ q \in Seq(Entry) /\ NoDup(q)
  /\ \A e \in Entry : ent[e].obs => ent[e].st # "free" /\ e \in ToSet(q)
  /\ \A e \in ToSet(q) : ent[e].obs
  /\ \A e \in Entry : ~ent[e].partial

(* The first half of RunL: the entry that was flushed is settled and unlinked. *)
LEMMA RunLLemma1 ==
  ASSUME StoreOK, RunLReady
  PROVE  RunLOK(Entry1, Queue1)
<1>1. /\ Queue1 \in Seq(Entry) /\ NoDup(Queue1)
      /\ \A x : x \in ToSet(Queue1) <=> x \in ToSet(queue) /\ x # flushing
  BY RemoveFirstLemma DEF Queue1, StoreOK, QueueLinked, NoDup
<1>2. \A e \in Entry : ~entry[e].partial
  BY NoneAssumption DEF StoreOK, SingleWriter, RunLReady
<1>3. /\ Entry1 \in [Entry -> EntryRecord]
      /\ \A e \in Entry : e # flushing \/ e \notin ToSet(queue) => Entry1[e] = entry[e]
      /\ \A e \in Entry : e = flushing /\ e \in ToSet(queue) => ~Entry1[e].obs
      /\ \A e \in Entry : ~Entry1[e].partial
  BY <1>2, SettledLemma, ToSetLemma DEF Entry1, StoreOK
<1>4. \A e \in Entry : Entry1[e].obs => Entry1[e].st # "free" /\ e \in ToSet(Queue1)
  BY <1>1, <1>3 DEF StoreOK, QueueLinked
<1>5. \A e \in ToSet(Queue1) : Entry1[e].obs
  BY <1>1, <1>3, ToSetLemma DEF StoreOK, QueueLinked
<1>. QED BY <1>1, <1>3, <1>4, <1>5 DEF RunLOK

(* Then the heads of the queue that need no write are settled and unlinked. *)
LEMMA RunLLemma2 ==
  ASSUME StoreOK, RunLReady
  PROVE  RunLOK(Entry2, Queue2)
<1>1. RunLOK(Entry1, Queue1)
  BY RunLLemma1
<1>2. EmptyHeads \in 0..Len(Queue1)
  <2>1. Len(Queue1) \in Nat
    BY <1>1 DEF RunLOK
  <2>2. IsFiniteSet(1..Len(Queue1)) /\ Cardinality(1..Len(Queue1)) = Len(Queue1)
    <3>1. IsFiniteSet(1..Len(Queue1)) /\ Cardinality(1..Len(Queue1)) =
            IF 1 > Len(Queue1) THEN 0 ELSE Len(Queue1) - 1 + 1
      BY <2>1, FS_Interval
    <3>. QED BY <2>1, <3>1
  <2>3. {n \in 1..Len(Queue1) : \A i \in 1..n : Entry1[Queue1[i]].size = 0} \subseteq 1..Len(Queue1)
    OBVIOUS
  <2>4. EmptyHeads <= Len(Queue1) /\ EmptyHeads \in Nat
    BY <2>2, <2>3, FS_Subset, FS_CardinalityType DEF EmptyHeads
  <2>. QED BY <2>1, <2>4
<1>3. /\ Queue2 \in Seq(Entry) /\ NoDup(Queue2)
      /\ \A x : x \in ToSet(Queue2) <=> \E i \in EmptyHeads+1..Len(Queue1) : x = Queue1[i]
  <2>1. Queue2 = Suffix(Queue1, EmptyHeads)
    BY DEF Queue2, Suffix
  <2>. QED BY <1>1, <1>2, <2>1, SuffixLemma DEF RunLOK
<1>4. ToSet(Queue2) \subseteq ToSet(Queue1)
  BY <1>1, <1>2, <1>3, ToSetLemma DEF RunLOK
<1>5. /\ Entry2 \in [Entry -> EntryRecord]
      /\ \A e \in Entry : e \in ToSet(Queue1) \ ToSet(Queue2) => ~Entry2[e].obs
      /\ \A e \in Entry : e \notin ToSet(Queue1) \ ToSet(Queue2) => Entry2[e] = Entry1[e]
      /\ \A e \in Entry : ~Entry2[e].partial
  <2>1. ASSUME NEW e \in Entry
        PROVE  /\ Entry2[e] \in EntryRecord /\ ~Entry2[e].partial
               /\ e \in ToSet(Queue1) \ ToSet(Queue2) => ~Entry2[e].obs
               /\ e \notin ToSet(Queue1) \ ToSet(Queue2) => Entry2[e] = Entry1[e]
    <3>1. Entry1[e] \in EntryRecord /\ ~Entry1[e].partial
      BY <1>1 DEF RunLOK
    <3>2. PICK r : r = [Entry1[e] EXCEPT !.obs = FALSE]
      OBVIOUS
    <3>3. r \in EntryRecord /\ ~r.partial /\ ~r.obs
      BY <3>1, <3>2 DEF EntryRecord
    <3>4. Entry2[e] = IF e \in ToSet(Queue1) \ ToSet(Queue2) THEN r ELSE Entry1[e]
      BY <3>2 DEF Entry2
    <3>. QED BY <3>1, <3>3, <3>4
  <2>2. Entry2 = [e \in Entry |-> Entry2[e]]
    BY DEF Entry2
  <2>. QED BY <2>1, <2>2
<1>6. \A e \in Entry : Entry2[e].obs => Entry2[e].st # "free" /\ e \in ToSet(Queue2)
  BY <1>1, <1>5 DEF RunLOK
<1>7. \A e \in ToSet(Queue2) : Entry2[e].obs
  BY <1>1, <1>3, <1>4, <1>5, ToSetLemma DEF RunLOK
<1>. QED BY <1>3, <1>5, <1>6, <1>7 DEF RunLOK

-----------------------------------------------------------------------------
(* Every action keeps the inductive invariant.                             *)

(* A handler that was just constructed. *)
LEMMA InitLemma == Init => IInv
<1> SUFFICES ASSUME Init PROVE IInv
  OBVIOUS
<1>1. TypeOK
  <2>1. entry \in [Entry -> EntryRecord] /\ index \in [Entry -> IndexRecord]
    BY BlankLemma DEF Init, IndexRecord
  <2>2. queue \in Seq(Entry)
    BY DEF Init
  <2>. QED BY <2>1, <2>2 DEF Init, TypeOK
<1>2. QueueLinked
  BY BlankLemma DEF Init, QueueLinked, ToSet
<1>3. SingleWriter
  BY BlankLemma, NoneAssumption DEF Init, SingleWriter
<1>. QED BY <1>1, <1>2, <1>3 DEF IInv, NeverForgotten, Init

(* Steps of others. *)
LEMMA StutterLemma == IInv /\ UNCHANGED vars => IInv'
BY DEF IInv, TypeOK, QueueLinked, NeverForgotten, SingleWriter, vars, handler, helper

(* DeleteCacheEntry, and an unchanged handler, as the lemmas want them. *)
LEMMA DeleteLemma ==
  ASSUME StoreOK, NEW e \in Entry, DeleteCacheEntry(e)
  PROVE  StoreOK'
<1>1. /\ NoDup(queue) /\ queue \in Seq(Entry) /\ timer \in BOOLEAN /\ wh \in Status
      /\ queue # <<>> => timer \/ wh # "idle"
  BY DEF StoreOK, QueueLinked, NeverForgotten, NoDup
<1>. QED BY <1>1, EraseLemma DEF DeleteCacheEntry

(* An entry that is deleted reports it, if it was queued. *)
LEMMA ObservedLemma ==
  ASSUME StoreOK, NEW e \in Entry, EraseEntry(e, queue, timer, wh, entry[e].obs)
  PROVE  StoreOK'
<1>1. /\ NoDup(queue) /\ queue \in Seq(Entry) /\ timer \in BOOLEAN /\ wh \in Status
      /\ queue # <<>> => timer \/ wh # "idle"
  BY DEF StoreOK, QueueLinked, NeverForgotten, NoDup
<1>2. entry[e].obs \in BOOLEAN
  BY DEF StoreOK, EntryRecord
<1>. QED BY <1>1, <1>2, EraseLemma

(* A step that changes one entry and not the write handler. *)
LEMMA EntryLemma ==
  ASSUME StoreOK, NEW e \in Entry, NEW r \in EntryRecord,
         r.st # "free", r.obs = entry[e].obs, r.partial = entry[e].partial,
         writer = e => r.file = entry[e].file,
         entry' = [entry EXCEPT ![e] = r], UNCHANGED <<handler, helper>>
  PROVE  StoreOK'
<1>1. /\ NoDup(queue) /\ queue \in Seq(Entry) /\ timer \in BOOLEAN /\ wh \in Status
      /\ queue # <<>> => timer \/ wh # "idle"
  BY DEF StoreOK, QueueLinked, NeverForgotten, NoDup
<1>2. queue' = queue /\ timer' = timer /\ wh' = wh /\ UNCHANGED <<flushing, helper>>
  BY DEF handler, helper
<1>. QED BY <1>1, <1>2, TouchLemma

(* A free entry is linked nowhere. *)
LEMMA FreeLemma ==
  ASSUME StoreOK, NEW e \in Entry, entry[e].st = "free"
  PROVE  ~entry[e].obs /\ ~entry[e].partial /\ writer # e
BY NoneAssumption DEF StoreOK, QueueLinked, SingleWriter

(* Headers of a new response, saved or not. *)
LEMMA NewResponseLemma ==
  ASSUME StoreOK, gen \in Nat, NEW e \in Entry, NewResponse(e)
  PROVE  StoreOK' /\ gen' \in Nat
<1>1. gen' = gen + 1
  BY DEF NewResponse
<1>2. CASE DeleteCacheEntry(e)
  BY <1>1, <1>2, DeleteLemma
<1>3. CASE /\ entry' = [entry EXCEPT ![e] = [Blank EXCEPT !.st = "responding", !.hdr = gen + 1]]
           /\ UNCHANGED <<handler, helper>>
  <2>1. PICK h \in Nat : h = gen + 1
    OBVIOUS
  <2> PICK r : r = [Blank EXCEPT !.st = "responding", !.hdr = h]
    OBVIOUS
  <2>2. r \in EntryRecord /\ ~r.obs /\ ~r.partial /\ r.st # "free"
    BY BlankLemma DEF EntryRecord, EntryState
  <2>3. ~entry[e].obs /\ ~entry[e].partial /\ writer # e
    BY FreeLemma DEF NewResponse, Allocatable
  <2>4. entry[e].obs = FALSE /\ entry[e].partial = FALSE /\ r.obs = FALSE /\ r.partial = FALSE
    BY <2>2, <2>3 DEF StoreOK, EntryRecord
  <2>5. entry' = [entry EXCEPT ![e] = r]
    BY <1>3, <2>1, <2>2
  <2>6. StoreOK'
    BY <1>3, <2>2, <2>3, <2>4, <2>5, EntryLemma
  <2>. QED BY <1>1, <2>6
<1>. QED BY <1>2, <1>3 DEF NewResponse

(* Headers of an update, saved or not. *)
LEMMA UpdatedResponseLemma ==
  ASSUME StoreOK, gen \in Nat, NEW e \in Entry, UpdatedResponse(e)
  PROVE  StoreOK' /\ gen' \in Nat
<1>1. gen' = gen + 1
  BY DEF UpdatedResponse
<1>2. CASE DeleteCacheEntry(e)
  BY <1>1, <1>2, DeleteLemma
<1>3. CASE /\ entry' = [entry EXCEPT ![e].st = "responding", ![e].hdr = gen + 1,
                                     ![e].delNeeded = TRUE]
           /\ UNCHANGED <<handler, helper>>
  <2>1. PICK h \in Nat : h = gen + 1
    OBVIOUS
  <2>2. entry[e] \in EntryRecord
    BY DEF StoreOK
  <2> PICK r : r = [entry[e] EXCEPT !.st = "responding", !.hdr = h, !.delNeeded = TRUE]
    OBVIOUS
  <2>3. /\ r \in EntryRecord /\ r.st # "free" /\ r.obs = entry[e].obs
        /\ r.partial = entry[e].partial /\ r.file = entry[e].file
    BY <2>2 DEF EntryRecord, EntryState
  <2>4. entry' = [entry EXCEPT ![e] = r]
    BY <1>3, <2>1, <2>3 DEF StoreOK
  <2>5. StoreOK'
    BY <1>3, <2>3, <2>4, EntryLemma
  <2>. QED BY <1>1, <2>5
<1>. QED BY <1>2, <1>3 DEF UpdatedResponse

(* A part of the body arrives, and the old body goes. *)
LEMMA BodyDataLemma ==
  ASSUME StoreOK, NEW e \in Entry, ReceivedResponseBodyDataL(e)
  PROVE  StoreOK'
<1>1. entry[e] \in EntryRecord /\ entry[e].st = "responding" /\ Busy(e) \in BOOLEAN
  BY DEF StoreOK, ReceivedResponseBodyDataL, Busy
<1>2. PICK r : r = IF entry[e].delNeeded
                   THEN [RemoveBodyData(entry[e], Busy(e)) EXCEPT !.delNeeded = FALSE]
                   ELSE entry[e]
  OBVIOUS
<1>3. /\ r \in EntryRecord /\ r.st = "responding" /\ r.obs = entry[e].obs
      /\ r.partial = entry[e].partial /\ (Busy(e) => r.file = entry[e].file)
  <2>1. CASE ~entry[e].delNeeded
    BY <1>1, <1>2, <2>1
  <2>2. CASE entry[e].delNeeded
    <3>1. PICK b : /\ b = RemoveBodyData(entry[e], Busy(e))
                   /\ b \in EntryRecord /\ b.st = entry[e].st /\ b.obs = entry[e].obs
                   /\ b.partial = entry[e].partial /\ (Busy(e) => b.file = entry[e].file)
      BY <1>1, RemoveBodyDataLemma
    <3>2. r = [b EXCEPT !.delNeeded = FALSE]
      BY <1>2, <2>2, <3>1
    <3>. QED BY <1>1, <3>1, <3>2 DEF EntryRecord
  <2>. QED BY <2>1, <2>2
<1>4. \/ DeleteCacheEntry(e)
      \/ entry' = [entry EXCEPT ![e] = SaveInMemory(r)] /\ UNCHANGED <<handler, helper>>
      \/ /\ ~Busy(e) /\ entry' = [entry EXCEPT ![e] = SaveOnDisk(r)]
         /\ UNCHANGED <<handler, helper>>
  BY <1>2 DEF ReceivedResponseBodyDataL
<1>5. CASE DeleteCacheEntry(e)
  BY <1>5, DeleteLemma
<1>6. CASE entry' = [entry EXCEPT ![e] = SaveInMemory(r)] /\ UNCHANGED <<handler, helper>>
  <2> PICK s : s = SaveInMemory(r)
    OBVIOUS
  <2>1. /\ s \in EntryRecord /\ s.st # "free" /\ s.obs = entry[e].obs
        /\ s.partial = entry[e].partial /\ (writer = e => s.file = entry[e].file)
    <3>1. /\ s \in EntryRecord /\ s.st = r.st /\ s.obs = r.obs
          /\ s.partial = r.partial /\ s.file = r.file
      BY <1>3, SaveLemma
    <3>. QED BY <1>3, <3>1 DEF Busy
  <2>. QED BY <1>6, <2>1, EntryLemma
<1>7. CASE /\ ~Busy(e) /\ entry' = [entry EXCEPT ![e] = SaveOnDisk(r)]
           /\ UNCHANGED <<handler, helper>>
  <2> PICK s : s = SaveOnDisk(r)
    OBVIOUS
  <2>1. /\ s \in EntryRecord /\ s.st # "free" /\ s.obs = entry[e].obs
        /\ s.partial = entry[e].partial /\ writer # e
    <3>1. s \in EntryRecord /\ s.st = r.st /\ s.obs = r.obs /\ s.partial = r.partial
      BY <1>3, SaveLemma
    <3>. QED BY <1>3, <1>7, <3>1 DEF Busy
  <2>. QED BY <1>7, <2>1, EntryLemma
<1>. QED BY <1>4, <1>5, <1>6, <1>7

(* AddEntry queues the entry, again or for the first time. *)
LEMMA PostponedLemma ==
  ASSUME StoreOK, NEW e \in Entry, ResponsePostponed(e)
  PROVE  StoreOK'
<1>1. PICK rest : rest = RemoveFirst(queue, e)
  OBVIOUS
<1>2. /\ rest \in Seq(Entry) /\ NoDup(rest)
      /\ \A x : x \in ToSet(rest) <=> x \in ToSet(queue) /\ x # e
  BY <1>1, RemoveFirstLemma DEF StoreOK, QueueLinked, NoDup
<1>3. /\ queue' \in SortedQueues(ToSet(rest) \cup {e}, Len(rest) + 1)
      /\ entry' = [entry EXCEPT ![e].st = "complete", ![e].obs = TRUE]
      /\ timer' = TRUE
      /\ flushing' = flushing /\ wh' = wh /\ writer' = writer /\ part' = part /\ werr' = werr
  BY <1>1 DEF ResponsePostponed, helper
<1>4. ToSet(rest) \cup {e} \subseteq Entry /\ Len(rest) + 1 \in Nat
  BY <1>2, ToSetLemma
<1>5. /\ queue' \in Seq(Entry) /\ NoDup(queue') /\ ToSet(queue') = ToSet(rest) \cup {e}
  BY <1>3, <1>4, SortedLemma
<1>6. \A x : x \in ToSet(queue') <=> x \in ToSet(queue) \/ x = e
  BY <1>2, <1>5
<1>7. entry' \in [Entry -> EntryRecord]
  <2>1. PICK r : r = [entry[e] EXCEPT !.st = "complete", !.obs = TRUE]
    OBVIOUS
  <2>2. r \in EntryRecord
    BY <2>1 DEF StoreOK, EntryRecord, EntryState
  <2>3. entry' = [entry EXCEPT ![e] = r]
    BY <1>3, <2>1 DEF StoreOK
  <2>. QED BY <2>2, <2>3 DEF StoreOK
<1>8. \A x \in Entry : /\ x # e => entry'[x] = entry[x]
                       /\ x = e => entry'[x].obs /\ entry'[x].st = "complete"
                       /\ entry'[x].partial = entry[x].partial
                       /\ entry'[x].file = entry[x].file
  BY <1>3 DEF StoreOK
<1>9. QueueLinked'
  <2>1. \A x \in Entry : entry'[x].obs => entry'[x].st # "free" /\ x \in ToSet(queue')
    BY <1>6, <1>8 DEF StoreOK, QueueLinked
  <2>2. \A x \in ToSet(queue') : entry'[x].obs \/ (x = flushing' /\ wh' # "idle")
    <3> SUFFICES ASSUME NEW x \in ToSet(queue')
                 PROVE  entry'[x].obs \/ (x = flushing' /\ wh' # "idle")
      OBVIOUS
    <3>1. x \in Entry
      BY <1>5, ToSetLemma
    <3>. QED BY <3>1, <1>3, <1>6, <1>8 DEF StoreOK, QueueLinked
  <2>. QED BY <2>1, <2>2, <1>5 DEF QueueLinked, NoDup
<1>10. SingleWriter'
  BY <1>3, <1>6, <1>8 DEF StoreOK, SingleWriter
<1>. QED BY <1>3, <1>5, <1>7, <1>9, <1>10 DEF StoreOK, NeverForgotten

(* The body is flushed at once, with any queue, timer and status AddEntry may
   have left; a failed flush deletes the entry. *)
LEMMA FlushNowLemma ==
  ASSUME StoreOK, NEW e \in Entry, NEW how \in FlushFault, entry[e].st # "free",
         NEW q \in Seq(Entry), NoDup(q), ToSet(q) = ToSet(queue),
         NEW tm \in BOOLEAN, NEW w \in Status,
         w = wh \/ (wh = "idle" /\ w = "ok"),
         q # <<>> => tm \/ w # "idle",
         FlushNow(e, q, tm, w, how)
  PROVE  StoreOK'
<1>1. CASE EraseEntry(e, q, tm, w, TRUE)
  BY <1>1, EraseLemma
<1>2. CASE /\ FlushOk(entry[e], Busy(e), how)
           /\ entry' = [entry EXCEPT ![e] = [FlushL(@, Busy(e), how) EXCEPT !.st = "complete"]]
           /\ queue' = q /\ timer' = tm /\ wh' = w
           /\ UNCHANGED <<flushing, helper>>
  <2>1. PICK f : f = FlushL(entry[e], Busy(e), how)
    OBVIOUS
  <2>2. entry[e] \in EntryRecord /\ Busy(e) \in BOOLEAN /\ how \in Faults /\ writer # e
    BY <1>2 DEF StoreOK, Busy, FlushFault, Faults, FlushOk
  <2>3. f \in EntryRecord /\ f.obs = entry[e].obs /\ f.partial = entry[e].partial
    BY <2>1, <2>2, FlushLemma
  <2>4. PICK r : r = [f EXCEPT !.st = "complete"]
    OBVIOUS
  <2>5. /\ r \in EntryRecord /\ r.st # "free" /\ r.obs = entry[e].obs
        /\ r.partial = entry[e].partial
    BY <2>3, <2>4 DEF EntryRecord, EntryState
  <2>6. entry' = [entry EXCEPT ![e] = r]
    BY <1>2, <2>1, <2>4 DEF StoreOK
  <2>. QED BY <1>2, <2>2, <2>5, <2>6, TouchLemma
<1>. QED BY <1>1, <1>2 DEF FlushNow

(* ResponseComplete without postponing. *)
LEMMA WrittenLemma ==
  ASSUME StoreOK, NEW e \in Entry, NEW how \in FlushFault, ResponseWritten(e, how)
  PROVE  StoreOK'
<1>1. /\ entry[e].st # "free" /\ queue \in Seq(Entry) /\ NoDup(queue) /\ timer \in BOOLEAN
      /\ wh \in Status /\ (queue # <<>> => timer \/ wh # "idle")
  BY DEF StoreOK, QueueLinked, NeverForgotten, NoDup, ResponseWritten
<1>2. CASE FlushNow(e, queue, timer, wh, how)
  BY <1>1, <1>2, FlushNowLemma
<1>3. CASE FlushNow(e, queue, FALSE, IF timer THEN BeginWriting(wh) ELSE wh, how)
  <2>1. PICK w \in Status : /\ w = IF timer THEN BeginWriting(wh) ELSE wh
                            /\ w = wh \/ (wh = "idle" /\ w = "ok")
                            /\ queue # <<>> => w # "idle"
    BY <1>1 DEF BeginWriting, Status
  <2>2. FlushNow(e, queue, FALSE, w, how)
    BY <1>3, <2>1
  <2>. QED BY <1>1, <2>1, <2>2, FlushNowLemma
<1>4. ASSUME NEW q \in SortedQueues(ToSet(queue), Len(queue)), FlushNow(e, q, timer, wh, how)
      PROVE  StoreOK'
  <2>1. ToSet(queue) \subseteq Entry /\ Len(queue) \in Nat
    BY <1>1, ToSetLemma
  <2>2. q \in Seq(Entry) /\ NoDup(q) /\ ToSet(q) = ToSet(queue)
    BY <2>1, SortedLemma
  <2>3. q # <<>> => queue # <<>>
    <3> SUFFICES ASSUME q # <<>> PROVE queue # <<>>
      OBVIOUS
    <3>1. 1 \in 1..Len(q)
      BY <2>2
    <3>2. \E i \in 1..Len(queue) : queue[i] = q[1]
      BY <3>1, <2>2, <1>1, ToSetLemma
    <3>. QED BY <3>2
  <2>. QED BY <1>1, <1>4, <2>2, <2>3, FlushNowLemma
<1>. QED BY <1>2, <1>3, <1>4 DEF ResponseWritten

(* A state change of one live entry: RequestL and RequestClosed. *)
LEMMA RequestLemma ==
  ASSUME StoreOK, NEW e \in Entry, entry[e].st # "free", NEW st \in EntryState, st # "free",
         entry' = [entry EXCEPT ![e].st = st], UNCHANGED <<handler, helper>>
  PROVE  StoreOK'
<1>1. PICK r : r = [entry[e] EXCEPT !.st = st]
  OBVIOUS
<1>2. entry[e] \in EntryRecord
  BY DEF StoreOK
<1>3. /\ r \in EntryRecord /\ r.st # "free" /\ r.obs = entry[e].obs
      /\ r.partial = entry[e].partial /\ r.file = entry[e].file
  BY <1>1, <1>2 DEF EntryRecord
<1>4. entry' = [entry EXCEPT ![e] = r]
  BY <1>1 DEF StoreOK
<1>. QED BY <1>3, <1>4, EntryLemma

(* SaveL: headers, body and completion in one call. *)
LEMMA SaveLLemma ==
  ASSUME StoreOK, gen \in Nat, NEW e \in Entry, NEW how \in FlushFault, SaveL(e, how)
  PROVE  StoreOK' /\ gen' \in Nat
<1>1. gen' = gen + 1
  BY DEF SaveL
<1>2. CASE DeleteCacheEntry(e)
  BY <1>1, <1>2, DeleteLemma
<1>3. PICK h \in Nat : h = gen + 1
  OBVIOUS
<1>4. PICK b : b = [Blank EXCEPT !.st = "complete", !.hdr = h]
  OBVIOUS
<1>5. b \in EntryRecord /\ b.st = "complete" /\ ~b.obs /\ ~b.partial
  BY <1>4, BlankLemma DEF EntryRecord, EntryState
<1>6. PICK r : r = SaveInMemory(b)
  OBVIOUS
<1>7. r \in EntryRecord /\ r.st = "complete" /\ ~r.obs /\ ~r.partial
  BY <1>5, <1>6, SaveLemma
<1>8. PICK f : f = FlushL(r, FALSE, how)
  OBVIOUS
<1>9. f \in EntryRecord /\ f.st = "complete" /\ ~f.obs /\ ~f.partial
  <2>1. how \in Faults
    BY DEF FlushFault, Faults
  <2>. QED BY <2>1, <1>7, <1>8, FlushLemma, ZenonT(60)
<1>10. CASE entry' = [entry EXCEPT ![e] = f] /\ UNCHANGED <<handler, helper>>
  <2>1. ~entry[e].obs /\ ~entry[e].partial /\ writer # e
    BY FreeLemma DEF SaveL, Allocatable
  <2>2. f.obs = entry[e].obs /\ f.partial = entry[e].partial
    BY <1>9, <2>1 DEF StoreOK, EntryRecord
  <2>3. StoreOK'
    BY <1>9, <1>10, <2>1, <2>2, EntryLemma
  <2>. QED BY <1>1, <2>3
<1>. QED BY <1>2, <1>10, <1>3, <1>4, <1>6, <1>8 DEF SaveL

(* The handler is idle, empty and without a writer: as after RemoveAll, a
   shutdown or a restart. *)
LEMMA IdleEmptyLemma ==
  ASSUME entry' \in [Entry -> EntryRecord],
         \A e \in Entry : ~entry'[e].obs /\ ~entry'[e].partial,
         queue' = <<>>, wh' # "pending", wh' \in Status, writer' = None,
         flushing' \in Entry \cup {None}, timer' \in BOOLEAN, part' \in Nat, werr' \in BOOLEAN
  PROVE  StoreOK'
<1>1. QueueLinked' /\ NeverForgotten'
  BY DEF QueueLinked, NeverForgotten, ToSet
<1>2. SingleWriter'
  BY NoneAssumption DEF SingleWriter
<1>3. queue' \in Seq(Entry)
  OBVIOUS
<1>. QED BY <1>1, <1>2, <1>3 DEF StoreOK

(* RemoveAllL empties the queue and deletes what is complete. *)
LEMMA RemoveAllLemma ==
  ASSUME StoreOK, RemoveAllL
  PROVE  StoreOK' /\ index' \in [Entry -> IndexRecord]
<1>1. /\ entry' = [e \in Entry |->
                     IF entry[e].st = "complete" THEN Blank
                     ELSE [entry[e] EXCEPT !.obs = @ /\ e \notin ToSet(queue)]]
      /\ queue' = <<>> /\ wh' = "idle" /\ flushing' = flushing /\ timer' = timer
      /\ writer' = writer /\ part' = part /\ werr' = werr /\ wh # "pending"
      /\ index' = SavedIndex(entry')
  BY DEF RemoveAllL, helper
<1>2. writer = None
  BY <1>1 DEF StoreOK, SingleWriter
<1>3. ASSUME NEW e \in Entry
      PROVE  entry'[e] \in EntryRecord /\ ~entry'[e].obs /\ ~entry'[e].partial
  <2>1. ~entry[e].partial /\ ~(entry[e].obs /\ e \notin ToSet(queue))
    BY <1>2, NoneAssumption DEF StoreOK, SingleWriter, QueueLinked
  <2>2. entry'[e] = Blank \/ entry'[e] = [entry[e] EXCEPT !.obs = FALSE]
    BY <1>1, <2>1
  <2>3. entry[e] \in EntryRecord
    BY DEF StoreOK
  <2>. QED BY <2>1, <2>2, <2>3, BlankLemma DEF EntryRecord
<1>4. entry' \in [Entry -> EntryRecord]
  BY <1>1, <1>3
<1>5. StoreOK'
  <2>1. flushing \in Entry \cup {None} /\ timer \in BOOLEAN /\ part \in Nat /\ werr \in BOOLEAN
    BY DEF StoreOK
  <2>. QED BY <1>1, <1>2, <1>3, <1>4, <2>1, IdleEmptyLemma DEF Status
<1>. QED BY <1>1, <1>4, <1>5, SavedIndexLemma

(* Collect flushes and unlinks entries, and may start the writer. *)
LEMMA CollectLemma ==
  ASSUME StoreOK, NEW k \in 0..Len(queue), Collect(k)
  PROVE  StoreOK'
<1>1. PICK u : u = Uncollected(k)
  OBVIOUS
<1>2. k <= Collectable /\ NoDup(queue) /\ queue \in Seq(Entry)
  BY DEF Collect, StoreOK, QueueLinked, NoDup
<1>3. /\ u \in Seq(Entry) /\ NoDup(u) /\ ToSet(u) \subseteq ToSet(queue)
      /\ flushing \in ToSet(queue) => flushing \in ToSet(u)
  BY <1>1, <1>2, UncollectedLemma
<1>4. PICK how \in [ToSet(queue) \ ToSet(u) -> FlushFault] :
        entry' = [e \in Entry |->
                    IF e \in ToSet(queue) \ ToSet(u)
                    THEN [FlushL(entry[e], Busy(e), how[e]) EXCEPT !.obs = FALSE]
                    ELSE entry[e]]
  BY <1>1 DEF Collect
<1>5. /\ queue' = u /\ timer' = FALSE /\ wh' = BeginWriting(wh) /\ flushing' = flushing
      /\ writer' = writer /\ part' = part /\ werr' = werr
  BY <1>1 DEF Collect, helper
<1>6. /\ wh' \in Status /\ wh' # "idle" /\ (wh # "idle" => wh' = wh)
      /\ (wh' = "pending" => wh = "pending")
  BY <1>5 DEF BeginWriting, StoreOK, Status
<1>7. ASSUME NEW e \in Entry
      PROVE  /\ entry'[e] \in EntryRecord /\ entry'[e].st = entry[e].st
             /\ entry'[e].partial = entry[e].partial
             /\ e \in ToSet(queue) \ ToSet(u) => ~entry'[e].obs
             /\ e \notin ToSet(queue) \ ToSet(u) => entry'[e] = entry[e]
  <2>1. entry[e] \in EntryRecord /\ Busy(e) \in BOOLEAN
    BY DEF StoreOK, Busy
  <2>2. CASE e \in ToSet(queue) \ ToSet(u)
    <3>1. how[e] \in Faults
      BY <1>4, <2>2 DEF FlushFault, Faults
    <3>2. PICK f : f = FlushL(entry[e], Busy(e), how[e])
      OBVIOUS
    <3>3. f \in EntryRecord /\ f.st = entry[e].st /\ f.partial = entry[e].partial
      BY <2>1, <3>1, <3>2, FlushLemma
    <3>4. entry'[e] = [f EXCEPT !.obs = FALSE]
      BY <1>4, <2>2, <3>2
    <3>. QED BY <2>2, <3>3, <3>4 DEF EntryRecord
  <2>3. CASE e \notin ToSet(queue) \ ToSet(u)
    BY <1>4, <2>1, <2>3
  <2>. QED BY <2>2, <2>3
<1>8. entry' \in [Entry -> EntryRecord]
  BY <1>4, <1>7
<1>9. QueueLinked'
  <2>1. \A e \in Entry : entry'[e].obs => entry'[e].st # "free" /\ e \in ToSet(queue')
    BY <1>5, <1>7 DEF StoreOK, QueueLinked
  <2>2. \A e \in ToSet(queue') : entry'[e].obs \/ (e = flushing' /\ wh' # "idle")
    <3> SUFFICES ASSUME NEW e \in ToSet(queue')
                 PROVE  entry'[e].obs \/ (e = flushing' /\ wh' # "idle")
      OBVIOUS
    <3>1. e \in Entry /\ e \in ToSet(queue) /\ entry'[e] = entry[e]
      BY <1>3, <1>5, <1>7, ToSetLemma
    <3>. QED BY <3>1, <1>5, <1>6 DEF StoreOK, QueueLinked
  <2>. QED BY <2>1, <2>2, <1>3, <1>5 DEF QueueLinked, NoDup
<1>10. SingleWriter'
  <2>1. ASSUME writer # None
        PROVE  writer = flushing /\ wh = "pending" /\ entry'[writer] = entry[writer]
    BY <2>1, <1>3, <1>7 DEF StoreOK, SingleWriter
  <2>. QED BY <2>1, <1>3, <1>5, <1>6, <1>7 DEF StoreOK, SingleWriter
<1>. QED BY <1>3, <1>5, <1>6, <1>8, <1>9, <1>10 DEF StoreOK, NeverForgotten

(* The timer only starts the writer. *)
LEMMA TimerLemma ==
  ASSUME StoreOK, TimerRunL
  PROVE  StoreOK'
<1>1. /\ timer' = FALSE /\ wh' = BeginWriting(wh) /\ entry' = entry /\ queue' = queue
      /\ flushing' = flushing /\ writer' = writer /\ part' = part /\ werr' = werr
  BY DEF TimerRunL, helper
<1>2. /\ wh' \in Status /\ wh' # "idle" /\ (wh # "idle" => wh' = wh)
      /\ (wh' = "pending" => wh = "pending")
  BY <1>1 DEF BeginWriting, StoreOK, Status
<1>3. QueueLinked' /\ SingleWriter'
  BY <1>1, <1>2 DEF StoreOK, QueueLinked, SingleWriter
<1>. QED BY <1>1, <1>2, <1>3 DEF StoreOK, NeverForgotten

(* The helper writes a block, or completes the request of the write handler. *)
LEMMA HelperLemma ==
  ASSUME StoreOK, HelperRunL
  PROVE  StoreOK'
<1>0. /\ writer \in Entry /\ writer = flushing /\ wh = "pending"
      /\ entry[writer] \in EntryRecord /\ entry[writer].file \in Body
      /\ entry[writer].st # "free" /\ entry[writer].file # None
  BY DEF StoreOK, SingleWriter, HelperRunL, HelperDone, HelperWrites, EntryRecord
<1>1. ASSUME NEW ok \in BOOLEAN, HelperWrites(ok)
      PROVE  StoreOK'
  <2>1. PICK f : f = IF ok THEN Append(entry[writer].file, entry[writer].buf[part + 1])
                     ELSE entry[writer].file
    OBVIOUS
  <2>2. f \in Body
    <3>1. entry[writer].buf \in Seq(Nat) /\ part + 1 \in 1..Len(entry[writer].buf)
      BY <1>0, <1>1 DEF HelperWrites, StoreOK, EntryRecord, Body
    <3>2. entry[writer].buf[part + 1] \in Nat
      BY <3>1
    <3>3. Append(entry[writer].file, entry[writer].buf[part + 1]) \in Seq(Nat)
      BY <1>0, <3>2 DEF Body
    <3>. QED BY <2>1, <1>0, <3>3 DEF Body
  <2>. PICK l \in BOOLEAN : l = (entry[writer].lost \/ ~ok)
    OBVIOUS
  <2>3. PICK r : r = [entry[writer] EXCEPT !.file = f, !.lost = l]
    OBVIOUS
  <2>4. /\ r \in EntryRecord /\ r.st = entry[writer].st /\ r.obs = entry[writer].obs
        /\ r.partial = entry[writer].partial /\ r.file # None
    BY <1>0, <2>2, <2>3, NoneAssumption DEF EntryRecord, Body
  <2>5. entry' = [entry EXCEPT ![writer] = r]
    BY <1>0, <1>1, <2>1, <2>3 DEF HelperWrites, StoreOK
  <2>6. /\ queue' = queue /\ flushing' = flushing /\ wh' = wh /\ timer' = timer
        /\ writer' = writer /\ part' \in Nat /\ werr' \in BOOLEAN
    BY <1>1 DEF HelperWrites, handler, StoreOK
  <2>7. \A e \in Entry : /\ entry'[e].obs = entry[e].obs /\ entry'[e].st = entry[e].st
                         /\ entry'[e].partial = entry[e].partial
    BY <2>4, <2>5 DEF StoreOK
  <2>8. QueueLinked'
    BY <2>6, <2>7, ToSetLemma DEF StoreOK, QueueLinked
  <2>9. SingleWriter'
    BY <1>0, <2>4, <2>5, <2>6, <2>7 DEF StoreOK, SingleWriter
  <2>. QED BY <2>4, <2>5, <2>6, <2>8, <2>9 DEF StoreOK, NeverForgotten
<1>2. ASSUME HelperDone
      PROVE  StoreOK'
  <2>1. PICK r : r = [entry[writer] EXCEPT !.buf = <<>>, !.cached = FALSE, !.partial = FALSE]
    OBVIOUS
  <2>2. /\ r \in EntryRecord /\ r.st = entry[writer].st /\ r.obs = entry[writer].obs
        /\ ~r.partial
    BY <1>0, <2>1, EmptyBody DEF EntryRecord
  <2>3. entry' = [entry EXCEPT ![writer] = r]
    BY <1>0, <1>2, <2>1 DEF HelperDone, StoreOK
  <2>4. /\ queue' = queue /\ flushing' = flushing /\ wh' \in {"ok", "err"} /\ timer' = timer
        /\ writer' = None /\ part' = part /\ werr' = werr
    BY <1>2 DEF HelperDone
  <2>5. \A e \in Entry : /\ entry'[e].obs = entry[e].obs /\ entry'[e].st = entry[e].st
                         /\ ~entry'[e].partial
    BY <1>0, <2>2, <2>3 DEF StoreOK, SingleWriter
  <2>6. QueueLinked'
    BY <2>4, <2>5, ToSetLemma DEF StoreOK, QueueLinked
  <2>7. SingleWriter'
    BY <2>4, <2>5, NoneAssumption DEF SingleWriter
  <2>. QED BY <1>0, <2>2, <2>3, <2>4, <2>6, <2>7 DEF StoreOK, NeverForgotten, Status
<1>. QED BY <1>1, <1>2 DEF HelperRunL

(* RunL that goes idle, and RunL that starts on the next entry. *)
LEMMA IdleLemma ==
  ASSUME StoreOK, NEW ent, NEW q, RunLOK(ent, q), RunLReady, timer \/ q = <<>>,
         entry' = ent, queue' = q, flushing' = None, wh' = "idle",
         UNCHANGED <<timer, helper>>
  PROVE  StoreOK'
<1>1. writer = None /\ writer' = writer /\ part' = part /\ werr' = werr /\ timer' = timer
  BY DEF StoreOK, SingleWriter, RunLReady, helper
<1>2. QueueLinked'
  BY DEF RunLOK, QueueLinked, NoDup
<1>3. SingleWriter'
  BY <1>1, NoneAssumption DEF RunLOK, SingleWriter
<1>. QED BY <1>1, <1>2, <1>3 DEF RunLOK, StoreOK, NeverForgotten, Status

(* RunL flushes the next entry: only now may there be a writer. *)
LEMMA StartLemma ==
  ASSUME StoreOK, NEW how \in AsyncFault, RunLFlush(how)
  PROVE  StoreOK'
<1>1. /\ RunLReady /\ RunLOK(Entry2, Queue2) /\ Queue2 # <<>> /\ writer = None
  BY RunLLemma2 DEF RunLFlush, RunLReady, StoreOK, SingleWriter
<1>2. PICK e : e = Head(Queue2)
  OBVIOUS
<1>3. e \in Entry /\ e \in ToSet(Queue2)
  <2>1. 1 \in 1..Len(Queue2) /\ Queue2[1] = e
    BY <1>1, <1>2 DEF RunLOK
  <2>. QED BY <2>1, <1>1, ToSetLemma DEF RunLOK
<1>4. PICK r : r = Entry2[e]
  OBVIOUS
<1>5. r \in EntryRecord /\ r.obs /\ r.st # "free" /\ ~r.partial
  BY <1>1, <1>3, <1>4 DEF RunLOK
<1>6. queue' = Queue2 /\ flushing' = e /\ timer' = timer
  BY <1>2 DEF RunLFlush
<1>7. \A x \in ToSet(Queue2) : x \in Entry
  BY <1>1, ToSetLemma DEF RunLOK
<1>8. CASE r.buf = <<>>
  <2>1. entry' = Entry2 /\ wh' = "ok" /\ writer' = writer /\ part' = part /\ werr' = werr
    BY <1>2, <1>4, <1>8 DEF RunLFlush, helper
  <2>2. QueueLinked'
    BY <1>1, <1>6, <2>1 DEF RunLOK, QueueLinked, NoDup
  <2>3. SingleWriter'
    BY <1>1, <1>6, <2>1, NoneAssumption DEF RunLOK, SingleWriter
  <2>. QED BY <1>1, <1>3, <1>6, <2>1, <2>2, <2>3 DEF RunLOK, StoreOK, NeverForgotten, Status
<1>9. CASE r.buf # <<>>
  <2>1. PICK n : n = CASE how = "none" -> [r EXCEPT !.file = <<>>, !.partial = TRUE]
                       [] how = "space" -> [r EXCEPT !.buf = <<>>]
                       [] how = "create" -> CreateFailed(r)
                       [] how = "alloc" -> [r EXCEPT !.file = <<>>]
    OBVIOUS
  <2>2. /\ wh' = "pending" /\ entry' = [Entry2 EXCEPT ![e] = n]
        /\ IF how = "none" THEN writer' = e /\ part' = 0 /\ werr' = FALSE
           ELSE writer' = writer /\ part' = part /\ werr' = werr
    BY <1>2, <1>4, <1>9, <2>1 DEF RunLFlush, helper
  <2>3. /\ n \in EntryRecord /\ n.obs /\ n.st # "free" /\ (n.partial <=> how = "none")
        /\ (how = "none" => n.file # None)
    <3>1. <<>> # None
      <4>1. <<>> \in Seq(Nat)
        OBVIOUS
      <4>. QED BY <4>1, NoneAssumption, Zenon
    <3>2. CASE how = "none"
      <4>1. n = [r EXCEPT !.file = <<>>, !.partial = TRUE]
        BY <2>1, <3>2
      <4>. QED BY <1>5, <3>1, <3>2, <4>1, EmptyBody DEF EntryRecord
    <3>3. CASE how = "space"
      <4>1. n = [r EXCEPT !.buf = <<>>]
        BY <2>1, <3>3
      <4>. QED BY <1>5, <3>3, <4>1, EmptyBody DEF EntryRecord
    <3>4. CASE how = "create"
      <4>1. PICK z \in Nat : z = 0
        OBVIOUS
      <4>2. n = [r EXCEPT !.size = z, !.buf = <<>>]
        BY <2>1, <3>4, <4>1 DEF CreateFailed
      <4>. QED BY <1>5, <3>4, <4>2, EmptyBody DEF EntryRecord
    <3>5. CASE how = "alloc"
      <4>1. n = [r EXCEPT !.file = <<>>]
        BY <2>1, <3>5
      <4>. QED BY <1>5, <3>5, <4>1, EmptyBody DEF EntryRecord
    <3>. QED BY <3>2, <3>3, <3>4, <3>5 DEF AsyncFault
  <2>4. entry' \in [Entry -> EntryRecord] /\ entry'[e] = n
        /\ \A x \in Entry : x # e => entry'[x] = Entry2[x]
    BY <1>1, <1>3, <2>2, <2>3 DEF RunLOK
  <2>5. QueueLinked'
    <3>1. \A x \in Entry : entry'[x].obs => entry'[x].st # "free" /\ x \in ToSet(queue')
      BY <1>1, <1>3, <1>6, <2>3, <2>4 DEF RunLOK
    <3>2. \A x \in ToSet(queue') : entry'[x].obs
      BY <1>1, <1>6, <1>7, <2>3, <2>4 DEF RunLOK
    <3>. QED BY <1>1, <1>6, <3>1, <3>2 DEF RunLOK, QueueLinked, NoDup
  <2>6. SingleWriter'
    <3>1. \A x \in Entry : entry'[x].partial <=> x = writer'
      <4> SUFFICES ASSUME NEW x \in Entry PROVE entry'[x].partial <=> x = writer'
        OBVIOUS
      <4>1. CASE how = "none"
        BY <4>1, <1>1, <2>2, <2>3, <2>4 DEF RunLOK
      <4>2. CASE how # "none"
        BY <4>2, <1>1, <2>2, <2>3, <2>4, NoneAssumption DEF RunLOK
      <4>. QED BY <4>1, <4>2
    <3>. QED BY <1>1, <1>3, <1>6, <2>2, <2>3, <2>4, <3>1 DEF SingleWriter
  <2>7. part' \in Nat /\ werr' \in BOOLEAN /\ writer' \in Entry \cup {None}
    <3>1. part \in Nat /\ werr \in BOOLEAN /\ writer \in Entry \cup {None}
      BY DEF StoreOK
    <3>2. CASE how = "none"
      <4>1. writer' = e /\ part' = 0 /\ werr' = FALSE
        BY <2>2, <3>2
      <4>2. part' \in Nat
        BY <4>1
      <4>. QED BY <1>3, <4>1, <4>2, Zenon
    <3>3. CASE how # "none"
      BY <2>2, <3>1, <3>3
    <3>. QED BY <3>2, <3>3
  <2>. QED BY <1>1, <1>3, <1>6, <2>2, <2>4, <2>5, <2>6, <2>7
           DEF RunLOK, StoreOK, NeverForgotten, Status
<1>. QED BY <1>8, <1>9

(* DumpAllObjects and the index that is saved after it. *)
LEMMA ShutdownLemma ==
  ASSUME StoreOK, Shutdown
  PROVE  StoreOK' /\ index' \in [Entry -> IndexRecord]
<1>1. /\ queue' = <<>> /\ wh' = "idle" /\ timer' = FALSE /\ index' = SavedIndex(entry)
      /\ flushing' = flushing /\ writer' = writer /\ part' = part /\ werr' = werr
  BY DEF Shutdown, helper
<1>2. writer = None
  BY DEF Shutdown, StoreOK, SingleWriter
<1>3. PICK how \in [ToSet(queue) -> FlushFault] :
        entry' = [e \in Entry |->
                    IF e \in ToSet(queue)
                    THEN [FlushL(entry[e], FALSE, how[e]) EXCEPT !.obs = FALSE]
                    ELSE entry[e]]
  BY DEF Shutdown
<1>4. ASSUME NEW e \in Entry
      PROVE  entry'[e] \in EntryRecord /\ ~entry'[e].obs /\ ~entry'[e].partial
  <2>1. entry[e] \in EntryRecord /\ ~entry[e].partial
    BY <1>2, NoneAssumption DEF StoreOK, SingleWriter
  <2>2. CASE e \in ToSet(queue)
    <3>1. how[e] \in Faults
      BY <1>3, <2>2 DEF FlushFault, Faults
    <3>2. PICK f : f = FlushL(entry[e], FALSE, how[e])
      OBVIOUS
    <3>3. f \in EntryRecord /\ ~f.partial
      <4>1. FALSE \in BOOLEAN
        OBVIOUS
      <4>2. f \in EntryRecord /\ f.partial = entry[e].partial
        BY <2>1, <3>1, <3>2, <4>1, FlushLemma
      <4>. QED BY <2>1, <4>2
    <3>4. entry'[e] = [f EXCEPT !.obs = FALSE]
      BY <1>3, <2>2, <3>2
    <3>. QED BY <3>3, <3>4 DEF EntryRecord
  <2>3. CASE e \notin ToSet(queue)
    BY <1>3, <2>1, <2>3 DEF StoreOK, QueueLinked
  <2>. QED BY <2>2, <2>3
<1>5. entry' \in [Entry -> EntryRecord]
  BY <1>3, <1>4
<1>6. flushing' \in Entry \cup {None} /\ part' \in Nat /\ werr' \in BOOLEAN
  BY <1>1 DEF StoreOK
<1>7. StoreOK'
  BY <1>1, <1>2, <1>4, <1>5, <1>6, IdleEmptyLemma DEF Status
<1>8. entry \in [Entry -> EntryRecord]
  BY DEF StoreOK
<1>. QED BY <1>1, <1>7, <1>8, SavedIndexLemma

(* The cache is opened again: nothing is queued. *)
LEMMA RestartLemma ==
  ASSUME TypeOK, NEW crashed \in BOOLEAN, Restart(crashed)
  PROVE  StoreOK'
<1>1. /\ entry' = [e \in Entry |-> Opened(e, crashed)]
      /\ queue' = <<>> /\ flushing' = None /\ wh' = "idle" /\ timer' = FALSE
      /\ writer' = None /\ part' = 0 /\ werr' = FALSE
  BY DEF Restart
<1>2. \A e \in Entry : entry'[e] \in EntryRecord /\ ~entry'[e].obs /\ ~entry'[e].partial
  BY <1>1, OpenedLemma
<1>3. entry' \in [Entry -> EntryRecord]
  BY <1>1, <1>2
<1>. QED BY <1>1, <1>2, <1>3, IdleEmptyLemma DEF Status

(* Every step keeps the inductive invariant. *)
LEMMA NextLemma == IInv /\ Next => IInv'
<1> SUFFICES ASSUME IInv, Next PROVE IInv'
  OBVIOUS
<1>1. /\ StoreOK /\ TypeOK /\ index \in [Entry -> IndexRecord] /\ gen \in Nat
      /\ mode \in {"up", "closed", "freed", "bounds", "hang"}
  <2>1. TypeOK
    BY DEF IInv
  <2>2. /\ index \in [Entry -> IndexRecord] /\ gen \in Nat
        /\ mode \in {"up", "closed", "freed", "bounds", "hang"}
    BY <2>1 DEF TypeOK
  <2>. QED BY <2>1, <2>2, StoreLemma
<1>2. SUFFICES /\ StoreOK' /\ index' \in [Entry -> IndexRecord] /\ gen' \in Nat
               /\ mode' \in {"up", "closed", "freed", "bounds", "hang"}
  BY StoreLemma DEF StoreOK, IInv, TypeOK, Status
<1> DEFINE Goal == /\ StoreOK' /\ index' \in [Entry -> IndexRecord] /\ gen' \in Nat
                   /\ mode' \in {"up", "closed", "freed", "bounds", "hang"}
<1>3. ASSUME UNCHANGED <<entry, handler, helper, index, gen>>, mode' \in {"freed", "bounds", "hang"}
      PROVE  Goal
  BY <1>1, <1>3 DEF StoreOK, QueueLinked, NeverForgotten, SingleWriter, handler, helper
<1>4. ASSUME NEW e \in Entry, NewResponse(e) PROVE Goal
  BY <1>1, <1>4, NewResponseLemma DEF NewResponse
<1>5. ASSUME NEW e \in Entry, UpdatedResponse(e) PROVE Goal
  BY <1>1, <1>5, UpdatedResponseLemma DEF UpdatedResponse
<1>6. ASSUME NEW e \in Entry, ReceivedResponseBodyDataL(e) PROVE Goal
  BY <1>1, <1>6, BodyDataLemma DEF ReceivedResponseBodyDataL
<1>7. ASSUME NEW e \in Entry, ResponsePostponed(e) PROVE Goal
  BY <1>1, <1>7, PostponedLemma DEF ResponsePostponed
<1>8. ASSUME NEW e \in Entry, NEW how \in FlushFault, ResponseWritten(e, how) PROVE Goal
  BY <1>1, <1>8, WrittenLemma DEF ResponseWritten
<1>9. ASSUME NEW e \in Entry, NEW how \in FlushFault, SaveL(e, how) PROVE Goal
  BY <1>1, <1>9, SaveLLemma DEF SaveL
<1>10. ASSUME NEW e \in Entry, RequestL(e) PROVE Goal
  BY <1>1, <1>10, RequestLemma DEF RequestL, EntryState
<1>11. ASSUME NEW e \in Entry, RequestClosed(e) PROVE Goal
  BY <1>1, <1>11, RequestLemma, DeleteLemma DEF RequestClosed, EntryState
<1>12. ASSUME NEW e \in Entry, RemoveL(e) PROVE Goal
  BY <1>1, <1>12, RequestLemma, ObservedLemma DEF RemoveL, EntryState
<1>13. ASSUME NEW e \in Entry, Evict(e) PROVE Goal
  BY <1>1, <1>13, DeleteLemma DEF Evict
<1>14. ASSUME NEW e \in Entry, ObserverRunL(e) PROVE Goal
  BY <1>1, <1>14, ObservedLemma DEF ObserverRunL
<1>15. ASSUME RemoveAllL PROVE Goal
  BY <1>1, <1>15, RemoveAllLemma DEF RemoveAllL
<1>16. ASSUME NEW k \in 0..Len(queue), Collect(k) PROVE Goal
  BY <1>1, <1>16, CollectLemma DEF Collect
<1>17. ASSUME TimerRunL PROVE Goal
  BY <1>1, <1>17, TimerLemma DEF TimerRunL
<1>18. ASSUME HelperRunL PROVE Goal
  BY <1>1, <1>18, HelperLemma DEF HelperRunL, HelperDone, HelperWrites
<1>19. ASSUME RunLBackOff PROVE Goal
  <2>1. RunLOK(Entry1, Queue1) /\ RunLReady /\ timer
    BY <1>1, <1>19, RunLLemma1 DEF RunLBackOff
  <2>2. StoreOK'
    BY <1>1, <1>19, <2>1, IdleLemma DEF RunLBackOff
  <2>. QED BY <1>1, <1>19, <2>2 DEF RunLBackOff
<1>20. ASSUME RunLIdle PROVE Goal
  <2>1. RunLOK(Entry2, Queue2) /\ RunLReady /\ Queue2 = <<>>
    BY <1>1, <1>20, RunLLemma2 DEF RunLIdle
  <2>2. StoreOK'
    BY <1>1, <1>20, <2>1, IdleLemma DEF RunLIdle
  <2>3. index' \in [Entry -> IndexRecord]
    BY <1>20, <2>1, SavedIndexLemma DEF RunLIdle, RunLOK
  <2>. QED BY <1>1, <1>20, <2>2, <2>3 DEF RunLIdle
<1>21. ASSUME NEW how \in AsyncFault, RunLFlush(how) PROVE Goal
  BY <1>1, <1>21, StartLemma DEF RunLFlush
<1>22. ASSUME Shutdown PROVE Goal
  BY <1>1, <1>22, ShutdownLemma DEF Shutdown
<1>23. ASSUME NEW crashed \in BOOLEAN, Restart(crashed) PROVE Goal
  BY <1>1, <1>23, RestartLemma DEF Restart
<1>24. ASSUME NEW e \in Entry, SortReadsFreed(e) PROVE Goal
  BY <1>3, <1>24 DEF SortReadsFreed
<1>25. ASSUME QueueWalkFreed \/ CancelHangs \/ CollectOutOfRange \/ RunLFreed PROVE Goal
  BY <1>3, <1>25 DEF QueueWalkFreed, CancelHangs, CollectOutOfRange, RunLFreed
<1> HIDE DEF Goal
<1>26. Goal
  BY <1>4, <1>5, <1>6, <1>7, <1>8, <1>9, <1>10, <1>11, <1>12, <1>13, <1>14, <1>15, <1>16,
     <1>17, <1>18, <1>19, <1>20, <1>21, <1>22, <1>23, <1>24, <1>25
     DEF Next, RunL
<1>. QED BY <1>26 DEF Goal

-----------------------------------------------------------------------------
(* So it always holds. *)
LEMMA Inductive == Spec => []IInv
<1>1. IInv /\ [Next]_vars => IInv'
  BY NextLemma, StutterLemma
<1>. QED BY <1>1, InitLemma, PTL DEF Spec

(* The variables keep their types: in particular the helper never appends to
   a body file that does not exist. *)
THEOREM TypeCorrect == Spec => []TypeOK
<1>1. IInv => TypeOK
  BY DEF IInv
<1>. QED BY <1>1, Inductive, PTL

(* However many entries there are and whatever fails, the delete observers
   and iObjectQueue agree: no entry is queued twice, and a deleted entry is
   in the queue only while the write handler still has to run for it. *)
THEOREM QueueIsLinked == Spec => []QueueLinked
<1>1. IInv => QueueLinked
  BY DEF IInv
<1>. QED BY <1>1, Inductive, PTL

(* A queued body always has the timer or the active write handler to see to
   it: none of AddEntry, RemoveEntry, Collect, BeginWriting and RunL leaves
   the queue behind with neither. *)
THEOREM NothingForgotten == Spec => []NeverForgotten
<1>1. IInv => NeverForgotten
  BY DEF IInv
<1>. QED BY <1>1, Inductive, PTL

(* At most one write helper is active, it writes to the existing file of the
   live entry the write handler waits for, and that entry is queued; its
   completion therefore never finds the handler's request completed. *)
THEOREM OneWriter == Spec => []SingleWriter
<1>1. IInv => SingleWriter
  BY DEF IInv
<1>. QED BY <1>1, Inductive, PTL

-----------------------------------------------------------------------------
(* What is served: the second invariant, without errors, updates and restarts. *)

(* The body that belongs to the size and the headers of the entry r. *)
WholeBody(r) == [i \in 1..r.size |-> r.hdr]

(* The body is in memory while it is marked as cached, and in the file otherwise; an entry
   that is still filled is linked nowhere, and one that is read has a body. *)
Sound(r) ==
  /\ ~r.delNeeded
  /\ IF r.cached THEN r.buf = WholeBody(r)
     ELSE r.buf = <<>> /\ (r.file = WholeBody(r) \/ (r.file = None /\ r.size = 0))
  /\ r.st = "responding" => (r.cached \/ r.size = 0) /\ ~r.obs /\ ~r.partial
  /\ r.st = "requesting" => r.size > 0
  /\ r.partial => r.cached

(* A body that is queued is in memory, unless RunL has yet to unlink it. *)
InMemory(r) == r.cached \/ r.size = 0
Settling(e) == e = flushing /\ wh # "idle"
QueuedInMemory == \A e \in Entry : entry[e].obs => InMemory(entry[e]) \/ Settling(e)

(* The file that is being written has the blocks up to iBodyPart. *)
Begun(r, n) == n <= r.size /\ r.file = [i \in 1..n |-> r.hdr]
PartWritten == writer # None => Begun(entry[writer], part)

AllSound == \A e \in Entry : Sound(entry[e])
Served == AllSound /\ QueuedInMemory /\ PartWritten /\ mode # "closed"

(* A hit in progress keeps its entry, its headers and its size. *)
ReaderKept(e) ==
  entry[e].st = "requesting" =>
    entry'[e].st # "free" /\ entry'[e].size = entry[e].size /\ entry'[e].hdr = entry[e].hdr
Keeps == Served' /\ \A e \in Entry : ReaderKept(e)

(* No errors, updates, shutdowns and crashes. *)
Calm == ~DiskErrors /\ ~WriteErrors /\ ~MemErrors /\ ~Updates /\ ~Shutdowns /\ ~Crashes

-----------------------------------------------------------------------------
(* What the operations on one entry do to its body.                        *)

(* A body without blocks. *)
LEMMA NoBody == ASSUME NEW h PROVE [i \in 1..0 |-> h] = <<>>
<1>1. 1..0 = {}
  OBVIOUS
<1>. QED BY <1>1

(* One more block of the same response. *)
LEMMA MoreBody ==
  ASSUME NEW n \in Nat, NEW h \in Nat
  PROVE  Append([i \in 1..n |-> h], h) = [i \in 1..n + 1 |-> h]
<1>1. PICK s : s = [i \in 1..n |-> h]
  OBVIOUS
<1>2. s \in Seq(Nat) /\ Len(s) = n
  BY <1>1
<1>3. PICK t : t = [i \in 1..n + 1 |-> h]
  OBVIOUS
<1>4. t \in Seq(Nat) /\ Len(t) = n + 1
  BY <1>3
<1>5. PICK a : a = Append(s, h)
  OBVIOUS
<1>6. a \in Seq(Nat) /\ Len(a) = n + 1 /\ \A i \in 1..n + 1 : a[i] = IF i <= n THEN s[i] ELSE h
  BY <1>2, <1>5, AppendProperties
<1>7. \A i \in 1..n + 1 : a[i] = t[i]
  BY <1>1, <1>3, <1>6
<1>8. a = t
  BY <1>4, <1>6, <1>7, SeqEqual
<1>. QED BY <1>1, <1>3, <1>5, <1>8

(* The body of an entry is a sequence of as many blocks as its size says. *)
LEMMA WholeType ==
  ASSUME NEW r \in EntryRecord
  PROVE  /\ WholeBody(r) \in Seq(Nat) /\ Len(WholeBody(r)) = r.size
         /\ WholeBody(r) # None
         /\ r.size = 0 => WholeBody(r) = <<>>
<1>1. r.size \in Nat /\ r.hdr \in Nat
  BY DEF EntryRecord
<1>2. WholeBody(r) \in Seq(Nat) /\ Len(WholeBody(r)) = r.size
  BY <1>1 DEF WholeBody
<1>3. WholeBody(r) # None
  BY <1>2, NoneAssumption, Zenon
<1>4. ASSUME r.size = 0 PROVE WholeBody(r) = <<>>
  BY <1>4, NoBody DEF WholeBody
<1>. QED BY <1>2, <1>3, <1>4

(* A fresh entry. *)
LEMMA BlankSound == Sound(Blank)
<1>1. /\ ~Blank.delNeeded /\ ~Blank.cached /\ Blank.buf = <<>> /\ Blank.file = None
      /\ Blank.size = 0 /\ Blank.st = "free" /\ ~Blank.partial
  BY DEF Blank
<1>. QED BY <1>1 DEF Sound

(* A sound entry serves its whole body. *)
LEMMA SoundIntact ==
  ASSUME NEW r \in EntryRecord, Sound(r)
  PROVE  NextChunk(r) = WholeBody(r)
<1>1. CASE r.cached
  BY <1>1 DEF Sound, NextChunk
<1>2. CASE ~r.cached /\ r.file = WholeBody(r)
  <2>1. r.file # None
    BY <1>2, WholeType
  <2>. QED BY <1>2, <2>1 DEF NextChunk
<1>3. CASE ~r.cached /\ r.file = None /\ r.size = 0
  <2>1. r.buf = <<>>
    BY <1>3 DEF Sound
  <2>. QED BY <1>3, <2>1, WholeType DEF NextChunk
<1>. QED BY <1>1, <1>2, <1>3 DEF Sound

(* SaveBodyData with memory for the block. *)
LEMMA SaveSound ==
  ASSUME NEW r \in EntryRecord, Sound(r), InMemory(r), ~r.partial
  PROVE  Sound(SaveInMemory(r)) /\ SaveInMemory(r).cached
<1>1. r.buf \in Seq(Nat) /\ r.hdr \in Nat /\ r.size \in Nat
  BY DEF EntryRecord, Body
<1>2. r.buf = WholeBody(r)
  BY WholeType DEF Sound, InMemory
<1>3. PICK b \in Body : b = Append(r.buf, r.hdr)
  <2>1. Append(r.buf, r.hdr) \in Seq(Nat)
    BY <1>1
  <2>. QED BY <2>1 DEF Body
<1>4. PICK n \in Nat : n = r.size + 1
  BY <1>1
<1>5. b = [i \in 1..n |-> r.hdr]
  BY <1>1, <1>2, <1>3, <1>4, MoreBody DEF WholeBody
<1>6. PICK s : s = [r EXCEPT !.buf = b, !.cached = TRUE, !.size = n]
  OBVIOUS
<1>7. /\ s.buf = b /\ s.cached = TRUE /\ s.size = n /\ s.hdr = r.hdr
      /\ s.delNeeded = r.delNeeded /\ s.st = r.st /\ s.partial = r.partial /\ s.obs = r.obs
  BY <1>6 DEF EntryRecord
<1>8. SaveInMemory(r) = s
  BY <1>3, <1>4, <1>6 DEF SaveInMemory
<1>9. s.buf = WholeBody(s)
  BY <1>5, <1>7 DEF WholeBody
<1>10. s.size > 0
  BY <1>1, <1>4, <1>7
<1>11. Sound(s)
  BY <1>7, <1>9, <1>10 DEF Sound
<1>. QED BY <1>7, <1>8, <1>11

(* FlushL that does not fail. *)
LEMMA FlushSound ==
  ASSUME NEW r \in EntryRecord, Sound(r), InMemory(r), ~r.partial,
         NEW f, f = FlushL(r, FALSE, "none")
  PROVE  /\ f \in EntryRecord /\ f.st = r.st /\ f.obs = r.obs /\ ~f.partial /\ ~f.cached
         /\ f.size = r.size /\ f.hdr = r.hdr /\ ~f.delNeeded
         /\ f.buf = <<>> /\ f.file = WholeBody(f)
<1>1. /\ f \in EntryRecord /\ f.st = r.st /\ f.obs = r.obs /\ f.partial = r.partial
  <2>1. FALSE \in BOOLEAN /\ "none" \in Faults
    BY DEF Faults
  <2>. QED BY <2>1, FlushLemma
<1>2. r.buf \in Body
  BY DEF EntryRecord
<1>3. CASE r.cached
  <2>. PICK l : l = (r.lost \/ "none" = "write")
    OBVIOUS
  <2>1. f = [r EXCEPT !.file = r.buf, !.buf = <<>>, !.cached = FALSE, !.lost = l]
    BY <1>3 DEF FlushL
  <2>2. /\ f.file = r.buf /\ f.buf = <<>> /\ f.cached = FALSE /\ f.size = r.size
        /\ f.hdr = r.hdr /\ f.delNeeded = r.delNeeded
    BY <2>1 DEF EntryRecord
  <2>3. r.buf = WholeBody(r)
    BY <1>3 DEF Sound
  <2>4. WholeBody(f) = WholeBody(r)
    BY <2>2 DEF WholeBody
  <2>. QED BY <1>1, <2>2, <2>3, <2>4 DEF Sound
<1>4. CASE ~r.cached
  <2>1. f = [r EXCEPT !.file = <<>>]
    BY <1>4 DEF FlushL
  <2>2. /\ f.file = <<>> /\ f.buf = r.buf /\ f.cached = r.cached /\ f.size = r.size
        /\ f.hdr = r.hdr /\ f.delNeeded = r.delNeeded
    BY <2>1 DEF EntryRecord
  <2>3. r.size = 0 /\ r.buf = <<>>
    BY <1>4 DEF Sound, InMemory
  <2>4. WholeBody(f) = <<>>
    BY <1>1, <2>2, <2>3, WholeType
  <2>. QED BY <1>1, <1>4, <2>2, <2>3, <2>4 DEF Sound
<1>. QED BY <1>3, <1>4

(* An entry whose body is in the file. *)
LEMMA StoredSound ==
  ASSUME NEW f, ~f.delNeeded, ~f.cached, ~f.partial, f.buf = <<>>, f.file = WholeBody(f),
         f.st # "responding", f.st = "requesting" => f.size > 0
  PROVE  Sound(f)
BY DEF Sound

(* A step that changes the entry e alone, and leaves the writer's file to it. *)
OneChanged(e, r) ==
  /\ entry' = [entry EXCEPT ![e] = r]
  /\ flushing' = flushing /\ (wh # "idle" => wh' # "idle")
  /\ mode' # "closed"
  /\ Sound(r)
  /\ r.obs => InMemory(r) \/ Settling(e)
  /\ entry[e].st = "requesting" => r.st # "free" /\ r.size = entry[e].size /\ r.hdr = entry[e].hdr

LEMMA ChangedServed ==
  ASSUME StoreOK, Served, NEW e \in Entry, NEW r, OneChanged(e, r), PartWritten'
  PROVE  Keeps
<1>1. \A x \in Entry : entry'[x] = IF x = e THEN r ELSE entry[x]
  BY DEF OneChanged, StoreOK
<1>2. AllSound'
  BY <1>1 DEF OneChanged, Served, AllSound
<1>3. \A x \in Entry : Settling(x) => Settling(x)'
  BY DEF Settling, OneChanged
<1>4. \A x \in Entry : entry'[x].obs => InMemory(entry'[x]) \/ Settling(x)'
  <2> SUFFICES ASSUME NEW x \in Entry, entry'[x].obs
               PROVE  InMemory(entry'[x]) \/ Settling(x)'
    OBVIOUS
  <2>1. CASE x = e
    BY <1>1, <1>3, <2>1 DEF OneChanged
  <2>2. CASE x # e
    BY <1>1, <1>3, <2>2 DEF Served, QueuedInMemory
  <2>. QED BY <2>1, <2>2
<1>5. QueuedInMemory'
  BY <1>4 DEF QueuedInMemory
<1>6. \A x \in Entry : ReaderKept(x)
  BY <1>1 DEF ReaderKept, OneChanged
<1>. QED BY <1>2, <1>5, <1>6 DEF Keeps, Served, OneChanged

(* A step that leaves the entry being written and its helper alone. *)
LEMMA WriterApart ==
  ASSUME StoreOK, Served, UNCHANGED <<writer, part>>, writer # None => entry'[writer] = entry[writer]
  PROVE  PartWritten'
BY DEF Served, PartWritten

(* The entry being written is queued, in memory and not being filled. *)
LEMMA WriterSound ==
  ASSUME StoreOK, Served, writer # None
  PROVE  /\ writer \in Entry /\ writer = flushing /\ wh = "pending" /\ writer \in ToSet(queue)
         /\ entry[writer] \in EntryRecord
         /\ entry[writer].partial /\ entry[writer].cached /\ entry[writer].st # "responding"
         /\ entry[writer].st # "free"
         /\ entry[writer].buf = WholeBody(entry[writer])
         /\ Begun(entry[writer], part)
BY DEF StoreOK, SingleWriter, Served, AllSound, Sound, PartWritten

(* Nobody writes an entry that is not partially written. *)
LEMMA NotWriter ==
  ASSUME StoreOK, NEW e \in Entry, writer # e
  PROVE  ~entry[e].partial
BY DEF StoreOK, SingleWriter

(* Deleting an entry that is not read. *)
LEMMA EraseServed ==
  ASSUME StoreOK, Served, NEW e \in Entry, entry[e].st # "requesting",
         NEW q, NEW tm, NEW w, NEW unlink, wh # "idle" => w # "idle",
         EraseEntry(e, q, tm, w, unlink), mode' = mode
  PROVE  Keeps
<1>1. /\ entry' = [entry EXCEPT ![e] = Blank] /\ flushing' = flushing /\ part' = part
      /\ writer' = IF writer = e THEN None ELSE writer
      /\ wh' = IF writer = e THEN "err" ELSE w
  BY DEF EraseEntry
<1>2. OneChanged(e, Blank)
  BY <1>1, BlankSound, BlankLemma DEF OneChanged, Served
<1>3. PartWritten'
  <2>1. writer' # None => writer' = writer /\ entry'[writer] = entry[writer]
    BY <1>1 DEF StoreOK
  <2>. QED BY <1>1, <2>1 DEF Served, PartWritten
<1>. QED BY <1>2, <1>3, ChangedServed

(* DeleteCacheEntry likewise. *)
LEMMA DeleteServed ==
  ASSUME StoreOK, Served, NEW e \in Entry, entry[e].st # "requesting",
         DeleteCacheEntry(e), mode' = mode
  PROVE  Keeps
BY EraseServed DEF DeleteCacheEntry

-----------------------------------------------------------------------------
(* Every action keeps it.                                                  *)

(* Steps that change neither entries nor the helper. *)
LEMMA UntouchedServed ==
  ASSUME StoreOK, Served, entry' = entry, UNCHANGED <<flushing, writer, part>>,
         wh # "idle" => wh' # "idle", mode' # "closed"
  PROVE  Keeps
<1>1. PartWritten'
  BY DEF Served, PartWritten
<1>2. AllSound' /\ QueuedInMemory'
  BY DEF Served, AllSound, QueuedInMemory, Settling
<1>3. \A x \in Entry : ReaderKept(x)
  BY DEF ReaderKept
<1>. QED BY <1>1, <1>2, <1>3 DEF Keeps, Served

(* Headers of a new response. *)
LEMMA NewResponseServed ==
  ASSUME Calm, StoreOK, Served, gen \in Nat, NEW e \in Entry, NewResponse(e)
  PROVE  Keeps
<1>1. PICK h \in Nat : h = gen + 1
  OBVIOUS
<1>2. PICK r : r = [Blank EXCEPT !.st = "responding", !.hdr = h]
  OBVIOUS
<1>3. /\ entry' = [entry EXCEPT ![e] = r] /\ UNCHANGED <<handler, helper>> /\ mode' = mode
      /\ entry[e].st = "free"
  BY <1>1, <1>2 DEF NewResponse, Calm, Allocatable
<1>4. /\ ~r.delNeeded /\ ~r.cached /\ r.buf = <<>> /\ r.file = None /\ r.size = 0
      /\ r.st = "responding" /\ ~r.obs /\ ~r.partial
  BY <1>2 DEF Blank
<1>5. OneChanged(e, r)
  BY <1>3, <1>4 DEF OneChanged, Sound, InMemory, Served, handler
<1>6. PartWritten'
  <2>1. writer # e
    BY <1>3, FreeLemma
  <2>. QED BY <1>3, <2>1, WriterApart DEF StoreOK, helper
<1>. QED BY <1>5, <1>6, ChangedServed

(* A part of the body. *)
LEMMA BodyDataServed ==
  ASSUME Calm, StoreOK, Served, NEW e \in Entry, ReceivedResponseBodyDataL(e)
  PROVE  Keeps
<1>1. Sound(entry[e]) /\ entry[e] \in EntryRecord /\ entry[e].st = "responding"
  BY DEF Served, AllSound, StoreOK, ReceivedResponseBodyDataL
<1>2. ~entry[e].delNeeded /\ InMemory(entry[e]) /\ ~entry[e].obs /\ ~entry[e].partial
  BY <1>1 DEF Sound, InMemory
<1>3. PICK r : r = SaveInMemory(entry[e])
  OBVIOUS
<1>4. entry' = [entry EXCEPT ![e] = r] /\ UNCHANGED <<handler, helper>> /\ mode' = mode
  BY <1>2, <1>3 DEF ReceivedResponseBodyDataL, Calm
<1>5. Sound(r) /\ r.cached
  BY <1>1, <1>2, <1>3, SaveSound
<1>6. OneChanged(e, r)
  BY <1>1, <1>4, <1>5 DEF OneChanged, InMemory, Served, handler
<1>7. PartWritten'
  <2>1. writer # e
    BY <1>1, WriterSound, NoneAssumption
  <2>. QED BY <1>4, <2>1, WriterApart DEF StoreOK, helper
<1>. QED BY <1>6, <1>7, ChangedServed

(* The state, and whether the write handler is told of the deletion, change only. *)
Marked(r, s, st) ==
  /\ s.st = st /\ s.hdr = r.hdr /\ s.size = r.size /\ s.buf = r.buf /\ s.cached = r.cached
  /\ s.partial = r.partial /\ s.delNeeded = r.delNeeded /\ s.file = r.file

LEMMA MarkedServed ==
  ASSUME StoreOK, Served, NEW e \in Entry, NEW s, NEW st \in {"complete", "requesting", "destroyed"},
         Marked(entry[e], s, st), st = "requesting" => entry[e].size > 0,
         s.obs => InMemory(s) \/ Settling(e),
         entry' = [entry EXCEPT ![e] = s], UNCHANGED <<flushing, helper>>,
         wh # "idle" => wh' # "idle", mode' = mode
  PROVE  Keeps
<1>1. Sound(entry[e])
  BY DEF Served, AllSound
<1>2. WholeBody(s) = WholeBody(entry[e])
  BY DEF Marked, WholeBody
<1>3. Sound(s)
  BY <1>1, <1>2 DEF Sound, Marked
<1>4. OneChanged(e, s)
  BY <1>3 DEF OneChanged, Marked, Served
<1>5. PartWritten'
  <2>1. writer' = writer /\ part' = part
    BY DEF helper
  <2>2. CASE writer = None
    BY <2>1, <2>2 DEF PartWritten
  <2>3. CASE writer # None /\ writer # e
    BY <2>1, <2>3, WriterApart DEF StoreOK
  <2>4. CASE writer # None /\ writer = e
    <3>1. entry'[e] = s
      BY DEF StoreOK
    <3>2. Begun(entry[e], part)
      BY <2>4, WriterSound
    <3>3. Begun(s, part)
      BY <3>2 DEF Begun, Marked
    <3>. QED BY <2>1, <2>4, <3>1, <3>3 DEF PartWritten
  <2>. QED BY <2>2, <2>3, <2>4
<1>. QED BY <1>4, <1>5, ChangedServed

(* RequestL, RequestClosed and RemoveL of an entry in use. *)
LEMMA RequestServed ==
  ASSUME StoreOK, Served, NEW e \in Entry, NEW st \in {"complete", "requesting", "destroyed"},
         st = "requesting" => entry[e].size > 0,
         entry' = [entry EXCEPT ![e].st = st], UNCHANGED <<handler, helper>>, mode' = mode
  PROVE  Keeps
<1>1. entry[e] \in EntryRecord
  BY DEF StoreOK
<1>2. PICK s : s = [entry[e] EXCEPT !.st = st]
  OBVIOUS
<1>3. Marked(entry[e], s, st) /\ s.obs = entry[e].obs
  BY <1>1, <1>2 DEF EntryRecord, Marked
<1>4. entry' = [entry EXCEPT ![e] = s]
  BY <1>2 DEF StoreOK
<1>5. s.obs => InMemory(s) \/ Settling(e)
  BY <1>3 DEF Served, QueuedInMemory, InMemory, Marked
<1>6. UNCHANGED <<flushing, helper>> /\ (wh # "idle" => wh' # "idle")
  BY DEF handler
<1>. QED BY <1>3, <1>4, <1>5, <1>6, MarkedServed

(* The body is queued. *)
LEMMA PostponedServed ==
  ASSUME Calm, StoreOK, Served, NEW e \in Entry, ResponsePostponed(e)
  PROVE  Keeps
<1>1. entry[e] \in EntryRecord /\ entry[e].st = "responding" /\ Sound(entry[e])
  BY DEF StoreOK, ResponsePostponed, Served, AllSound
<1>2. PICK s : s = [entry[e] EXCEPT !.st = "complete", !.obs = TRUE]
  OBVIOUS
<1>3. Marked(entry[e], s, "complete")
  BY <1>1, <1>2 DEF EntryRecord, Marked
<1>4. /\ entry' = [entry EXCEPT ![e] = s] /\ UNCHANGED <<flushing, helper>>
      /\ wh' = wh /\ mode' = mode
  BY <1>2 DEF ResponsePostponed, StoreOK
<1>5. InMemory(s)
  BY <1>1, <1>3 DEF Sound, InMemory, Marked
<1>. QED BY <1>3, <1>4, <1>5, MarkedServed

(* The faults that can happen without errors of the disk and the heap. *)
LEMMA NoFault ==
  ASSUME Calm
  PROVE  FlushFault = {"none"} /\ AsyncFault = {"none"}
BY DEF Calm, FlushFault, AsyncFault

(* The body is flushed at once. *)
LEMMA FlushNowServed ==
  ASSUME Calm, StoreOK, Served, NEW e \in Entry, NEW how \in FlushFault,
         NEW q, NEW tm, NEW w, wh # "idle" => w # "idle",
         entry[e].st = "responding", FlushNow(e, q, tm, w, how), mode' = mode
  PROVE  Keeps
<1>1. CASE EraseEntry(e, q, tm, w, TRUE)
  <2>1. TRUE \in BOOLEAN /\ entry[e].st # "requesting"
    OBVIOUS
  <2>. QED BY <1>1, <2>1, EraseServed
<1>2. CASE /\ entry' = [entry EXCEPT ![e] = [FlushL(@, Busy(e), how) EXCEPT !.st = "complete"]]
           /\ wh' = w
           /\ UNCHANGED <<flushing, helper>>
  <2>1. entry[e] \in EntryRecord /\ Sound(entry[e])
    BY DEF StoreOK, Served, AllSound
  <2>2. InMemory(entry[e]) /\ ~entry[e].partial /\ ~entry[e].obs
    BY <2>1 DEF Sound, InMemory
  <2>3. writer # e
    BY <2>1, WriterSound, NoneAssumption
  <2>4. how = "none"
    BY NoFault
  <2>5. Busy(e) = FALSE
    BY <2>3 DEF Busy
  <2>6. PICK f : f = FlushL(entry[e], FALSE, "none")
    OBVIOUS
  <2>7. /\ f \in EntryRecord /\ f.obs = entry[e].obs /\ ~f.partial /\ ~f.cached
        /\ f.size = entry[e].size /\ ~f.delNeeded
        /\ f.buf = <<>> /\ f.file = WholeBody(f)
    BY <2>1, <2>2, <2>6, FlushSound
  <2>8. PICK r : r = [f EXCEPT !.st = "complete"]
    OBVIOUS
  <2>9. /\ r.st = "complete" /\ r.obs = f.obs /\ ~r.partial /\ ~r.cached /\ ~r.delNeeded
        /\ r.buf = <<>> /\ r.file = f.file /\ r.size = f.size /\ r.hdr = f.hdr
    BY <2>7, <2>8 DEF EntryRecord
  <2>10. r.file = WholeBody(r)
    BY <2>7, <2>9 DEF WholeBody
  <2>11. Sound(r)
    BY <2>9, <2>10, StoredSound
  <2>12. entry' = [entry EXCEPT ![e] = r]
    BY <1>2, <2>4, <2>5, <2>6, <2>8 DEF StoreOK
  <2>13. OneChanged(e, r)
    BY <1>2, <2>2, <2>7, <2>9, <2>11, <2>12 DEF OneChanged, Served
  <2>14. PartWritten'
    BY <1>2, <2>3, <2>12, WriterApart DEF StoreOK, helper
  <2>. QED BY <2>13, <2>14, ChangedServed
<1>. QED BY <1>1, <1>2 DEF FlushNow

(* ResponseComplete without postponing. *)
LEMMA WrittenServed ==
  ASSUME Calm, StoreOK, Served, NEW e \in Entry, NEW how \in FlushFault, ResponseWritten(e, how)
  PROVE  Keeps
<1>1. entry[e].st = "responding" /\ mode' = mode
  BY DEF ResponseWritten
<1>2. PICK w : /\ w = IF timer THEN BeginWriting(wh) ELSE wh
               /\ wh # "idle" => w # "idle"
  BY DEF BeginWriting
<1>3. CASE FlushNow(e, queue, timer, wh, how)
  BY <1>1, <1>3, FlushNowServed
<1>4. CASE FlushNow(e, queue, FALSE, IF timer THEN BeginWriting(wh) ELSE wh, how)
  <2>1. FlushNow(e, queue, FALSE, w, how)
    BY <1>2, <1>4
  <2>. QED BY <1>1, <1>2, <2>1, FlushNowServed
<1>. QED BY <1>3, <1>4 DEF ResponseWritten, Calm

(* SaveL. *)
LEMMA SaveLServed ==
  ASSUME Calm, StoreOK, Served, gen \in Nat, NEW e \in Entry, NEW how \in FlushFault, SaveL(e, how)
  PROVE  Keeps
<1>1. entry[e].st = "free" /\ mode' = mode /\ how = "none"
  BY NoFault DEF SaveL, Allocatable
<1>2. PICK h \in Nat : h = gen + 1
  OBVIOUS
<1>3. PICK b : b = [Blank EXCEPT !.st = "complete", !.hdr = h]
  OBVIOUS
<1>4. /\ b \in EntryRecord /\ b.st = "complete" /\ ~b.obs /\ ~b.partial /\ ~b.delNeeded
      /\ ~b.cached /\ b.buf = <<>> /\ b.file = None /\ b.size = 0
  <2>1. b \in EntryRecord
    BY <1>3, BlankLemma DEF EntryRecord, EntryState
  <2>2. /\ b.st = "complete" /\ ~b.obs /\ ~b.partial /\ ~b.delNeeded
        /\ ~b.cached /\ b.buf = <<>> /\ b.file = None /\ b.size = 0
    BY <1>3 DEF Blank
  <2>. QED BY <2>1, <2>2
<1>5. PICK r : r = SaveInMemory(b)
  OBVIOUS
<1>6. /\ r \in EntryRecord /\ r.st = "complete" /\ ~r.obs /\ ~r.partial
      /\ Sound(r) /\ r.cached
  <2>1. r \in EntryRecord /\ r.st = "complete" /\ r.obs = b.obs /\ r.partial = b.partial
    BY <1>4, <1>5, SaveLemma
  <2>2. Sound(b) /\ InMemory(b)
    BY <1>4 DEF Sound, InMemory
  <2>. QED BY <1>4, <1>5, <2>1, <2>2, SaveSound
<1>7. PICK f : f = FlushL(r, FALSE, "none")
  OBVIOUS
<1>8. /\ f.st = "complete" /\ ~f.obs /\ Sound(f)
  <2>1. InMemory(r)
    BY <1>6 DEF InMemory
  <2>2. /\ f.st = r.st /\ f.obs = r.obs /\ ~f.partial /\ ~f.cached
        /\ ~f.delNeeded /\ f.buf = <<>> /\ f.file = WholeBody(f)
    BY <1>6, <1>7, <2>1, FlushSound
  <2>. QED BY <1>6, <2>2, StoredSound
<1>9. CASE DeleteCacheEntry(e)
  BY <1>1, <1>9, DeleteServed
<1>10. CASE entry' = [entry EXCEPT ![e] = f] /\ UNCHANGED <<handler, helper>>
  <2>1. OneChanged(e, f)
    BY <1>1, <1>8, <1>10 DEF OneChanged, Served, handler
  <2>2. writer # e
    BY <1>1, FreeLemma
  <2>3. PartWritten'
    BY <1>10, <2>2, WriterApart DEF StoreOK, helper
  <2>. QED BY <2>1, <2>3, ChangedServed
<1>. QED BY <1>1, <1>2, <1>3, <1>5, <1>7, <1>9, <1>10 DEF SaveL

(* The entry is deleted, or marked until it is closed. *)
LEMMA RemoveServed ==
  ASSUME StoreOK, Served, NEW e \in Entry, RemoveL(e)
  PROVE  Keeps
<1>1. mode' = mode
  BY DEF RemoveL
<1>2. CASE entry[e].st = "complete" /\ EraseEntry(e, queue, timer, wh, entry[e].obs)
  <2>1. entry[e].st # "requesting"
    BY <1>2
  <2>. QED BY <1>1, <1>2, <2>1, EraseServed
<1>3. CASE entry' = [entry EXCEPT ![e].st = "destroyed"] /\ UNCHANGED <<handler, helper>>
  BY <1>1, <1>3, RequestServed
<1>. QED BY <1>2, <1>3 DEF RemoveL

(* A hit begins or ends. *)
LEMMA ReadServed ==
  ASSUME StoreOK, Served, NEW e \in Entry, RequestL(e) \/ RequestClosed(e)
  PROVE  Keeps
<1>1. mode' = mode
  BY DEF RequestL, RequestClosed
<1>2. CASE /\ entry[e].size > 0
           /\ entry' = [entry EXCEPT ![e].st = "requesting"] /\ UNCHANGED <<handler, helper>>
  BY <1>1, <1>2, RequestServed
<1>3. CASE entry' = [entry EXCEPT ![e].st = "complete"] /\ UNCHANGED <<handler, helper>>
  BY <1>1, <1>3, RequestServed
<1>4. CASE entry[e].st \in {"responding", "destroyed"} /\ DeleteCacheEntry(e)
  BY <1>1, <1>4, DeleteServed
<1>. QED BY <1>2, <1>3, <1>4 DEF RequestL, RequestClosed

(* A merge drops no entry that is read: one without a file has its body in memory. *)
LEMMA ObserverServed ==
  ASSUME StoreOK, Served, NEW e \in Entry, ObserverRunL(e)
  PROVE  Keeps
<1>1. /\ mode' = mode /\ ~entry[e].cached /\ entry[e].file = None
      /\ EraseEntry(e, queue, timer, wh, entry[e].obs)
  BY DEF ObserverRunL
<1>2. entry[e].st # "requesting"
  <2>1. entry[e] \in EntryRecord /\ Sound(entry[e])
    BY DEF StoreOK, Served, AllSound
  <2>2. entry[e].size = 0
    BY <1>1, <2>1, WholeType DEF Sound
  <2>. QED BY <2>1, <2>2 DEF Sound
<1>. QED BY <1>1, <1>2, EraseServed

(* The user empties the cache. *)
LEMMA RemoveAllServed ==
  ASSUME StoreOK, Served, RemoveAllL
  PROVE  Keeps
<1>1. /\ entry' = [e \in Entry |->
                     IF entry[e].st = "complete" THEN Blank
                     ELSE [entry[e] EXCEPT !.obs = @ /\ e \notin ToSet(queue)]]
      /\ writer' = writer /\ wh # "pending" /\ mode' = mode
  BY DEF RemoveAllL, helper
<1>2. writer = None
  BY <1>1 DEF StoreOK, SingleWriter
<1>3. ASSUME NEW e \in Entry
      PROVE  Sound(entry'[e]) /\ ~entry'[e].obs /\ ReaderKept(e)
  <2>1. ~(entry[e].obs /\ e \notin ToSet(queue)) /\ entry[e] \in EntryRecord /\ Sound(entry[e])
    BY DEF StoreOK, QueueLinked, Served, AllSound
  <2>2. CASE entry[e].st = "complete"
    <3>1. entry'[e] = Blank
      BY <1>1, <2>2
    <3>. QED BY <2>2, <3>1, BlankSound, BlankLemma DEF ReaderKept
  <2>3. CASE entry[e].st # "complete"
    <3>1. PICK s : s = [entry[e] EXCEPT !.obs = FALSE]
      OBVIOUS
    <3>2. entry'[e] = s
      BY <1>1, <2>1, <2>3, <3>1
    <3>3. Marked(entry[e], s, entry[e].st) /\ s.obs = FALSE
      BY <2>1, <3>1 DEF EntryRecord, Marked
    <3>4. WholeBody(s) = WholeBody(entry[e])
      BY <3>3 DEF Marked, WholeBody
    <3>5. Sound(s)
      BY <2>1, <3>3, <3>4 DEF Sound, Marked
    <3>. QED BY <3>2, <3>3, <3>5 DEF ReaderKept, Marked
  <2>. QED BY <2>2, <2>3
<1>4. AllSound' /\ QueuedInMemory'
  BY <1>3 DEF AllSound, QueuedInMemory
<1>5. PartWritten'
  BY <1>1, <1>2 DEF PartWritten
<1>. QED BY <1>1, <1>3, <1>4, <1>5 DEF Keeps, Served

(* Memory is collected. *)
LEMMA CollectServed ==
  ASSUME Calm, StoreOK, Served, NEW k \in 0..Len(queue), Collect(k)
  PROVE  Keeps
<1>1. PICK u : u = Uncollected(k)
  OBVIOUS
<1>2. k <= Collectable /\ NoDup(queue) /\ queue \in Seq(Entry)
  BY DEF Collect, StoreOK, QueueLinked, NoDup
<1>3. flushing \in ToSet(queue) => flushing \in ToSet(u)
  BY <1>1, <1>2, UncollectedLemma
<1>4. PICK how \in [ToSet(queue) \ ToSet(u) -> FlushFault] :
        entry' = [e \in Entry |->
                    IF e \in ToSet(queue) \ ToSet(u)
                    THEN [FlushL(entry[e], Busy(e), how[e]) EXCEPT !.obs = FALSE]
                    ELSE entry[e]]
  BY <1>1 DEF Collect
<1>5. /\ wh' = BeginWriting(wh) /\ flushing' = flushing /\ writer' = writer /\ part' = part
      /\ mode' = mode
  BY DEF Collect, helper
<1>6. wh # "idle" => wh' # "idle"
  BY <1>5 DEF BeginWriting
<1>7. ASSUME NEW e \in Entry, e \in ToSet(queue) \ ToSet(u)
      PROVE  Sound(entry'[e]) /\ ~entry'[e].obs /\ ReaderKept(e) /\ e # writer
  <2>1. e # flushing /\ e # writer
    BY <1>3, <1>7, WriterSound, NoneAssumption
  <2>2. entry[e] \in EntryRecord /\ Sound(entry[e]) /\ ~entry[e].partial /\ InMemory(entry[e])
    <3>1. entry[e].obs
      BY <1>7, <2>1 DEF StoreOK, QueueLinked
    <3>2. InMemory(entry[e])
      BY <2>1, <3>1 DEF Served, QueuedInMemory, Settling
    <3>3. ~entry[e].partial
      BY <2>1, NotWriter
    <3>. QED BY <3>2, <3>3 DEF StoreOK, Served, AllSound
  <2>3. how[e] = "none" /\ Busy(e) = FALSE
    BY <1>4, <1>7, <2>1, NoFault DEF Busy
  <2>4. PICK f : f = FlushL(entry[e], FALSE, "none")
    OBVIOUS
  <2>5. /\ f \in EntryRecord /\ f.st = entry[e].st /\ f.obs = entry[e].obs /\ ~f.partial
        /\ ~f.cached /\ f.size = entry[e].size /\ f.hdr = entry[e].hdr /\ ~f.delNeeded
        /\ f.buf = <<>> /\ f.file = WholeBody(f)
    BY <2>2, <2>4, FlushSound
  <2>6. PICK r : r = [f EXCEPT !.obs = FALSE]
    OBVIOUS
  <2>7. entry'[e] = r
    BY <1>4, <1>7, <2>3, <2>4, <2>6
  <2>8. /\ r.st = f.st /\ r.obs = FALSE /\ ~r.partial /\ ~r.cached /\ r.size = f.size
        /\ r.hdr = f.hdr /\ ~r.delNeeded /\ r.buf = <<>> /\ r.file = f.file
    BY <2>5, <2>6 DEF EntryRecord
  <2>9. r.file = WholeBody(r)
    BY <2>5, <2>8 DEF WholeBody
  <2>10. r.st # "responding"
    <3>1. entry[e].obs
      BY <1>7, <2>1 DEF StoreOK, QueueLinked
    <3>. QED BY <2>2, <2>5, <2>8, <3>1 DEF Sound
  <2>11. r.st = "requesting" => r.size > 0
    BY <2>2, <2>5, <2>8 DEF Sound
  <2>12. Sound(r)
    BY <2>8, <2>9, <2>10, <2>11, StoredSound
  <2>. QED BY <2>1, <2>5, <2>7, <2>8, <2>12 DEF ReaderKept
<1>8. ASSUME NEW e \in Entry, e \notin ToSet(queue) \ ToSet(u)
      PROVE  entry'[e] = entry[e]
  BY <1>4, <1>8
<1>9. AllSound'
  BY <1>7, <1>8 DEF Served, AllSound
<1>10. QueuedInMemory'
  <2>1. \A e \in Entry : Settling(e) => Settling(e)'
    BY <1>5, <1>6 DEF Settling
  <2> SUFFICES ASSUME NEW e \in Entry, entry'[e].obs
               PROVE  InMemory(entry'[e]) \/ Settling(e)'
    BY DEF QueuedInMemory
  <2>2. entry'[e] = entry[e]
    BY <1>7, <1>8
  <2>. QED BY <2>1, <2>2 DEF Served, QueuedInMemory
<1>11. PartWritten'
  <2>1. writer # None => entry'[writer] = entry[writer]
    BY <1>7, <1>8 DEF StoreOK
  <2>. QED BY <1>5, <2>1, WriterApart
<1>12. \A e \in Entry : ReaderKept(e)
  BY <1>7, <1>8 DEF ReaderKept
<1>. QED BY <1>5, <1>9, <1>10, <1>11, <1>12 DEF Keeps, Served

(* The helper writes a block. *)
LEMMA WritesServed ==
  ASSUME Calm, StoreOK, Served, NEW ok \in BOOLEAN, HelperWrites(ok)
  PROVE  Keeps
<1>1. writer # None /\ mode' = mode /\ flushing' = flushing /\ wh' = wh /\ writer' = writer
  BY DEF HelperWrites, handler
<1>2. PICK e \in Entry : e = writer
  BY <1>1, WriterSound
<1>3. /\ entry[e] \in EntryRecord /\ entry[e].partial /\ entry[e].cached /\ Sound(entry[e])
      /\ entry[e].buf = WholeBody(entry[e]) /\ Begun(entry[e], part)
  BY <1>1, <1>2, WriterSound DEF Served, AllSound
<1>4. ok /\ part' = part + 1 /\ part \in Nat /\ Len(entry[e].buf) > part
  BY <1>2 DEF HelperWrites, Calm, StoreOK
<1>5. PICK h \in Nat, n \in Nat : h = entry[e].hdr /\ n = entry[e].size
  BY <1>3 DEF EntryRecord
<1>6. part + 1 <= n /\ entry[e].buf[part + 1] = h
  <2>1. Len(entry[e].buf) = n
    BY <1>3, <1>5, WholeType
  <2>2. part + 1 \in 1..n
    BY <1>4, <1>5, <2>1
  <2>. QED BY <1>3, <1>5, <2>2 DEF WholeBody
<1>7. PICK f : f = [i \in 1..part + 1 |-> h]
  OBVIOUS
<1>8. Append(entry[e].file, entry[e].buf[part + 1]) = f
  BY <1>3, <1>4, <1>5, <1>6, <1>7, MoreBody DEF Begun
<1> PICK l \in BOOLEAN : l = (entry[e].lost \/ ~ok)
  OBVIOUS
<1>9. PICK s : s = [entry[e] EXCEPT !.file = f, !.lost = l]
  OBVIOUS
<1>10. entry' = [entry EXCEPT ![e] = s]
  BY <1>2, <1>4, <1>8, <1>9 DEF HelperWrites, StoreOK
<1>11. /\ s.st = entry[e].st /\ s.hdr = h /\ s.size = n /\ s.buf = entry[e].buf
       /\ s.cached = entry[e].cached /\ s.partial = entry[e].partial /\ s.obs = entry[e].obs
       /\ s.delNeeded = entry[e].delNeeded /\ s.file = f
  BY <1>3, <1>5, <1>9 DEF EntryRecord
<1>12. Sound(s)
  <2>1. WholeBody(s) = WholeBody(entry[e])
    BY <1>5, <1>11 DEF WholeBody
  <2>. QED BY <1>3, <1>5, <1>11, <2>1 DEF Sound
<1>13. InMemory(s)
  BY <1>3, <1>11 DEF InMemory
<1>14. OneChanged(e, s)
  BY <1>1, <1>5, <1>10, <1>11, <1>12, <1>13 DEF OneChanged, Served
<1>15. PartWritten'
  <2>1. entry'[e] = s
    BY <1>10 DEF StoreOK
  <2>2. Begun(s, part')
    BY <1>4, <1>6, <1>7, <1>11 DEF Begun
  <2>. QED BY <1>1, <1>2, <2>1, <2>2 DEF PartWritten
<1>. QED BY <1>14, <1>15, ChangedServed

(* The helper has written the last block: the whole body is in the file. *)
LEMMA DoneServed ==
  ASSUME StoreOK, Served, HelperDone
  PROVE  Keeps
<1>1. writer # None /\ mode' = mode /\ flushing' = flushing /\ wh' # "idle" /\ writer' = None
  BY DEF HelperDone
<1>2. PICK e \in Entry : e = writer
  BY <1>1, WriterSound
<1>3. /\ entry[e] \in EntryRecord /\ entry[e].partial /\ entry[e].cached /\ Sound(entry[e])
      /\ entry[e].st # "responding" /\ entry[e].st # "free"
      /\ entry[e].buf = WholeBody(entry[e]) /\ Begun(entry[e], part)
      /\ e = flushing
  BY <1>1, <1>2, WriterSound DEF Served, AllSound
<1>4. PICK n \in Nat : n = entry[e].size
  BY <1>3 DEF EntryRecord
<1>5. part = n
  <2>1. Len(entry[e].buf) = n
    BY <1>3, <1>4, WholeType
  <2>2. n <= part /\ part \in Nat
    BY <1>2, <2>1 DEF HelperDone, StoreOK
  <2>. QED BY <1>3, <1>4, <2>2 DEF Begun
<1>6. entry[e].file = WholeBody(entry[e])
  BY <1>3, <1>4, <1>5 DEF Begun, WholeBody
<1>7. PICK s : s = [entry[e] EXCEPT !.buf = <<>>, !.cached = FALSE, !.partial = FALSE]
  OBVIOUS
<1>8. entry' = [entry EXCEPT ![e] = s]
  BY <1>2, <1>7 DEF HelperDone, StoreOK
<1>9. /\ s.st = entry[e].st /\ s.hdr = entry[e].hdr /\ s.size = entry[e].size /\ s.buf = <<>>
      /\ s.cached = FALSE /\ s.partial = FALSE
      /\ s.delNeeded = entry[e].delNeeded /\ s.file = entry[e].file
  BY <1>3, <1>7 DEF EntryRecord
<1>10. Sound(s)
  <2>1. WholeBody(s) = WholeBody(entry[e])
    BY <1>9 DEF WholeBody
  <2>. QED BY <1>3, <1>6, <1>9, <2>1, StoredSound DEF Sound
<1>11. Settling(e)
  BY <1>1, <1>2, <1>3, WriterSound DEF Settling
<1>12. OneChanged(e, s)
  BY <1>1, <1>3, <1>8, <1>9, <1>10, <1>11 DEF OneChanged, Served
<1>13. PartWritten'
  BY <1>1 DEF PartWritten
<1>. QED BY <1>12, <1>13, ChangedServed

(* RunL has unlinked an entry, or none: what it did to it, and to the queue. *)
Unlinked(r, s) ==
  \/ Marked(Blank, s, "free") /\ ~s.obs /\ r.st # "requesting"
  \/ \E st \in {r.st, "destroyed"} : Marked(r, s, st) /\ s.obs \in {FALSE, r.obs}
RunLServed(ent) ==
  \A e \in Entry : /\ Unlinked(entry[e], ent[e])
                   /\ ent[e].obs => entry[e].obs /\ ~Settling(e)

(* The first half. *)
LEMMA RunLServed1 ==
  ASSUME StoreOK, RunLReady
  PROVE  RunLServed(Entry1)
<1> SUFFICES ASSUME NEW e \in Entry
             PROVE  /\ Unlinked(entry[e], Entry1[e])
                    /\ Entry1[e].obs => entry[e].obs /\ ~Settling(e)
  BY DEF RunLServed
<1>1. entry[e] \in EntryRecord
  BY DEF StoreOK
<1>2. CASE e = flushing /\ e \in ToSet(queue)
  <2>1. Entry1[e] = Settled(entry[e])
    BY <1>2 DEF Entry1, StoreOK
  <2>2. PICK s : s = [entry[e] EXCEPT !.obs = FALSE]
    OBVIOUS
  <2>3. PICK d : d = [entry[e] EXCEPT !.obs = FALSE, !.st = "destroyed"]
    OBVIOUS
  <2>4. Marked(entry[e], s, entry[e].st) /\ s.obs = FALSE
    BY <1>1, <2>2 DEF EntryRecord, Marked
  <2>5. Marked(entry[e], d, "destroyed") /\ d.obs = FALSE
    BY <1>1, <2>3 DEF EntryRecord, Marked
  <2>6. \/ Entry1[e] = s \/ Entry1[e] = d
        \/ Entry1[e] = Blank /\ entry[e].st # "requesting"
    BY <2>1, <2>2, <2>3 DEF Settled
  <2>7. Marked(Blank, Blank, "free") /\ ~Blank.obs
    BY DEF Marked, Blank
  <2>. QED BY <2>4, <2>5, <2>6, <2>7 DEF Unlinked
<1>3. CASE ~(e = flushing /\ e \in ToSet(queue))
  <2>1. Entry1[e] = entry[e]
    BY <1>3 DEF Entry1, StoreOK
  <2>2. Marked(entry[e], entry[e], entry[e].st)
    BY DEF Marked
  <2>3. entry[e].obs => ~Settling(e)
    BY <1>3 DEF StoreOK, QueueLinked, Settling
  <2>. QED BY <2>1, <2>2, <2>3 DEF Unlinked
<1>. QED BY <1>2, <1>3

(* Both halves. *)
LEMMA RunLServed2 ==
  ASSUME StoreOK, RunLReady
  PROVE  RunLServed(Entry2)
<1> SUFFICES ASSUME NEW e \in Entry
             PROVE  /\ Unlinked(entry[e], Entry2[e])
                    /\ Entry2[e].obs => entry[e].obs /\ ~Settling(e)
  BY DEF RunLServed
<1>1. /\ Unlinked(entry[e], Entry1[e]) /\ (Entry1[e].obs => entry[e].obs /\ ~Settling(e))
      /\ Entry1[e] \in EntryRecord
  BY RunLServed1, RunLLemma1 DEF RunLServed, RunLOK
<1>2. CASE Entry2[e] = Entry1[e]
  BY <1>1, <1>2
<1>3. CASE Entry2[e] = [Entry1[e] EXCEPT !.obs = FALSE]
  <2>1. Marked(Entry1[e], Entry2[e], Entry1[e].st) /\ Entry2[e].obs = FALSE
    BY <1>1, <1>3 DEF EntryRecord, Marked
  <2>2. CASE Marked(Blank, Entry1[e], "free") /\ entry[e].st # "requesting"
    <3>1. Marked(Blank, Entry2[e], "free")
      BY <2>1, <2>2 DEF Marked
    <3>. QED BY <2>1, <2>2, <3>1 DEF Unlinked
  <2>3. ASSUME NEW st \in {entry[e].st, "destroyed"}, Marked(entry[e], Entry1[e], st)
        PROVE  Unlinked(entry[e], Entry2[e])
    <3>1. Marked(entry[e], Entry2[e], st)
      BY <2>1, <2>3 DEF Marked
    <3>. QED BY <2>1, <3>1 DEF Unlinked
  <2>. QED BY <1>1, <2>1, <2>2, <2>3 DEF Unlinked
<1>4. Entry2[e] = Entry1[e] \/ Entry2[e] = [Entry1[e] EXCEPT !.obs = FALSE]
  BY Zenon DEF Entry2
<1>. QED BY <1>2, <1>3, <1>4

(* What is unlinked keeps its body, and its entry if it is read. *)
LEMMA UnlinkedSound ==
  ASSUME NEW r, NEW s, Sound(r), Unlinked(r, s)
  PROVE  /\ Sound(s)
         /\ r.st = "requesting" => s.st # "free" /\ s.size = r.size /\ s.hdr = r.hdr
         /\ s.obs /\ InMemory(r) => InMemory(s)
<1>1. CASE Marked(Blank, s, "free") /\ ~s.obs /\ r.st # "requesting"
  <2>1. /\ ~s.delNeeded /\ ~s.cached /\ s.buf = <<>> /\ s.file = None /\ s.size = 0
        /\ s.st = "free" /\ ~s.partial
    BY <1>1 DEF Marked, Blank
  <2>. QED BY <1>1, <2>1 DEF Sound
<1>2. ASSUME NEW st \in {r.st, "destroyed"}, Marked(r, s, st), s.obs \in {FALSE, r.obs}
      PROVE  /\ Sound(s)
             /\ r.st = "requesting" => s.st # "free" /\ s.size = r.size /\ s.hdr = r.hdr
             /\ InMemory(r) => InMemory(s)
  <2>1. WholeBody(s) = WholeBody(r)
    BY <1>2 DEF Marked, WholeBody
  <2>2. s.obs => r.obs
    BY <1>2
  <2>3. Sound(s)
    BY <1>2, <2>1, <2>2 DEF Sound, Marked
  <2>. QED BY <1>2, <2>3 DEF Marked, InMemory
<1>. QED BY <1>1, <1>2 DEF Unlinked

(* So the entries RunL leaves are sound, and what it leaves queued is in memory. *)
RunLSound(ent) ==
  \A e \in Entry :
    /\ Sound(ent[e])
    /\ ent[e].obs => InMemory(ent[e])
    /\ entry[e].st = "requesting" =>
         ent[e].st # "free" /\ ent[e].size = entry[e].size /\ ent[e].hdr = entry[e].hdr

LEMMA RunLSoundLemma ==
  ASSUME StoreOK, Served, NEW ent, RunLServed(ent)
  PROVE  RunLSound(ent)
<1> SUFFICES ASSUME NEW e \in Entry
             PROVE  /\ Sound(ent[e])
                    /\ ent[e].obs => InMemory(ent[e])
                    /\ entry[e].st = "requesting" =>
                         ent[e].st # "free" /\ ent[e].size = entry[e].size /\ ent[e].hdr = entry[e].hdr
  BY DEF RunLSound
<1>1. Sound(entry[e]) /\ Unlinked(entry[e], ent[e])
  BY DEF Served, AllSound, RunLServed
<1>2. ent[e].obs => InMemory(entry[e])
  BY DEF RunLServed, Served, QueuedInMemory
<1>. QED BY <1>1, <1>2, UnlinkedSound

(* RunL that goes idle, or finds nothing to write at the head of the queue. *)
LEMMA IdleServed ==
  ASSUME StoreOK, Served, RunLReady, NEW ent, RunLServed(ent), entry' = ent, UNCHANGED helper,
         mode' = mode
  PROVE  Keeps
<1>1. RunLSound(ent)
  BY RunLSoundLemma
<1>2. writer' = None
  BY DEF StoreOK, SingleWriter, RunLReady, helper
<1>3. AllSound' /\ QueuedInMemory' /\ \A e \in Entry : ReaderKept(e)
  BY <1>1 DEF AllSound, QueuedInMemory, ReaderKept, RunLSound
<1>4. PartWritten'
  BY <1>2 DEF PartWritten
<1>. QED BY <1>3, <1>4 DEF Keeps, Served

(* RunL begins to write the next body. *)
LEMMA StartServed ==
  ASSUME Calm, StoreOK, Served, NEW how \in AsyncFault, RunLFlush(how)
  PROVE  Keeps
<1>1. /\ RunLReady /\ RunLOK(Entry2, Queue2) /\ Queue2 # <<>> /\ how = "none" /\ mode' = mode
  BY RunLLemma2, NoFault DEF RunLFlush
<1>2. PICK e : e = Head(Queue2)
  OBVIOUS
<1>3. e \in Entry /\ e \in ToSet(Queue2)
  <2>1. 1 \in 1..Len(Queue2) /\ Queue2[1] = e
    BY <1>1, <1>2 DEF RunLOK
  <2>. QED BY <2>1, <1>1, ToSetLemma DEF RunLOK
<1>4. RunLServed(Entry2) /\ RunLSound(Entry2)
  BY <1>1, RunLServed2, RunLSoundLemma
<1>5. PICK r : r = Entry2[e]
  OBVIOUS
<1>6. r \in EntryRecord /\ r.obs /\ r.st # "free" /\ ~r.partial /\ Sound(r) /\ InMemory(r)
  BY <1>1, <1>3, <1>4, <1>5 DEF RunLOK, RunLSound
<1>7. CASE r.buf = <<>>
  <2>1. entry' = Entry2 /\ UNCHANGED helper
    BY <1>2, <1>5, <1>7 DEF RunLFlush
  <2>. QED BY <1>1, <1>4, <2>1, IdleServed
<1>8. CASE r.buf # <<>>
  <2>1. PICK n : n = [r EXCEPT !.file = <<>>, !.partial = TRUE]
    OBVIOUS
  <2>2. /\ entry' = [Entry2 EXCEPT ![e] = n] /\ writer' = e /\ part' = 0
    BY <1>1, <1>2, <1>5, <1>8, <2>1 DEF RunLFlush
  <2>3. /\ n.st = r.st /\ n.hdr = r.hdr /\ n.size = r.size /\ n.buf = r.buf
        /\ n.cached = r.cached /\ n.partial = TRUE /\ n.delNeeded = r.delNeeded
        /\ n.file = <<>> /\ n.obs = r.obs
    BY <1>6, <2>1 DEF EntryRecord
  <2>4. r.cached
    BY <1>6, <1>8 DEF Sound
  <2>5. Sound(n) /\ InMemory(n)
    <3>1. WholeBody(n) = WholeBody(r)
      BY <2>3 DEF WholeBody
    <3>2. r.st # "responding"
      BY <1>6 DEF Sound
    <3>. QED BY <1>6, <2>3, <2>4, <3>1, <3>2 DEF Sound, InMemory
  <2>6. Begun(n, 0)
    <3>1. n.size \in Nat
      BY <1>6, <2>3 DEF EntryRecord
    <3>. QED BY <2>3, <3>1, NoBody DEF Begun
  <2>7. \A x \in Entry : entry'[x] = IF x = e THEN n ELSE Entry2[x]
    BY <1>1, <2>2 DEF RunLOK
  <2>8. AllSound'
    BY <1>4, <2>5, <2>7 DEF AllSound, RunLSound
  <2>9. QueuedInMemory'
    <3> SUFFICES ASSUME NEW x \in Entry, entry'[x].obs PROVE InMemory(entry'[x])
      BY DEF QueuedInMemory
    <3>. QED BY <1>4, <2>5, <2>7 DEF RunLSound
  <2>10. PartWritten'
    BY <1>3, <2>2, <2>6, <2>7 DEF PartWritten
  <2>11. \A x \in Entry : ReaderKept(x)
    <3> SUFFICES ASSUME NEW x \in Entry PROVE ReaderKept(x)
      OBVIOUS
    <3>1. CASE x = e
      BY <1>4, <1>5, <2>3, <2>7, <3>1 DEF ReaderKept, RunLSound
    <3>2. CASE x # e
      BY <1>4, <2>7, <3>2 DEF ReaderKept, RunLSound
    <3>. QED BY <3>1, <3>2
  <2>. QED BY <1>1, <2>8, <2>9, <2>10, <2>11 DEF Keeps, Served
<1>. QED BY <1>7, <1>8

(* The bodies are sound on top of the first inductive invariant. *)
BInv == IInv /\ Served

LEMMA ServedInit == Init => Served
<1> SUFFICES ASSUME Init PROVE Served
  OBVIOUS
<1>1. \A e \in Entry : entry[e] = Blank
  BY DEF Init
<1>. QED BY <1>1, BlankSound, BlankLemma DEF Init, Served, AllSound, QueuedInMemory, PartWritten

(* Every step keeps them, and every entry that is read. *)
LEMMA ServedNext == ASSUME Calm, BInv, Next PROVE Keeps
<1>1. StoreOK /\ Served /\ gen \in Nat
  <2>1. TypeOK /\ IInv /\ Served
    BY DEF BInv, IInv
  <2>2. /\ index \in [Entry -> IndexRecord] /\ gen \in Nat
        /\ mode \in {"up", "closed", "freed", "bounds", "hang"}
    BY <2>1 DEF TypeOK
  <2>. QED BY <2>1, <2>2, StoreLemma
<1>2. ASSUME UNCHANGED <<entry, handler, helper>>, mode' \in {"freed", "bounds", "hang"}
      PROVE  Keeps
  BY <1>1, <1>2, UntouchedServed DEF handler, helper
<1>3. ASSUME NEW e \in Entry, NewResponse(e) PROVE Keeps
  BY <1>1, <1>3, NewResponseServed
<1>4. ASSUME NEW e \in Entry, UpdatedResponse(e) PROVE Keeps
  BY <1>4 DEF UpdatedResponse, Calm
<1>5. ASSUME NEW e \in Entry, ReceivedResponseBodyDataL(e) PROVE Keeps
  BY <1>1, <1>5, BodyDataServed
<1>6. ASSUME NEW e \in Entry, ResponsePostponed(e) PROVE Keeps
  BY <1>1, <1>6, PostponedServed
<1>7. ASSUME NEW e \in Entry, NEW how \in FlushFault, ResponseWritten(e, how) PROVE Keeps
  BY <1>1, <1>7, WrittenServed
<1>8. ASSUME NEW e \in Entry, NEW how \in FlushFault, SaveL(e, how) PROVE Keeps
  BY <1>1, <1>8, SaveLServed
<1>9. ASSUME NEW e \in Entry, RequestL(e) \/ RequestClosed(e) PROVE Keeps
  BY <1>1, <1>9, ReadServed
<1>10. ASSUME NEW e \in Entry, RemoveL(e) PROVE Keeps
  BY <1>1, <1>10, RemoveServed
<1>11. ASSUME NEW e \in Entry, Evict(e) PROVE Keeps
  <2>1. entry[e].st # "requesting" /\ DeleteCacheEntry(e) /\ mode' = mode
    BY <1>11 DEF Evict
  <2>. QED BY <1>1, <2>1, DeleteServed
<1>12. ASSUME NEW e \in Entry, ObserverRunL(e) PROVE Keeps
  BY <1>1, <1>12, ObserverServed
<1>13. ASSUME RemoveAllL PROVE Keeps
  BY <1>1, <1>13, RemoveAllServed
<1>14. ASSUME NEW k \in 0..Len(queue), Collect(k) PROVE Keeps
  BY <1>1, <1>14, CollectServed
<1>15. ASSUME TimerRunL PROVE Keeps
  <2>1. /\ entry' = entry /\ UNCHANGED <<flushing, writer, part>> /\ mode' = mode
        /\ wh # "idle" => wh' # "idle"
    BY <1>15 DEF TimerRunL, helper, BeginWriting
  <2>2. mode' # "closed"
    BY <1>1, <2>1 DEF Served
  <2>. QED BY <1>1, <2>1, <2>2, UntouchedServed
<1>16. ASSUME HelperRunL PROVE Keeps
  BY <1>1, <1>16, WritesServed, DoneServed DEF HelperRunL
<1>17. ASSUME RunLBackOff PROVE Keeps
  <2>1. RunLServed(Entry1) /\ RunLReady /\ entry' = Entry1 /\ UNCHANGED helper /\ mode' = mode
    BY <1>1, <1>17, RunLServed1 DEF RunLBackOff
  <2>. QED BY <1>1, <2>1, IdleServed
<1>18. ASSUME RunLIdle PROVE Keeps
  <2>1. RunLServed(Entry2) /\ RunLReady /\ entry' = Entry2 /\ UNCHANGED helper /\ mode' = mode
    BY <1>1, <1>18, RunLServed2 DEF RunLIdle
  <2>. QED BY <1>1, <2>1, IdleServed
<1>19. ASSUME NEW how \in AsyncFault, RunLFlush(how) PROVE Keeps
  BY <1>1, <1>19, StartServed
<1>20. ASSUME Shutdown PROVE Keeps
  BY <1>20 DEF Shutdown, Calm
<1>21. ASSUME NEW crashed \in BOOLEAN, Restart(crashed) PROVE Keeps
  BY <1>1, <1>21 DEF Restart, Calm, Served
<1>22. ASSUME NEW e \in Entry, SortReadsFreed(e) PROVE Keeps
  BY <1>2, <1>22 DEF SortReadsFreed
<1>23. ASSUME QueueWalkFreed \/ CancelHangs \/ CollectOutOfRange \/ RunLFreed PROVE Keeps
  BY <1>2, <1>23 DEF QueueWalkFreed, CancelHangs, CollectOutOfRange, RunLFreed
<1>. QED
  BY <1>3, <1>4, <1>5, <1>6, <1>7, <1>8, <1>9, <1>10, <1>11, <1>12, <1>13, <1>14, <1>15,
     <1>16, <1>17, <1>18, <1>19, <1>20, <1>21, <1>22, <1>23
  DEF Next, RunL

(* Neither does a step of others. *)
LEMMA ServedStep == ASSUME Calm, BInv, [Next]_vars PROVE BInv' /\ Keeps
<1>1. CASE Next
  <2>1. Keeps
    BY <1>1, ServedNext
  <2>2. IInv'
    BY <1>1, NextLemma DEF BInv
  <2>. QED BY <2>1, <2>2 DEF Keeps, BInv
<1>2. CASE UNCHANGED vars
  <2>1. IInv'
    BY <1>2, StutterLemma DEF BInv
  <2>2. Served' /\ \A e \in Entry : ReaderKept(e)
    BY <1>2 DEF BInv, Served, AllSound, QueuedInMemory, PartWritten, Settling, ReaderKept,
                vars, handler, helper
  <2>. QED BY <2>1, <2>2 DEF Keeps, BInv
<1>. QED BY <1>1, <1>2

LEMMA ServedAlways == ASSUME Calm PROVE Spec => []BInv
<1>1. Init => BInv
  BY InitLemma, ServedInit DEF BInv
<1>2. BInv /\ [Next]_vars => BInv'
  BY ServedStep
<1>. QED BY <1>1, <1>2, PTL DEF Spec

(* All entries serve the whole body that belongs to their headers. *)
LEMMA AllIntact ==
  ASSUME BInv
  PROVE  \A e \in Entry : entry[e] \in EntryRecord /\ NextChunk(entry[e]) = WholeBody(entry[e])
BY SoundIntact DEF BInv, Served, AllSound, IInv, TypeOK

(* For any number of entries, bodies of any length and any threshold, a stored entry serves
   the whole body that came with its headers, wherever it is: in memory, in the file,
   before, during and after the write, with hits, deletions, evictions, memory collections,
   merges and the emptying of the cache between any two blocks, and with freed objects whose
   address is given out again.  Errors, updates and restarts do break it. *)
THEOREM BodiesIntact ==
  ASSUME Calm
  PROVE  Spec => []BodyIntact
<1>1. BInv => BodyIntact
  BY AllIntact DEF BodyIntact, Intact, WholeBody
<1>. QED BY <1>1, ServedAlways, PTL

(* Then a hit in progress keeps its entry and its body, whatever else happens. *)
THEOREM ReadersUndisturbed ==
  ASSUME Calm
  PROVE  Spec => ReaderUndisturbed
<1>1. ASSUME BInv, [Next]_vars
      PROVE  [\A e \in Entry : entry[e].st = "requesting" /\ mode = "up" /\ mode' = "up" =>
                /\ entry'[e].st # "free"
                /\ NextChunk(entry'[e]) = NextChunk(entry[e]) \/ entry'[e].lost]_vars
  <2>1. BInv' /\ Keeps
    BY <1>1, ServedStep
  <2>2. \A e \in Entry : NextChunk(entry[e]) = WholeBody(entry[e])
    BY <1>1, AllIntact
  <2>3. \A e \in Entry : NextChunk(entry'[e]) = WholeBody(entry'[e])
    <3>1. (\A e \in Entry : entry[e] \in EntryRecord /\ Sound(entry[e]))'
      BY <2>1 DEF BInv, Served, AllSound, IInv, TypeOK
    <3>. QED BY <3>1, SoundIntact
  <2>4. ASSUME NEW e \in Entry, entry[e].st = "requesting"
        PROVE  entry'[e].st # "free" /\ NextChunk(entry'[e]) = NextChunk(entry[e])
    <3>1. entry'[e].st # "free" /\ entry'[e].size = entry[e].size /\ entry'[e].hdr = entry[e].hdr
      BY <2>1, <2>4 DEF Keeps, ReaderKept
    <3>2. WholeBody(entry'[e]) = WholeBody(entry[e])
      BY <3>1 DEF WholeBody
    <3>. QED BY <2>2, <2>3, <3>1, <3>2
  <2>. QED BY <2>4
<1>. QED BY <1>1, ServedAlways, PTL DEF Spec, ReaderUndisturbed
=============================================================================
