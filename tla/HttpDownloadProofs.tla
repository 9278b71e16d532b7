------------------------- MODULE HttpDownloadProofs -------------------------
(***************************************************************************)
(* Proofs about a download: what it may do when it is not in progress, and  *)
(* what is in its file.                                                     *)
(***************************************************************************)
EXTENDS HttpDownload, SequenceTheorems, TLAPS

-----------------------------------------------------------------------------
(* Types                                                                    *)

Modes == {"on", "off", "panic"}
States == {"created", "progress", "paused", "completed", "failed"}
Busy == {"started", "connecting", "connected", "submitted", "header", "suspended"}
Progs == {"none", "moving", "moved"} \cup Busy
Transactions == [st : {"none", "asked", "body"}, ver : 0..MaxVersion, pos : Nat]
InfoRecord == [state : States, prog : Progs, size : Nat, hdr : 0..MaxVersion,
               named : BOOLEAN, noMedia : BOOLEAN]
Download ==
  [mode : Modes, state : States, prog : Progs, active : BOOLEAN, trans : Transactions,
   link : {"down", "opening", "up", "blocked"}, held : BOOLEAN, file : Seq(Block),
   info : InfoRecord, open : {"no", "good", "bad"}, size : Nat, buf : Seq(Block),
   flight : Seq(Block), werr : BOOLEAN, enabled : BOOLEAN, hdr : 0..MaxVersion,
   named : BOOLEAN, noMedia : BOOLEAN, moving : BOOLEAN, wait : {"none", "part", "complete"}]

-----------------------------------------------------------------------------
(* What the parts of the handlers do                                        *)

(* What only the writer of the file changes, and what nothing but itself does. *)
Stored(r) == <<r.file, r.size, r.open, r.buf, r.flight, r.werr>>
Link(r) == <<r.trans, r.link, r.held>>
Named(r) == <<r.hdr, r.named, r.noMedia>>
Rest(r) == <<r.enabled, r.moving, r.wait>>

LEMMA InfoType ==
  ASSUME NEW r \in Download
  PROVE  Info(r) \in InfoRecord
BY DEF Download, Info, InfoRecord

LEMMA StoreEffect ==
  ASSUME NEW r \in Download, NEW q, q = StoreDownloadInfoL(r)
  PROVE  /\ q \in Download
         /\ q.info = Info(r) /\ q.mode = r.mode /\ q.state = r.state /\ q.prog = r.prog
         /\ q.active = r.active
         /\ Stored(q) = Stored(r) /\ Link(q) = Link(r) /\ Named(q) = Named(r) /\ Rest(q) = Rest(r)
<1>1. Info(r) \in InfoRecord
  BY InfoType
<1>. QED BY <1>1 DEF StoreDownloadInfoL, Download, Stored, Link, Named, Rest

LEMMA StatusEffect ==
  ASSUME NEW r \in Download, NEW p \in Progs, NEW s \in States, NEW q,
         q = SetDownloadStatus(r, p, s)
  PROVE  /\ q \in Download
         /\ q.state = s /\ q.prog = p
         /\ q.info = Info(q)
         /\ s = "paused" => ~q.active
         /\ s \notin {"progress", "paused"} => q.active = r.active
         /\ s # "progress" => q.mode = r.mode
         /\ q.mode \in {r.mode, "panic"}
         /\ Stored(q) = Stored(r) /\ Link(q) = Link(r) /\ Named(q) = Named(r) /\ Rest(q) = Rest(r)
<1> DEFINE c == s = "progress" /\ p \in {"started", "connected"}
           a == IF s = "paused" THEN FALSE ELSE r.active \/ c
           m == IF c /\ r.active THEN "panic" ELSE r.mode
           n == [r EXCEPT !.prog = p, !.state = s, !.active = a, !.mode = m]
<1>1. a \in BOOLEAN /\ (s = "paused" => a = FALSE) /\ (s # "progress" /\ s # "paused" => a = r.active)
  BY DEF Download
<1>2. m \in Modes /\ (m = r.mode \/ (s = "progress" /\ m = "panic"))
  BY DEF Download, Modes
<1>3. q = StoreDownloadInfoL(n)
  BY DEF SetDownloadStatus
<1> HIDE DEF a, m, c
<1>4. /\ n \in Download
      /\ n.state = s /\ n.prog = p /\ n.active = a /\ n.mode = m
      /\ Stored(n) = Stored(r) /\ Link(n) = Link(r) /\ Named(n) = Named(r) /\ Rest(n) = Rest(r)
  BY <1>1, <1>2 DEF Download, Stored, Link, Named, Rest
<1> HIDE DEF n
<1>5. /\ q \in Download
      /\ q.info = Info(n) /\ q.mode = n.mode /\ q.state = n.state /\ q.prog = n.prog
      /\ q.active = n.active
      /\ Stored(q) = Stored(n) /\ Link(q) = Link(n) /\ Named(q) = Named(n) /\ Rest(q) = Rest(n)
  BY <1>3, <1>4, StoreEffect
<1>6. q.info = Info(q)
  BY <1>5 DEF Info, Stored, Named
<1>. QED BY <1>1, <1>2, <1>4, <1>5, <1>6

LEMMA CancelEffect ==
  ASSUME NEW r \in Download, NEW q, q = CancelTransaction(r)
  PROVE  /\ q \in Download
         /\ q.trans = NoTrans /\ q.link = r.link /\ q.held = r.held
         /\ q.info = r.info /\ q.mode = r.mode /\ q.state = r.state /\ q.prog = r.prog
         /\ q.active = r.active
         /\ Stored(q) = Stored(r) /\ Named(q) = Named(r) /\ Rest(q) = Rest(r)
<1>1. NoTrans \in Transactions
  BY DownloadConstants DEF NoTrans, Transactions
<1>. QED BY <1>1 DEF CancelTransaction, Download, Stored, Named, Rest

LEMMA DisconnectEffect ==
  ASSUME NEW r \in Download, NEW q, q = Disconnect(r)
  PROVE  /\ q \in Download
         /\ q.trans = r.trans /\ q.held = FALSE
         /\ q.info = r.info /\ q.mode = r.mode /\ q.state = r.state /\ q.prog = r.prog
         /\ q.active = r.active
         /\ Stored(q) = Stored(r) /\ Named(q) = Named(r) /\ Rest(q) = Rest(r)
<1> DEFINE l == IF "AutoConnect" \in off THEN r.link ELSE "down"
<1>1. l \in {"down", "opening", "up", "blocked"}
  BY DEF Download
<1>2. CASE ~r.held
  BY <1>2 DEF Disconnect, Download
<1>3. CASE r.held
  <2>1. q = [r EXCEPT !.held = FALSE, !.link = l]
    BY <1>3 DEF Disconnect
  <2> HIDE DEF l
  <2>. QED BY <1>1, <2>1 DEF Download, Stored, Named, Rest
<1>. QED BY <1>2, <1>3

-----------------------------------------------------------------------------
(* What the writer of the file does                                         *)

(* All but the file and what is on its way into it. *)
Fixed(r) == <<r.mode, r.state, r.prog, r.active, r.trans, r.link, r.held, r.info, r.hdr,
              r.named, r.noMedia, r.enabled, r.moving, r.wait>>

LEMMA FixedFields ==
  ASSUME NEW r, NEW q, Fixed(q) = Fixed(r)
  PROVE  /\ q.mode = r.mode /\ q.state = r.state /\ q.prog = r.prog /\ q.active = r.active
         /\ q.trans = r.trans /\ q.link = r.link /\ q.held = r.held /\ q.info = r.info
         /\ q.hdr = r.hdr /\ q.named = r.named /\ q.noMedia = r.noMedia
         /\ q.enabled = r.enabled /\ q.moving = r.moving /\ q.wait = r.wait
BY DEF Fixed

LEMMA WritesEffect ==
  ASSUME NEW r \in Download, NEW b \in Seq(Block), NEW q \in Writes(r, b)
  PROVE  /\ q \in Download /\ r.open = "good" /\ q.open = "good"
         /\ q.file = r.file \o b /\ q.size = r.size + Len(b)
         /\ q.buf = r.buf /\ q.flight = r.flight /\ q.werr = r.werr
         /\ Fixed(q) = Fixed(r)
<1> DEFINE f == r.file \o b
           s == r.size + Len(b)
<1>1. f \in Seq(Block) /\ s \in Nat
  BY DEF Download
<1>2. q = [r EXCEPT !.file = f, !.size = s] /\ r.open = "good"
  BY DEF Writes
<1> HIDE DEF f, s
<1>3. q \in Download /\ q.open = "good" /\ q.file = f /\ q.size = s
         /\ q.buf = r.buf /\ q.flight = r.flight /\ q.werr = r.werr
         /\ Fixed(q) = Fixed(r)
  BY <1>1, <1>2 DEF Download, Fixed
<1>. QED BY <1>2, <1>3 DEF f, s

(* A write that ends is in the file, or is reported with its error. *)
LEMMA FinishEffect ==
  ASSUME NEW r \in Download, NEW q \in FinishWrite(r)
  PROVE  /\ q \in Download /\ Fixed(q) = Fixed(r) /\ q.open = r.open /\ q.buf = r.buf
         /\ q.flight = <<>>
         /\ \/ q.file = r.file /\ q.size = r.size /\ (r.flight = <<>> \/ Fails(r))
            \/ r.open = "good" /\ q.file = r.file \o r.flight /\ q.size = r.size + Len(r.flight)
<1>1. r.flight \in Seq(Block) /\ <<>> \in Seq(Block)
  BY DEF Download
<1>2. CASE r.flight = <<>>
  BY <1>2 DEF FinishWrite
<1>3. CASE r.flight # <<>>
  <2>1. CASE \E p \in Writes(r, r.flight) : q = [p EXCEPT !.flight = <<>>, !.werr = FALSE]
    <3>1. PICK p \in Writes(r, r.flight) : q = [p EXCEPT !.flight = <<>>, !.werr = FALSE]
      BY <2>1
    <3>2. /\ p \in Download /\ r.open = "good" /\ p.open = "good"
          /\ p.file = r.file \o r.flight /\ p.size = r.size + Len(r.flight)
          /\ p.buf = r.buf /\ Fixed(p) = Fixed(r)
      BY <1>1, WritesEffect
    <3>3. /\ q \in Download /\ q.flight = <<>> /\ q.open = p.open /\ q.file = p.file
          /\ q.size = p.size /\ q.buf = p.buf /\ Fixed(q) = Fixed(p)
      BY <1>1, <3>1, <3>2 DEF Download, Fixed
    <3>. QED BY <3>2, <3>3
  <2>2. CASE Fails(r) /\ q = [r EXCEPT !.flight = <<>>, !.werr = TRUE]
    BY <1>1, <2>2 DEF Download, Fixed
  <2>. QED BY <1>3, <2>1, <2>2 DEF FinishWrite
<1>. QED BY <1>2, <1>3

LEMMA FlushEffect ==
  ASSUME NEW r \in Download, NEW q \in FlushBuffersL(r)
  PROVE  /\ q \in Download /\ Fixed(q) = Fixed(r) /\ q.open = r.open /\ q.flight = r.flight
         /\ \/ q.file = r.file /\ q.size = r.size
            \/ r.open = "good" /\ q.file = r.file \o r.buf /\ q.size = r.size + Len(r.buf)
<1>1. r.buf \in Seq(Block) /\ <<>> \in Seq(Block)
  BY DEF Download
<1>2. CASE r.werr
  <2>1. q = [r EXCEPT !.werr = FALSE]
    BY <1>2 DEF FlushBuffersL
  <2>. QED BY <2>1 DEF Download, Fixed
<1>3. CASE q = r
  BY <1>3
<1>4. CASE \E p \in Writes(r, r.buf) : q = [p EXCEPT !.buf = <<>>]
  <2>1. PICK p \in Writes(r, r.buf) : q = [p EXCEPT !.buf = <<>>]
    BY <1>4
  <2>2. /\ p \in Download /\ r.open = "good" /\ p.open = "good"
        /\ p.file = r.file \o r.buf /\ p.size = r.size + Len(r.buf)
        /\ p.flight = r.flight /\ Fixed(p) = Fixed(r)
    BY <1>1, WritesEffect
  <2>3. /\ q \in Download /\ q.flight = p.flight /\ q.open = p.open /\ q.file = p.file
        /\ q.size = p.size /\ Fixed(q) = Fixed(p)
    BY <1>1, <2>1, <2>2 DEF Download, Fixed
  <2>. QED BY <2>2, <2>3
<1>. QED BY <1>2, <1>3, <1>4 DEF FlushBuffersL

(* What closing may add to the file: what was under way and what was buffered,
   in this order, or only part of it when writing fails. *)
Added(r) ==
  {<<>>} \cup (IF r.open = "good" THEN {r.flight, r.flight \o r.buf} ELSE {})
         \cup (IF r.open = "good" /\ Fails(r) THEN {r.buf} ELSE {})
Closed(q, r) == \E s \in Added(r) : q.file = r.file \o s /\ q.size = r.size + Len(s)

LEMMA AddedType ==
  ASSUME NEW r \in Download, NEW s \in Added(r)
  PROVE  s \in Seq(Block)
<1>1. r.flight \in Seq(Block) /\ r.buf \in Seq(Block)
  BY DEF Download
<1>2. r.flight \o r.buf \in Seq(Block)
  BY <1>1
<1>3. <<>> \in Seq(Block)
  OBVIOUS
<1>4. s \in {<<>>, r.flight, r.flight \o r.buf, r.buf}
  BY DEF Added
<1>. QED BY <1>1, <1>2, <1>3, <1>4

LEMMA CloseEffect ==
  ASSUME NEW r \in Download, NEW q \in CloseDestinationFile(r)
  PROVE  /\ q \in Download /\ Fixed(q) = Fixed(r) /\ q.open = "no" /\ Closed(q, r)
         /\ r.open # "no" => q.flight = <<>> /\ q.buf = <<>>
         /\ r.open = "no" => q = r
<1>0. r.file \in Seq(Block) /\ r.flight \in Seq(Block) /\ r.buf \in Seq(Block) /\ r.size \in Nat
  BY DEF Download
<1>1. r.file \o <<>> = r.file /\ r.size + Len(<<>>) = r.size /\ <<>> \o r.buf = r.buf
  BY <1>0, ConcatEmptySeq
<1>2. <<>> \in Added(r)
  BY DEF Added
<1>3. CASE r.open = "no"
  <2>1. q = r
    BY <1>3 DEF CloseDestinationFile
  <2>. QED BY <1>1, <1>2, <1>3, <2>1 DEF Closed
<1>4. CASE r.open # "no"
  <2>1. PICK p \in UNION {FlushBuffersL(g) : g \in FinishWrite(r)} :
          q = [p EXCEPT !.buf = <<>>, !.werr = FALSE, !.open = "no"]
    BY <1>4, Zenon DEF CloseDestinationFile
  <2>0. PICK f \in FinishWrite(r) : p \in FlushBuffersL(f)
    OBVIOUS
  <2>2. /\ f \in Download /\ Fixed(f) = Fixed(r) /\ f.open = r.open /\ f.buf = r.buf /\ f.flight = <<>>
        /\ \/ f.file = r.file /\ f.size = r.size /\ (r.flight = <<>> \/ Fails(r))
           \/ r.open = "good" /\ f.file = r.file \o r.flight /\ f.size = r.size + Len(r.flight)
    BY FinishEffect
  <2>3. /\ p \in Download /\ Fixed(p) = Fixed(f) /\ p.open = f.open /\ p.flight = f.flight
        /\ \/ p.file = f.file /\ p.size = f.size
           \/ f.open = "good" /\ p.file = f.file \o f.buf /\ p.size = f.size + Len(f.buf)
    BY <2>0, <2>2, FlushEffect
  <2>4. <<>> \in Seq(Block)
    OBVIOUS
  <2>5. /\ q \in Download /\ q.open = "no" /\ q.flight = p.flight /\ q.buf = <<>>
        /\ q.file = p.file /\ q.size = p.size /\ Fixed(q) = Fixed(p)
    BY <2>1, <2>3, <2>4 DEF Download, Fixed
  <2>6. Closed(p, r)
    <3>1. CASE p.file = r.file /\ p.size = r.size
      BY <1>1, <1>2, <3>1 DEF Closed
    <3>2. CASE p.file = r.file \o r.flight /\ p.size = r.size + Len(r.flight) /\ r.open = "good"
      BY <3>2 DEF Closed, Added
    <3>3. CASE /\ p.file = r.file \o r.buf /\ p.size = r.size + Len(r.buf) /\ r.open = "good"
               /\ r.flight = <<>>
      <4>1. r.flight \o r.buf = r.buf
        BY <1>1, <3>3
      <4>. QED BY <3>3, <4>1 DEF Closed, Added
    <3>4. CASE /\ p.file = r.file \o r.buf /\ p.size = r.size + Len(r.buf) /\ r.open = "good"
               /\ Fails(r)
      BY <3>4 DEF Closed, Added
    <3>5. CASE /\ p.file = (r.file \o r.flight) \o r.buf /\ r.open = "good"
               /\ p.size = (r.size + Len(r.flight)) + Len(r.buf)
      <4>1. /\ (r.file \o r.flight) \o r.buf = r.file \o (r.flight \o r.buf)
            /\ (r.size + Len(r.flight)) + Len(r.buf) = r.size + Len(r.flight \o r.buf)
        <5>1. Len(r.flight \o r.buf) = Len(r.flight) + Len(r.buf)
          BY <1>0, ConcatProperties
        <5>2. Len(r.flight) \in Nat /\ Len(r.buf) \in Nat
          BY <1>0
        <5> DEFINE x == r.file
                   y == r.flight
                   z == r.buf
        <5>6. x \in Seq(Block) /\ y \in Seq(Block) /\ z \in Seq(Block)
          BY <1>0
        <5> HIDE DEF x, y, z
        <5>7. (x \o y) \o z = x \o (y \o z)
          BY <5>6, ConcatAssociative, SMTT(40)
        <5>3. (r.file \o r.flight) \o r.buf = r.file \o (r.flight \o r.buf)
          BY <5>7 DEF x, y, z
        <5>4. \A j, k, m \in Nat : (j + k) + m = j + (k + m)
          OBVIOUS
        <5>5. (r.size + Len(r.flight)) + Len(r.buf) = r.size + (Len(r.flight) + Len(r.buf))
          BY <1>0, <5>2, <5>4, Zenon
        <5>. QED BY <5>1, <5>3, <5>5, Zenon
      <4>2. r.flight \o r.buf \in Added(r)
        BY <3>5 DEF Added
      <4>3. p.file = r.file \o (r.flight \o r.buf) /\ p.size = r.size + Len(r.flight \o r.buf)
        BY <3>5, <4>1, Zenon
      <4>. QED BY <4>2, <4>3, Zenon DEF Closed
    <3>. QED BY <2>2, <2>3, <3>1, <3>2, <3>3, <3>4, <3>5
  <2>7. Closed(q, r)
    BY <2>5, <2>6 DEF Closed
  <2>. QED BY <1>4, <2>2, <2>3, <2>5, <2>7
<1>. QED BY <1>3, <1>4

(* ReInitializeDownload: the file is closed, forgotten, and deleted unless its
   card is out. *)
LEMMA ReInitEffect ==
  ASSUME NEW r \in Download, NEW q \in ReInitializeDownload(r)
  PROVE  /\ q \in Download /\ q.open = "no" /\ q.size = 0
         /\ q.hdr = 0 /\ q.named = FALSE /\ q.noMedia = FALSE
         /\ r.open # "no" => q.flight = <<>> /\ q.buf = <<>>
         /\ r.open = "no" => q.flight = r.flight /\ q.buf = r.buf
         /\ q.mode = r.mode /\ q.state = r.state /\ q.prog = r.prog /\ q.active = r.active
         /\ q.info = r.info /\ Link(q) = Link(r) /\ Rest(q) = Rest(r)
         /\ \/ q.file = <<>>
            \/ \E s \in Added(r) : q.file = r.file \o s
<1>1. PICK p \in CloseDestinationFile(r) :
        q = [p EXCEPT !.file = IF card /\ p.named THEN <<>> ELSE @, !.size = 0, !.hdr = 0,
                      !.named = FALSE, !.noMedia = FALSE]
  BY DEF ReInitializeDownload
<1>2. /\ p \in Download /\ Fixed(p) = Fixed(r) /\ p.open = "no" /\ Closed(p, r)
      /\ r.open # "no" => p.flight = <<>> /\ p.buf = <<>>
      /\ r.open = "no" => p = r
  BY CloseEffect
<1> DEFINE f == IF card /\ p.named THEN <<>> ELSE p.file
<1>3. f \in Seq(Block) /\ (f = <<>> \/ f = p.file) /\ 0 \in 0..MaxVersion
  BY <1>2, DownloadConstants DEF Download
<1>4. q = [p EXCEPT !.file = f, !.size = 0, !.hdr = 0, !.named = FALSE, !.noMedia = FALSE]
  BY <1>1
<1> HIDE DEF f
<1>5. /\ q \in Download /\ q.open = p.open /\ q.size = 0 /\ q.file = f
      /\ q.hdr = 0 /\ q.named = FALSE /\ q.noMedia = FALSE
      /\ q.flight = p.flight /\ q.buf = p.buf
      /\ q.mode = p.mode /\ q.state = p.state /\ q.prog = p.prog /\ q.active = p.active
      /\ q.info = p.info /\ Link(q) = Link(p) /\ Rest(q) = Rest(p)
  BY <1>2, <1>3, <1>4 DEF Download, Link, Rest
<1>6. /\ p.mode = r.mode /\ p.state = r.state /\ p.prog = r.prog /\ p.active = r.active
      /\ p.info = r.info /\ Link(p) = Link(r) /\ Rest(p) = Rest(r)
  BY <1>2, FixedFields DEF Link, Rest
<1>7. q.file = <<>> \/ \E s \in Added(r) : q.file = r.file \o s
  BY <1>2, <1>3, <1>5 DEF Closed
<1>. QED BY <1>2, <1>5, <1>6, <1>7

(* CreateDestinationFileL: what is on the card is kept if something of it counts
   as downloaded. *)
LEMMA CreateEffect ==
  ASSUME NEW r \in Download, NEW q, q = CreateDestinationFileL(r)
  PROVE  /\ q \in Download /\ q.open = "good" /\ q.named = TRUE
         /\ q.file = IF r.size = 0 THEN <<>> ELSE r.file
         /\ q.size = r.size /\ q.flight = r.flight /\ q.buf = r.buf /\ q.hdr = r.hdr
         /\ q.noMedia = r.noMedia
         /\ q.mode = r.mode /\ q.state = r.state /\ q.prog = r.prog /\ q.active = r.active
         /\ q.info = r.info /\ Link(q) = Link(r) /\ Rest(q) = Rest(r)
<1> DEFINE f == IF r.size = 0 THEN <<>> ELSE r.file
<1>1. f \in Seq(Block)
  BY DEF Download
<1>2. q = [r EXCEPT !.named = TRUE, !.open = "good", !.file = f]
  BY DEF CreateDestinationFileL
<1> HIDE DEF f
<1>3. /\ q \in Download /\ q.open = "good" /\ q.named = TRUE /\ q.file = f
      /\ q.size = r.size /\ q.flight = r.flight /\ q.buf = r.buf /\ q.hdr = r.hdr
      /\ q.noMedia = r.noMedia
      /\ q.mode = r.mode /\ q.state = r.state /\ q.prog = r.prog /\ q.active = r.active
      /\ q.info = r.info /\ Link(q) = Link(r) /\ Rest(q) = Rest(r)
  BY <1>1, <1>2, ZenonT(60) DEF Download, Link, Rest
<1>. QED BY <1>3 DEF f

(* A download that is not in progress keeps the connection handler only where the
   client has asked for it. *)
Keeps(held, state) ==
  held => \/ "DisconnectOnPause" \in off /\ state \in {"paused", "failed"}
          \/ "DisconnectOnReset" \in off /\ state \in {"created", "failed"}

(* A download that has been stopped: it asks for nothing, and what it had is in its
   file and noted. *)
Halted(q, r) ==
  /\ q \in Download /\ q.mode = r.mode /\ q.active = FALSE
  /\ q.trans = NoTrans /\ Keeps(q.held, q.state) /\ q.open = "no"
  /\ q.info = Info(q) /\ Named(q) = Named(r) /\ Rest(q) = Rest(r) /\ Closed(q, r)
  /\ r.open # "no" => q.flight = <<>> /\ q.buf = <<>>
  /\ r.open = "no" => q.flight = r.flight /\ q.buf = r.buf
  /\ \/ q.state \in {"paused", "failed"} /\ q.prog = "none"
     \/ r.state = "failed" /\ q.state = "failed" /\ q.prog = r.prog

LEMMA ClosedSame ==
  ASSUME NEW r, NEW p, NEW q, NEW x, Closed(q, p),
         p.file = r.file, p.size = r.size, p.open = r.open, p.flight = r.flight, p.buf = r.buf,
         x.file = q.file, x.size = q.size
  PROVE  Closed(x, r)
BY DEF Closed, Added, Fails

LEMMA OnErrorEffect ==
  ASSUME NEW r \in Download, NEW error, NEW q \in OnError(r, error), pausable \in BOOLEAN
  PROVE  Halted(q, r)
<1> DEFINE c == CancelTransaction(r)
           i == [c EXCEPT !.active = FALSE]
           d == Disconnect(i)
           s == IF error \in {"partial", "media"} \/ (error = "connection" /\ pausable)
                  THEN "paused" ELSE "failed"
<1>1. PICK p \in CloseDestinationFile(d) :
        q = StoreDownloadInfoL(IF p.state = "failed" THEN p ELSE SetDownloadStatus(p, "none", s))
  BY DEF OnError
<1>2. /\ c \in Download /\ c.trans = NoTrans /\ c.mode = r.mode /\ c.state = r.state /\ c.prog = r.prog
      /\ Stored(c) = Stored(r) /\ Named(c) = Named(r) /\ Rest(c) = Rest(r)
  BY CancelEffect
<1> HIDE DEF c
<1>3. /\ i \in Download /\ i.trans = NoTrans /\ i.active = FALSE
      /\ i.mode = c.mode /\ i.state = c.state /\ i.prog = c.prog
      /\ Stored(i) = Stored(c) /\ Named(i) = Named(c) /\ Rest(i) = Rest(c)
  BY <1>2 DEF Download, Stored, Named, Rest
<1> HIDE DEF i
<1>4. /\ d \in Download /\ d.trans = NoTrans /\ d.active = FALSE /\ d.held = FALSE
      /\ d.mode = r.mode /\ d.state = r.state /\ d.prog = r.prog
      /\ Stored(d) = Stored(r) /\ Named(d) = Named(r) /\ Rest(d) = Rest(r)
  BY <1>2, <1>3, DisconnectEffect
<1> HIDE DEF d
<1>5. /\ p \in Download /\ Fixed(p) = Fixed(d) /\ p.open = "no" /\ Closed(p, d)
      /\ d.open # "no" => p.flight = <<>> /\ p.buf = <<>>
      /\ d.open = "no" => p = d
  BY <1>4, CloseEffect
<1>6. /\ p.trans = NoTrans /\ p.active = FALSE /\ p.held = FALSE
      /\ p.mode = r.mode /\ p.state = r.state /\ p.prog = r.prog
      /\ Named(p) = Named(r) /\ Rest(p) = Rest(r)
  <2>1. /\ p.trans = d.trans /\ p.active = d.active /\ p.held = d.held /\ p.mode = d.mode
        /\ p.state = d.state /\ p.prog = d.prog /\ Named(p) = Named(d) /\ Rest(p) = Rest(d)
    BY <1>5, FixedFields DEF Named, Rest
  <2>. QED BY <1>4, <2>1
<1> DEFINE n == IF p.state = "failed" THEN p ELSE SetDownloadStatus(p, "none", s)
<1>7. /\ n \in Download /\ n.active = FALSE /\ n.mode = r.mode
      /\ \/ n.state \in {"paused", "failed"} /\ n.prog = "none"
         \/ r.state = "failed" /\ n.state = "failed" /\ n.prog = r.prog
      /\ Stored(n) = Stored(p) /\ Link(n) = Link(p) /\ Named(n) = Named(p) /\ Rest(n) = Rest(p)
  <2>1. CASE p.state = "failed"
    BY <1>5, <1>6, <2>1
  <2>2. CASE p.state # "failed"
    <3>1. "none" \in Progs /\ s \in States /\ s # "progress" /\ s \in {"paused", "failed"}
      BY DEF Progs, States
    <3> HIDE DEF s
    <3>2. n = SetDownloadStatus(p, "none", s)
      BY <2>2
    <3> HIDE DEF n
    <3>3. /\ n \in Download /\ n.state = s /\ n.prog = "none" /\ n.mode = p.mode
          /\ (n.active = FALSE \/ n.active = p.active)
          /\ Stored(n) = Stored(p) /\ Link(n) = Link(p) /\ Named(n) = Named(p) /\ Rest(n) = Rest(p)
      BY <1>5, <3>1, <3>2, StatusEffect
    <3>. QED BY <1>6, <3>1, <3>3
  <2>. QED BY <2>1, <2>2
<1>8. q = StoreDownloadInfoL(n)
  BY <1>1
<1> HIDE DEF n, s
<1>9. /\ q \in Download /\ q.info = Info(n) /\ q.mode = n.mode /\ q.state = n.state /\ q.prog = n.prog
      /\ q.active = n.active
      /\ Stored(q) = Stored(n) /\ Link(q) = Link(n) /\ Named(q) = Named(n) /\ Rest(q) = Rest(n)
  BY <1>7, <1>8, StoreEffect
<1>10. q.info = Info(q)
  BY <1>9 DEF Info, Stored, Named
<1>11. q.file = p.file /\ q.size = p.size /\ q.open = p.open /\ q.flight = p.flight /\ q.buf = p.buf
  BY <1>7, <1>9 DEF Stored
<1>12. d.file = r.file /\ d.size = r.size /\ d.open = r.open /\ d.flight = r.flight /\ d.buf = r.buf
  BY <1>4 DEF Stored
<1>13. Closed(q, r)
  BY <1>5, <1>11, <1>12, ClosedSame
<1>14. q.trans = NoTrans /\ q.held = FALSE
  BY <1>6, <1>7, <1>9 DEF Link
<1>15. /\ r.open # "no" => q.flight = <<>> /\ q.buf = <<>>
       /\ r.open = "no" => q.flight = r.flight /\ q.buf = r.buf
  BY <1>5, <1>11, <1>12
<1>. QED BY <1>5, <1>6, <1>7, <1>9, <1>10, <1>11, <1>13, <1>14, <1>15 DEF Halted, Keeps

LEMMA InternalPauseEffect ==
  ASSUME NEW r \in Download, NEW q \in InternalPauseL(r)
  PROVE  /\ q \in Download /\ q.trans = NoTrans /\ q.open = "no" /\ Closed(q, r)
         /\ q.mode = r.mode /\ q.state = r.state /\ q.prog = r.prog /\ q.active = r.active
         /\ q.held = r.held /\ q.info = r.info /\ Named(q) = Named(r) /\ Rest(q) = Rest(r)
         /\ r.open # "no" => q.flight = <<>> /\ q.buf = <<>>
         /\ r.open = "no" => q.flight = r.flight /\ q.buf = r.buf
<1>1. PICK p \in CloseDestinationFile(r) : q = CancelTransaction(p)
  BY DEF InternalPauseL
<1>2. /\ p \in Download /\ Fixed(p) = Fixed(r) /\ p.open = "no" /\ Closed(p, r)
      /\ r.open # "no" => p.flight = <<>> /\ p.buf = <<>>
      /\ r.open = "no" => p = r
  BY CloseEffect
<1>3. /\ p.mode = r.mode /\ p.state = r.state /\ p.prog = r.prog /\ p.active = r.active
      /\ p.held = r.held /\ p.info = r.info /\ Named(p) = Named(r) /\ Rest(p) = Rest(r)
  BY <1>2, FixedFields DEF Named, Rest
<1>4. /\ q \in Download /\ q.trans = NoTrans
      /\ q.mode = p.mode /\ q.state = p.state /\ q.prog = p.prog /\ q.active = p.active
      /\ q.held = p.held /\ q.info = p.info
      /\ Stored(q) = Stored(p) /\ Named(q) = Named(p) /\ Rest(q) = Rest(p)
  BY <1>1, <1>2, CancelEffect
<1>5. q.file = p.file /\ q.size = p.size /\ q.open = p.open /\ q.flight = p.flight /\ q.buf = p.buf
  BY <1>4 DEF Stored
<1>6. Closed(q, r)
  BY <1>2, <1>5 DEF Closed
<1>. QED BY <1>2, <1>3, <1>4, <1>5, <1>6

(* PauseL stops a download in progress. *)
LEMMA PauseEffect ==
  ASSUME NEW r \in Download, NEW q \in PauseL(r), r.state = "progress", pausable \in BOOLEAN
  PROVE  Halted(q, r)
<1>1. PICK i \in InternalPauseL(r) :
        LET p == IF "DisconnectOnPause" \in off THEN i ELSE Disconnect(i) IN
        q \in CASE p.state # "progress" -> {StoreDownloadInfoL(p)}
                [] p.state = "progress" /\ pausable -> {SetDownloadStatus(p, "none", "paused")}
                [] OTHER -> OnError(p, "other")
  BY DEF PauseL
<1> DEFINE p == IF "DisconnectOnPause" \in off THEN i ELSE Disconnect(i)
<1>2. /\ i \in Download /\ i.trans = NoTrans /\ i.open = "no" /\ Closed(i, r)
      /\ i.mode = r.mode /\ i.state = r.state /\ i.prog = r.prog /\ i.active = r.active
      /\ Named(i) = Named(r) /\ Rest(i) = Rest(r)
      /\ r.open # "no" => i.flight = <<>> /\ i.buf = <<>>
      /\ r.open = "no" => i.flight = r.flight /\ i.buf = r.buf
  BY InternalPauseEffect
<1>3. /\ p \in Download /\ p.trans = i.trans /\ Keeps(p.held, "paused")
      /\ p.mode = i.mode /\ p.state = i.state
      /\ Stored(p) = Stored(i) /\ Named(p) = Named(i) /\ Rest(p) = Rest(i)
  BY <1>2, DisconnectEffect DEF Keeps
<1>4. p.file = i.file /\ p.size = i.size /\ p.open = i.open /\ p.flight = i.flight /\ p.buf = i.buf
  BY <1>3 DEF Stored
<1>5. \/ pausable /\ q = SetDownloadStatus(p, "none", "paused")
      \/ q \in OnError(p, "other")
  BY <1>1, <1>2, <1>3
<1> HIDE DEF p
<1>6. CASE q = SetDownloadStatus(p, "none", "paused")
  <2>1. "none" \in Progs /\ "paused" \in States
    BY DEF Progs, States
  <2>2. /\ q \in Download /\ q.state = "paused" /\ q.prog = "none" /\ q.active = FALSE
        /\ q.info = Info(q)
        /\ q.mode = p.mode
        /\ Stored(q) = Stored(p) /\ Link(q) = Link(p) /\ Named(q) = Named(p) /\ Rest(q) = Rest(p)
    BY <1>3, <1>6, <2>1, StatusEffect
  <2>3. q.file = i.file /\ q.size = i.size /\ q.open = "no" /\ q.flight = i.flight /\ q.buf = i.buf
    BY <1>2, <1>4, <2>2 DEF Stored
  <2>4. q.trans = NoTrans /\ Keeps(q.held, q.state)
    BY <1>2, <1>3, <2>2 DEF Link
  <2>6. Closed(q, r)
    BY <1>2, <2>3 DEF Closed
  <2>. QED BY <1>2, <1>3, <2>2, <2>3, <2>4, <2>6 DEF Halted
<1>7. CASE q \in OnError(p, "other")
  <2>1. Halted(q, p)
    BY <1>3, <1>7, OnErrorEffect
  <2>2. /\ q \in Download /\ q.mode = p.mode /\ q.active = FALSE
        /\ q.trans = NoTrans /\ Keeps(q.held, q.state) /\ q.open = "no"
        /\ q.info = Info(q) /\ Named(q) = Named(p) /\ Rest(q) = Rest(p) /\ Closed(q, p)
        /\ q.flight = p.flight /\ q.buf = p.buf
        /\ q.state \in {"paused", "failed"} /\ q.prog = "none"
    BY <1>2, <1>3, <1>4, <2>1 DEF Halted
  <2>3. q.file = p.file /\ q.size = p.size
    <3>1. Added(p) = {<<>>}
      BY <1>2, <1>4 DEF Added
    <3>2. p.file \in Seq(Block) /\ p.size \in Nat
      BY <1>3 DEF Download
    <3>. QED BY <2>2, <3>1, <3>2, ConcatEmptySeq DEF Closed
  <2>4. Closed(q, r)
    BY <1>2, <1>4, <2>3 DEF Closed
  <2>. QED BY <1>2, <1>3, <1>4, <2>2, <2>4 DEF Halted
<1>. QED BY <1>5, <1>6, <1>7

-----------------------------------------------------------------------------
(* The invariant                                                            *)

WriteFails == "writefail" \in Events     \* writing the file may fail
Absent == "absent" \in Events            \* the server may start without the card
Unvalidated == "unvalidated" \in Events  \* headers may not tell versions apart

(* The progress states are those of a download in progress, and a download
   whose file is moved is complete. *)
Pairs(r) ==
  /\ r.state = "progress" <=> r.prog \in Busy
  /\ r.prog \in {"moving", "moved"} => r.state = "completed"

(* What a download may do in which state.  A handler waits for the writer with the
   rest of a body, or when the download is complete, even if it has been started
   again since. *)
Still(r) == (r.active => r.moving) /\ Keeps(r.held, r.state)
Idle(r) == r.trans = NoTrans /\ r.open = "no" /\ Still(r)
Flow(r) ==
  /\ Pairs(r)
  /\ r.trans.st = "body" => r.trans.ver # 0 /\ r.trans.pos # 0
  /\ r.mode = "on" =>
       /\ r.trans.st = "body" => r.open # "no"
       /\ r.trans.st = "asked" /\ r.wait # "complete" => r.open = "no"
       /\ r.prog \in {"started", "connecting", "connected"} /\ r.wait # "complete" =>
            r.open = "no" /\ r.trans = NoTrans
       /\ r.wait = "none" /\ r.state # "progress" => Idle(r)
       /\ r.wait = "part" => r.state = "progress" /\ r.open # "no"
       /\ r.wait = "complete" =>
            r.state = "progress" \/ (r.state = "completed" /\ Still(r))
       /\ r.state = "progress" \/ r.wait # "none" => ~r.noMedia

(* The size kept is that of the file. *)
Fit(r) ==
  /\ IF r.named THEN r.size = Len(r.file) ELSE r.size = 0
  /\ r.open # "no" => r.named

(* What is in the file and on its way into it is a beginning of the version the
   headers are of. *)
Line(s, v) == \A i \in 1..Len(s) : s[i] = <<v, i>>
Whole(r) == (r.file \o r.flight) \o r.buf
Kept(r) ==
  /\ Prefix(r.file) /\ Len(r.file) <= Length
  /\ r.named => Line(r.file, r.hdr)
  /\ r.open = "good" => Line(Whole(r), r.hdr) /\ Len(Whole(r)) <= Length

Mem(r) ==
  /\ r.open = "no" => r.flight = <<>> /\ r.buf = <<>>
  /\ r.size <= Len(r.file)
  /\ ~Absent => Fit(r)
  /\ ~Absent /\ ~WriteFails /\ ~Unvalidated => Kept(r)

(* The transaction continues what there is, the buffers are not full, and the
   information file knows whose the content is. *)
Matching(r) ==
  /\ r.trans.st = "body" => r.trans.ver = r.hdr
  /\ r.trans.st = "body" /\ r.open = "good" => Len(Whole(r)) + 1 = r.trans.pos
  /\ r.trans.st = "asked" /\ r.wait # "complete" =>
       r.trans.pos \in {0, r.size} /\ r.trans.ver = r.hdr
Buffers(r) ==
  /\ Len(r.flight) <= BufferSize /\ Len(r.buf) <= BufferSize
  /\ r.wait = "none" => Len(r.buf) < BufferSize
  /\ ~r.enabled => r.buf = <<>> /\ r.flight = <<>>
Noted(r) == r.info.named = r.named /\ r.info.hdr = r.hdr
Sync(r) == ~Absent /\ ~WriteFails /\ ~Unvalidated => Matching(r) /\ Buffers(r) /\ Noted(r)

(* What a restart finds. *)
Disk(r) ==
  /\ Pairs(r.info)
  /\ r.info.size <= Len(r.file)
  /\ ~Absent /\ ~r.info.named => r.info.size = 0
  /\ ~Absent /\ ~WriteFails /\ ~Unvalidated =>
       /\ Prefix(r.file) /\ Len(r.file) <= Length
       /\ r.info.named => Line(r.file, r.info.hdr)

(* What is left of this when the process has died. *)
Bounded(r) ==
  ~Absent /\ ~WriteFails /\ ~Unvalidated =>
    r.size <= Length /\ Len(r.flight) <= BufferSize /\ Len(r.buf) <= BufferSize

Safe(r) ==
  /\ r \in Download /\ Flow(r) /\ Disk(r)
  /\ \/ Mem(r) /\ Sync(r)
     \/ r.mode # "on" /\ Bounded(r)

EnvTypes ==
  /\ card \in BOOLEAN /\ told \in BOOLEAN /\ pausable \in BOOLEAN /\ action \in Actions
  /\ off \in Settings
  /\ version \in 1..MaxVersion /\ starts \in 0..MaxStarts

Inv == Safe(dl) /\ EnvTypes

-----------------------------------------------------------------------------
(* Content in order                                                         *)

LEMMA EmptyLine ==
  ASSUME NEW v
  PROVE  Line(<<>>, v) /\ Prefix(<<>>) /\ Len(<<>>) = 0 /\ Len(<<>>) < BufferSize /\ Len(<<>>) <= Length
<1>1. Len(<<>>) = 0 /\ DOMAIN <<>> = {}
  OBVIOUS
<1>2. 1 \in 1..MaxVersion
  BY DownloadConstants
<1>3. Prefix(<<>>)
  BY <1>1, <1>2 DEF Prefix
<1>4. 0 < BufferSize /\ 0 <= Length
  BY DownloadConstants
<1>. QED BY <1>1, <1>3, <1>4 DEF Line

LEMMA LinePrefix ==
  ASSUME NEW s \in Seq(Block), NEW v, Line(s, v)
  PROVE  Prefix(s)
<1>1. CASE s = <<>>
  BY <1>1, EmptyLine
<1>2. CASE s # <<>>
  <2>1. 1 \in 1..Len(s) /\ DOMAIN s = 1..Len(s)
    BY <1>2
  <2>2. s[1] = <<v, 1>> /\ s[1] \in Block
    BY <2>1 DEF Line
  <2>3. v \in 1..MaxVersion
    BY <2>2 DEF Block
  <2>. QED BY <2>1, <2>3 DEF Line, Prefix
<1>. QED BY <1>1, <1>2

LEMMA LineFront ==
  ASSUME NEW s \in Seq(Block), NEW t \in Seq(Block), NEW v, Line(s \o t, v)
  PROVE  Line(s, v) /\ Len(s) <= Len(s \o t) /\ Len(s \o t) = Len(s) + Len(t)
<1>1. /\ Len(s \o t) = Len(s) + Len(t)
      /\ \A i \in 1..Len(s) + Len(t) : (s \o t)[i] = IF i <= Len(s) THEN s[i] ELSE t[i - Len(s)]
  BY ConcatProperties
<1>2. Len(s) \in Nat /\ Len(t) \in Nat
  OBVIOUS
<1>3. \A i \in 1..Len(s) : s[i] = <<v, i>>
  <2> SUFFICES ASSUME NEW i \in 1..Len(s) PROVE s[i] = <<v, i>>
    OBVIOUS
  <2>1. i \in 1..Len(s) + Len(t) /\ i <= Len(s)
    BY <1>2
  <2>2. (s \o t)[i] = s[i] /\ (s \o t)[i] = <<v, i>>
    BY <1>1, <2>1 DEF Line
  <2>. QED BY <2>2
<1>. QED BY <1>1, <1>2, <1>3 DEF Line

LEMMA Concats ==
  ASSUME NEW s \in Seq(Block), NEW t \in Seq(Block), NEW u \in Seq(Block)
  PROVE  /\ (s \o t) \o u = s \o (t \o u) /\ s \o t \in Seq(Block) /\ t \o u \in Seq(Block)
         /\ Len((s \o t) \o u) = Len(s) + Len(t) + Len(u)
         /\ Len(s \o t) = Len(s) + Len(t)
         /\ s \o <<>> = s /\ <<>> \o s = s
<1>1. (s \o t) \o u = s \o (t \o u)
  BY ConcatAssociative
<1>2. s \o t \in Seq(Block) /\ Len(s \o t) = Len(s) + Len(t) /\ t \o u \in Seq(Block)
  BY ConcatProperties
<1> DEFINE st == s \o t
<1>3. Len(st \o u) = Len(st) + Len(u)
  <2> HIDE DEF st
  <2>1. st \in Seq(Block)
    BY <1>2 DEF st
  <2>. QED BY <2>1, ConcatProperties
<1>4. s \o <<>> = s /\ <<>> \o s = s
  BY ConcatEmptySeq
<1>. QED BY <1>1, <1>2, <1>3, <1>4

(* The parts of the content that are together are together in order. *)
LEMMA WholeParts ==
  ASSUME NEW r \in Download, Line(Whole(r), r.hdr), Len(Whole(r)) <= Length
  PROVE  /\ Line(r.file, r.hdr) /\ Len(r.file) <= Length
         /\ Line(r.file \o r.flight, r.hdr) /\ Len(r.file \o r.flight) <= Length
         /\ Whole(r) = r.file \o (r.flight \o r.buf)
         /\ Len(Whole(r)) = Len(r.file) + Len(r.flight) + Len(r.buf)
<1> DEFINE f == r.file
           l == r.flight
           b == r.buf
<1>1. f \in Seq(Block) /\ l \in Seq(Block) /\ b \in Seq(Block)
  BY DEF Download
<1>2. Line((f \o l) \o b, r.hdr) /\ Len((f \o l) \o b) <= Length /\ Whole(r) = (f \o l) \o b
  BY DEF Whole
<1> HIDE DEF f, l, b
<1>3. /\ (f \o l) \o b = f \o (l \o b) /\ f \o l \in Seq(Block)
      /\ Len((f \o l) \o b) = Len(f) + Len(l) + Len(b)
      /\ Len(f \o l) = Len(f) + Len(l)
  BY <1>1, Concats
<1>4. Line(f \o l, r.hdr) /\ Len(f \o l) <= Len((f \o l) \o b)
  BY <1>1, <1>2, <1>3, LineFront
<1>5. Line(f, r.hdr) /\ Len(f) <= Len(f \o l)
  BY <1>1, <1>4, LineFront
<1>6. Len(f) \in Nat /\ Len(l) \in Nat /\ Len(b) \in Nat /\ Length \in Nat
  BY <1>1, DownloadConstants
<1>7. Len(f) <= Length /\ Len(f \o l) <= Length
  BY <1>2, <1>3, <1>6
<1>. QED BY <1>2, <1>3, <1>4, <1>5, <1>7 DEF f, l, b

(* Whatever closing adds, the file stays a beginning. *)
LEMMA AddedLine ==
  ASSUME NEW r \in Download, Kept(r), ~WriteFails, NEW s \in Added(r),
         r.open # "no" => r.named
  PROVE  /\ Prefix(r.file \o s) /\ Len(r.file \o s) <= Length
         /\ r.named => Line(r.file \o s, r.hdr)
<1>0. r.file \in Seq(Block) /\ r.flight \in Seq(Block) /\ r.buf \in Seq(Block) /\ s \in Seq(Block)
  BY AddedType DEF Download
<1>1. CASE s = <<>>
  <2>1. r.file \o s = r.file
    BY <1>0, <1>1, ConcatEmptySeq
  <2>. QED BY <2>1 DEF Kept
<1>2. CASE s # <<>>
  <2>1. r.open = "good" /\ s \in {r.flight, r.flight \o r.buf}
    BY <1>2 DEF Added, Fails, WriteFails
  <2>2. Line(Whole(r), r.hdr) /\ Len(Whole(r)) <= Length
    BY <2>1 DEF Kept
  <2>3. /\ Line(r.file \o r.flight, r.hdr) /\ Len(r.file \o r.flight) <= Length
        /\ Whole(r) = r.file \o (r.flight \o r.buf)
    BY <2>2, WholeParts
  <2>4. Line(r.file \o s, r.hdr) /\ Len(r.file \o s) <= Length
    BY <2>1, <2>2, <2>3
  <2>5. r.file \o s \in Seq(Block)
    BY <1>0, ConcatProperties
  <2>. QED BY <2>4, <2>5, LinePrefix
<1>. QED BY <1>1, <1>2

-----------------------------------------------------------------------------
(* What the parts of the handlers keep of the invariant                     *)

LEMMA SameMem ==
  ASSUME NEW r, NEW q, Mem(r), q.hdr = r.hdr, q.named = r.named,
         q.file = r.file, q.size = r.size, q.open = r.open, q.flight = r.flight, q.buf = r.buf
  PROVE  Mem(q)
BY DEF Mem, Fit, Kept, Whole

LEMMA SameStored ==
  ASSUME NEW r, NEW q, Stored(q) = Stored(r)
  PROVE  q.file = r.file /\ q.size = r.size /\ q.open = r.open /\ q.flight = r.flight
         /\ q.buf = r.buf /\ q.werr = r.werr
BY DEF Stored

LEMMA SameNamed ==
  ASSUME NEW r, NEW q, Named(q) = Named(r)
  PROVE  q.hdr = r.hdr /\ q.named = r.named /\ q.noMedia = r.noMedia
BY DEF Named

LEMMA SameLink ==
  ASSUME NEW r, NEW q, Link(q) = Link(r)
  PROVE  q.trans = r.trans /\ q.link = r.link /\ q.held = r.held
BY DEF Link

LEMMA SameRest ==
  ASSUME NEW r, NEW q, Rest(q) = Rest(r)
  PROVE  q.enabled = r.enabled /\ q.moving = r.moving /\ q.wait = r.wait
BY DEF Rest

LEMMA SameBounds ==
  ASSUME NEW r, NEW q, Bounded(r), q.size = r.size, q.flight = r.flight, q.buf = r.buf
  PROVE  Bounded(q)
BY DEF Bounded

LEMMA SafeBounds ==
  ASSUME NEW r, Safe(r)
  PROVE  Bounded(r)
<1> SUFFICES ASSUME ~Absent, ~WriteFails, ~Unvalidated, Mem(r), Sync(r)
             PROVE  r.size <= Length /\ Len(r.flight) <= BufferSize /\ Len(r.buf) <= BufferSize
  BY DEF Bounded, Safe
<1>1. r.size \in Nat /\ Len(r.file) \in Nat /\ Length \in Nat
  BY DownloadConstants DEF Safe, Download
<1>2. r.size <= Len(r.file) /\ Len(r.file) <= Length
  BY DEF Mem, Kept
<1>3. Buffers(r)
  BY DEF Sync
<1>. QED BY <1>1, <1>2, <1>3 DEF Buffers

(* Once it is stored, the information file is as good as the memory. *)
LEMMA InfoFields ==
  ASSUME NEW r, r.info = Info(r)
  PROVE  /\ r.info.state = r.state /\ r.info.prog = r.prog /\ r.info.size = r.size
         /\ r.info.hdr = r.hdr /\ r.info.named = r.named /\ r.info.noMedia = r.noMedia
BY DEF Info

LEMMA NotedDisk ==
  ASSUME NEW r \in Download, Mem(r), Pairs(r), r.info = Info(r)
  PROVE  Disk(r) /\ Noted(r)
<1>1. /\ r.info.state = r.state /\ r.info.prog = r.prog /\ r.info.size = r.size
      /\ r.info.hdr = r.hdr /\ r.info.named = r.named
  BY InfoFields
<1>2. Pairs(r.info)
  BY <1>1 DEF Pairs
<1>3. ASSUME ~Absent, ~r.info.named PROVE r.info.size = 0
  <2>1. Fit(r)
    BY <1>3 DEF Mem
  <2>. QED BY <1>1, <1>3, <2>1 DEF Fit
<1>5. r.info.size <= Len(r.file)
  BY <1>1 DEF Mem
<1>4. ASSUME ~Absent, ~WriteFails, ~Unvalidated
      PROVE  /\ Prefix(r.file) /\ Len(r.file) <= Length
             /\ r.info.named => Line(r.file, r.info.hdr)
  BY <1>1, <1>4 DEF Mem, Kept
<1>. QED BY <1>1, <1>2, <1>3, <1>4, <1>5 DEF Disk, Noted

(* A transaction that is closed and empty buffers are in step with anything. *)
LEMMA QuietSync ==
  ASSUME NEW r \in Download, r.trans = NoTrans, r.flight = <<>>, r.buf = <<>>, Noted(r)
  PROVE  Sync(r)
<1>1. Len(<<>>) = 0 /\ 0 < BufferSize /\ 0 <= BufferSize
  BY DownloadConstants
<1>2. Buffers(r)
  BY <1>1 DEF Buffers
<1>3. Matching(r)
  BY DEF Matching, NoTrans
<1>. QED BY <1>2, <1>3 DEF Sync

(* What is stopped, however it was, is safe. *)
LEMMA ClosedMem ==
  ASSUME NEW r \in Download, NEW q \in Download, Mem(r), Closed(q, r), q.open = "no",
         q.hdr = r.hdr, q.named = r.named,
         r.open # "no" => q.flight = <<>> /\ q.buf = <<>>,
         r.open = "no" => q.flight = r.flight /\ q.buf = r.buf
  PROVE  Mem(q) /\ q.flight = <<>> /\ q.buf = <<>>
<1>1. PICK s \in Added(r) : q.file = r.file \o s /\ q.size = r.size + Len(s)
  BY DEF Closed
<1>2. s \in Seq(Block) /\ r.file \in Seq(Block)
  BY AddedType DEF Download
<1>3. q.flight = <<>> /\ q.buf = <<>>
  BY DEF Mem
<1>4. ASSUME ~Absent PROVE Fit(q)
  <2>1. Fit(r)
    BY <1>4 DEF Mem
  <2>2. Len(r.file \o s) = Len(r.file) + Len(s)
    BY <1>2, ConcatProperties
  <2>3. CASE r.open = "no"
    <3>1. s = <<>>
      BY <2>3 DEF Added
    <3>2. q.file = r.file /\ q.size = r.size
      BY <1>1, <1>2, <3>1, ConcatEmptySeq DEF Download
    <3>. QED BY <2>1, <3>2 DEF Fit
  <2>4. CASE r.open # "no"
    <3>1. r.named /\ r.size = Len(r.file)
      BY <2>1, <2>4 DEF Fit
    <3>2. q.size = Len(q.file)
      BY <1>1, <2>2, <3>1
    <3>. QED BY <3>1, <3>2 DEF Fit
  <2>. QED BY <2>3, <2>4
<1>5. ASSUME ~Absent, ~WriteFails, ~Unvalidated PROVE Kept(q)
  <2>1. Fit(r) /\ Kept(r)
    BY <1>5 DEF Mem
  <2>2. /\ Prefix(r.file \o s) /\ Len(r.file \o s) <= Length
        /\ r.named => Line(r.file \o s, r.hdr)
    BY <1>5, <2>1, AddedLine DEF Fit
  <2>. QED BY <1>1, <2>2 DEF Kept
<1>6. q.size <= Len(q.file)
  <2>1. r.size <= Len(r.file) /\ Len(r.file) \in Nat /\ Len(s) \in Nat /\ r.size \in Nat
    BY <1>2 DEF Mem, Download
  <2>2. Len(r.file \o s) = Len(r.file) + Len(s)
    BY <1>2, ConcatProperties
  <2>. QED BY <1>1, <2>1, <2>2
<1>. QED BY <1>3, <1>4, <1>5, <1>6 DEF Mem

LEMMA HaltedSafe ==
  ASSUME NEW r \in Download, NEW q, Mem(r), r.wait = "none", r.state = "failed" => Pairs(r),
         Halted(q, r)
  PROVE  Safe(q)
<1>1. /\ q \in Download /\ q.mode = r.mode /\ q.active = FALSE
      /\ q.trans = NoTrans /\ Keeps(q.held, q.state) /\ q.open = "no"
      /\ q.info = Info(q) /\ Named(q) = Named(r) /\ Rest(q) = Rest(r) /\ Closed(q, r)
      /\ r.open # "no" => q.flight = <<>> /\ q.buf = <<>>
      /\ r.open = "no" => q.flight = r.flight /\ q.buf = r.buf
  BY DEF Halted
<1>2. q.hdr = r.hdr /\ q.named = r.named /\ q.wait = "none"
  BY <1>1, SameNamed, SameRest
<1>3. Mem(q) /\ q.flight = <<>> /\ q.buf = <<>>
  BY <1>1, <1>2, ClosedMem
<1>4. Pairs(q) /\ q.state # "progress"
  BY DEF Halted, Pairs, Busy
<1>5. Flow(q)
  BY <1>1, <1>2, <1>4 DEF Flow, Idle, Still, NoTrans, Pairs, Busy
<1>6. Disk(q) /\ Noted(q)
  BY <1>1, <1>3, <1>4, NotedDisk
<1>7. Sync(q)
  BY <1>1, <1>3, <1>6, QuietSync
<1>. QED BY <1>1, <1>3, <1>5, <1>6, <1>7 DEF Safe

(* OnError and PauseL leave a download safe. *)
LEMMA OnErrorSafe ==
  ASSUME NEW r \in Download, NEW error, NEW q \in OnError(r, error), pausable \in BOOLEAN,
         Mem(r), r.wait = "none", r.state = "failed" => Pairs(r)
  PROVE  Safe(q)
BY OnErrorEffect, HaltedSafe

LEMMA PauseSafe ==
  ASSUME NEW r \in Download, NEW q \in PauseL(r), pausable \in BOOLEAN,
         Mem(r), r.wait = "none", r.state = "progress"
  PROVE  Safe(q)
<1>1. Halted(q, r)
  BY PauseEffect
<1>. QED BY <1>1, HaltedSafe

(* After a new beginning there is nothing to be in step with. *)
LEMMA ReInitMem ==
  ASSUME NEW r \in Download, NEW q \in ReInitializeDownload(r), Mem(r)
  PROVE  Mem(q) /\ q.flight = <<>> /\ q.buf = <<>>
<1>1. /\ q \in Download /\ q.open = "no" /\ q.size = 0 /\ q.named = FALSE
      /\ r.open # "no" => q.flight = <<>> /\ q.buf = <<>>
      /\ r.open = "no" => q.flight = r.flight /\ q.buf = r.buf
      /\ \/ q.file = <<>>
         \/ \E s \in Added(r) : q.file = r.file \o s
  BY ReInitEffect
<1>2. q.flight = <<>> /\ q.buf = <<>>
  BY <1>1 DEF Mem
<1>3. Fit(q)
  BY <1>1 DEF Fit
<1>4. ASSUME ~Absent, ~WriteFails, ~Unvalidated PROVE Kept(q)
  <2>1. Fit(r) /\ Kept(r)
    BY <1>4 DEF Mem
  <2>2. CASE q.file = <<>>
    <3>1. Prefix(<<>>) /\ Len(<<>>) <= Length
      BY EmptyLine
    <3>. QED BY <1>1, <2>2, <3>1 DEF Kept
  <2>3. ASSUME NEW s \in Added(r), q.file = r.file \o s PROVE Kept(q)
    <3>1. Prefix(r.file \o s) /\ Len(r.file \o s) <= Length
      BY <1>4, <2>1, AddedLine DEF Fit
    <3>. QED BY <1>1, <2>3, <3>1 DEF Kept
  <2>. QED BY <1>1, <2>2, <2>3
<1>5. q.size <= Len(q.file)
  <2>1. Len(q.file) \in Nat
    BY <1>1 DEF Download
  <2>. QED BY <1>1, <2>1
<1>. QED BY <1>1, <1>2, <1>3, <1>4, <1>5 DEF Mem

LEMMA HeaderEffect ==
  ASSUME NEW r \in Download, NEW h \in 0..MaxVersion, NEW n, n = [r EXCEPT !.hdr = h]
  PROVE  /\ n \in Download /\ n.hdr = h
         /\ Stored(n) = Stored(r) /\ n.named = r.named /\ n.noMedia = r.noMedia
         /\ n.mode = r.mode /\ n.state = r.state /\ n.prog = r.prog /\ n.active = r.active
         /\ n.info = r.info /\ Link(n) = Link(r) /\ Rest(n) = Rest(r)
BY DEF Download, Stored, Link, Rest

(* The file that is created continues what there is of the same version. *)
LEMMA CreateMem ==
  ASSUME NEW r \in Download, NEW n \in Download, NEW q, r.open = "no", Mem(r),
         Stored(n) = Stored(r), n.named = r.named, q = CreateDestinationFileL(n),
         ~Absent /\ ~WriteFails /\ ~Unvalidated /\ r.size # 0 => r.hdr = n.hdr
  PROVE  /\ q \in Download /\ q.open = "good" /\ q.hdr = n.hdr /\ q.named
         /\ q.size = r.size /\ q.flight = <<>> /\ q.buf = <<>> /\ q.noMedia = n.noMedia
         /\ q.mode = n.mode /\ q.state = n.state /\ q.prog = n.prog /\ q.active = n.active
         /\ q.info = n.info /\ Link(q) = Link(n) /\ Rest(q) = Rest(n)
         /\ Mem(q)
         /\ ~Absent => q.size = Len(Whole(q))
<1>1. /\ n.file = r.file /\ n.size = r.size /\ n.open = r.open
      /\ n.flight = r.flight /\ n.buf = r.buf
  BY SameStored
<1>2. /\ q \in Download /\ q.open = "good" /\ q.named = TRUE
      /\ q.file = IF n.size = 0 THEN <<>> ELSE n.file
      /\ q.size = n.size /\ q.flight = n.flight /\ q.buf = n.buf /\ q.hdr = n.hdr
      /\ q.noMedia = n.noMedia
      /\ q.mode = n.mode /\ q.state = n.state /\ q.prog = n.prog /\ q.active = n.active
      /\ q.info = n.info /\ Link(q) = Link(n) /\ Rest(q) = Rest(n)
  BY <1>1, CreateEffect, ZenonT(60)
<1>3. q.flight = <<>> /\ q.buf = <<>>
  BY <1>1, <1>2 DEF Mem
<1>4. q.file \in Seq(Block)
  BY <1>2 DEF Download
<1>5. Whole(q) = q.file
  <2>1. q.file \o <<>> = q.file
    BY <1>4, ConcatEmptySeq
  <2>. QED BY <1>3, <2>1 DEF Whole
<1>6. ASSUME ~Absent PROVE Fit(q)
  <2>1. Fit(r)
    BY <1>6 DEF Mem
  <2>2. Len(<<>>) = 0
    OBVIOUS
  <2>. QED BY <1>1, <1>2, <2>1, <2>2 DEF Fit
<1>7. ASSUME ~Absent, ~WriteFails, ~Unvalidated PROVE Kept(q)
  <2>1. Fit(r) /\ Kept(r)
    BY <1>7 DEF Mem
  <2>2. CASE r.size = 0
    <3>1. Prefix(<<>>) /\ Len(<<>>) <= Length /\ Line(<<>>, q.hdr)
      BY EmptyLine
    <3>2. q.file = <<>>
      BY <1>1, <1>2, <2>2
    <3>. QED BY <1>5, <3>1, <3>2 DEF Kept
  <2>3. CASE r.size # 0
    <3>1. r.named /\ r.hdr = n.hdr
      BY <1>7, <2>1, <2>3 DEF Fit
    <3>2. q.file = r.file /\ q.hdr = r.hdr
      BY <1>1, <1>2, <2>3, <3>1
    <3>. QED BY <1>5, <2>1, <3>1, <3>2 DEF Kept
  <2>. QED BY <2>2, <2>3
<1>10. q.size <= Len(q.file)
  <2>1. Len(<<>>) = 0 /\ r.size <= Len(r.file)
    BY DEF Mem
  <2>. QED BY <1>1, <1>2, <2>1
<1>8. Mem(q)
  BY <1>2, <1>3, <1>6, <1>7, <1>10 DEF Mem
<1>9. ~Absent => q.size = Len(Whole(q))
  BY <1>2, <1>5, <1>6 DEF Fit
<1>. QED BY <1>1, <1>2, <1>3, <1>8, <1>9

(* A state that is set is noted; Matched is the pairing SetDownloadStatus is
   called with. *)
Matched(p, s) ==
  /\ s = "progress" <=> p \in Busy
  /\ p \in {"moving", "moved"} => s = "completed"

LEMMA StatusNoted ==
  ASSUME NEW r \in Download, NEW p \in Progs, NEW s \in States, NEW q, Mem(r), Matched(p, s),
         q = SetDownloadStatus(r, p, s)
  PROVE  Mem(q) /\ Pairs(q) /\ Disk(q) /\ Noted(q)
<1>1. /\ q \in Download /\ q.state = s /\ q.prog = p /\ q.info = Info(q)
      /\ Stored(q) = Stored(r) /\ Named(q) = Named(r)
  BY StatusEffect
<1>2. Mem(q)
  <2>1. q.hdr = r.hdr /\ q.named = r.named
    BY <1>1, SameNamed
  <2>2. q.file = r.file /\ q.size = r.size /\ q.open = r.open /\ q.flight = r.flight /\ q.buf = r.buf
    BY <1>1, SameStored
  <2>. QED BY <2>1, <2>2, SameMem
<1>3. Pairs(q)
  BY <1>1 DEF Pairs, Matched
<1>. QED BY <1>1, <1>2, <1>3, NotedDisk

(* The fields a state that is set leaves alone. *)
LEMMA StatusFields ==
  ASSUME NEW r \in Download, NEW p \in Progs, NEW s \in States, NEW q,
         q = SetDownloadStatus(r, p, s)
  PROVE  /\ q \in Download /\ q.state = s /\ q.prog = p
         /\ q.trans = r.trans /\ q.held = r.held /\ q.wait = r.wait /\ q.open = r.open
         /\ q.moving = r.moving /\ q.noMedia = r.noMedia /\ q.hdr = r.hdr /\ q.enabled = r.enabled
         /\ q.flight = r.flight /\ q.buf = r.buf /\ q.size = r.size /\ q.file = r.file
         /\ q.named = r.named
<1>1. /\ q \in Download /\ q.state = s /\ q.prog = p
      /\ Stored(q) = Stored(r) /\ Link(q) = Link(r) /\ Named(q) = Named(r) /\ Rest(q) = Rest(r)
  BY StatusEffect
<1>. QED BY <1>1, SameStored, SameLink, SameNamed, SameRest

LEMMA SameSync ==
  ASSUME NEW r, NEW q, Sync(r), Noted(q),
         q.trans = r.trans, q.wait = r.wait, q.hdr = r.hdr, q.enabled = r.enabled,
         q.file = r.file, q.size = r.size, q.open = r.open, q.flight = r.flight, q.buf = r.buf
  PROVE  Sync(q)
BY DEF Sync, Matching, Buffers, Whole

LEMMA NotBusy ==
  /\ {"none", "moving", "moved"} \cap Busy = {} /\ {"started", "connecting", "connected"} \subseteq Busy
  /\ {"submitted", "header", "suspended"} \subseteq Busy
  /\ Busy \subseteq Progs /\ {"none", "moving", "moved"} \subseteq Progs
  /\ {"created", "progress", "paused", "completed", "failed"} \subseteq States
BY DEF Busy, Progs, States

(* A state that is not in progress may be set when all is quiet. *)
LEMMA QuietStatusSafe ==
  ASSUME NEW r \in Download, NEW p \in Progs, NEW s \in States, NEW q, Mem(r), Matched(p, s),
         q = SetDownloadStatus(r, p, s), s # "progress", r.wait = "none",
         r.trans = NoTrans, r.open = "no", r.active => r.moving, Keeps(r.held, s)
  PROVE  Safe(q)
<1>1. Mem(q) /\ Pairs(q) /\ Disk(q) /\ Noted(q)
  BY StatusNoted
<1>2. /\ q \in Download /\ q.state = s
      /\ q.trans = r.trans /\ q.held = r.held /\ q.wait = r.wait /\ q.open = r.open
      /\ q.moving = r.moving
  BY StatusFields
<1>3. q.active => r.active
  <2>1. /\ s = "paused" => ~q.active
        /\ s \notin {"progress", "paused"} => q.active = r.active
    BY StatusEffect
  <2>. QED BY <2>1
<1>4. Idle(q)
  BY <1>2, <1>3 DEF Idle, Still
<1>5. q.prog \notin Busy
  BY <1>1, <1>2 DEF Pairs
<1>6. Flow(q)
  BY <1>1, <1>2, <1>4, <1>5 DEF Flow, Idle, Still, NoTrans, Busy
<1>7. q.flight = <<>> /\ q.buf = <<>>
  BY <1>1, <1>4 DEF Mem, Idle
<1>8. Sync(q)
  BY <1>1, <1>2, <1>4, <1>7, QuietSync DEF Idle
<1>. QED BY <1>1, <1>2, <1>6, <1>8 DEF Safe

(* Information that is stored about a quiet download. *)
LEMMA QuietStoreSafe ==
  ASSUME NEW r \in Download, NEW q, q = StoreDownloadInfoL(r), Mem(r), Pairs(r),
         r.wait = "none", r.state # "progress", Idle(r)
  PROVE  Safe(q)
<1>1. /\ q \in Download
      /\ q.info = Info(r) /\ q.mode = r.mode /\ q.state = r.state /\ q.prog = r.prog
      /\ q.active = r.active
      /\ Stored(q) = Stored(r) /\ Link(q) = Link(r) /\ Named(q) = Named(r) /\ Rest(q) = Rest(r)
  BY StoreEffect
<1>2. /\ q.file = r.file /\ q.size = r.size /\ q.open = r.open /\ q.flight = r.flight
      /\ q.buf = r.buf /\ q.hdr = r.hdr /\ q.named = r.named /\ q.noMedia = r.noMedia
      /\ q.trans = r.trans /\ q.held = r.held /\ q.wait = r.wait /\ q.moving = r.moving
  BY <1>1, SameStored, SameLink, SameNamed, SameRest
<1>3. Mem(q)
  BY <1>2, SameMem
<1>4. Pairs(q) /\ Idle(q)
  BY <1>1, <1>2 DEF Pairs, Idle, Still
<1>5. q.info = Info(q)
  BY <1>1, <1>2 DEF Info
<1>6. Disk(q) /\ Noted(q)
  BY <1>1, <1>3, <1>4, <1>5, NotedDisk
<1>7. Flow(q)
  BY <1>1, <1>2, <1>4 DEF Flow, Idle, Still, NoTrans, Pairs, Busy
<1>8. q.flight = <<>> /\ q.buf = <<>>
  BY <1>3, <1>4 DEF Mem, Idle
<1>9. Sync(q)
  BY <1>1, <1>4, <1>6, <1>8, QuietSync DEF Idle
<1>. QED BY <1>1, <1>3, <1>6, <1>7, <1>9 DEF Safe

(* A step into or within the states in which a transaction is prepared. *)
LEMMA ConnectingSafe ==
  ASSUME NEW r \in Download, NEW p \in {"started", "connecting", "connected"}, NEW q, Mem(r),
         q = SetDownloadStatus(r, p, "progress"), r.wait = "none", r.open = "no",
         r.trans = NoTrans, ~r.noMedia
  PROVE  Safe(q)
<1>0. p \in Progs /\ p \in Busy /\ "progress" \in States /\ Matched(p, "progress")
  BY NotBusy DEF Matched
<1>1. Mem(q) /\ Pairs(q) /\ Disk(q) /\ Noted(q)
  BY <1>0, StatusNoted
<1>2. /\ q \in Download /\ q.state = "progress" /\ q.prog = p
      /\ q.trans = r.trans /\ q.wait = r.wait /\ q.open = r.open /\ q.noMedia = r.noMedia
  BY <1>0, StatusFields
<1>6. Flow(q)
  BY <1>1, <1>2 DEF Flow, NoTrans
<1>7. q.flight = <<>> /\ q.buf = <<>>
  BY <1>1, <1>2 DEF Mem
<1>8. Sync(q)
  BY <1>1, <1>2, <1>7, QuietSync
<1>. QED BY <1>1, <1>2, <1>6, <1>8 DEF Safe

(* A state that is set while a handler waits. *)
LEMMA WaitingStatusSafe ==
  ASSUME NEW r \in Download, NEW p \in Progs, NEW s \in {"progress", "completed"}, NEW q,
         Mem(r), Sync(r), Matched(p, s), q = SetDownloadStatus(r, p, s), ~r.noMedia,
         r.trans.st = "body" => r.trans.ver # 0 /\ r.trans.pos # 0 /\ r.open # "no",
         \/ r.wait = "part" /\ p = "suspended" /\ r.open # "no" /\ r.trans.st # "asked"
         \/ r.wait = "complete" /\ (s = "completed" => (r.active => r.moving) /\ ~r.held)
  PROVE  Safe(q)
<1>0. s \in States /\ (p = "suspended" => s = "progress")
  BY NotBusy DEF Matched
<1>1. Mem(q) /\ Pairs(q) /\ Disk(q) /\ Noted(q)
  BY <1>0, StatusNoted
<1>2. /\ q \in Download /\ q.state = s /\ q.prog = p
      /\ q.trans = r.trans /\ q.held = r.held /\ q.wait = r.wait /\ q.open = r.open
      /\ q.moving = r.moving /\ q.noMedia = r.noMedia /\ q.hdr = r.hdr /\ q.enabled = r.enabled
      /\ q.flight = r.flight /\ q.buf = r.buf /\ q.size = r.size /\ q.file = r.file
  BY <1>0, StatusFields
<1>3. q.wait = "complete" /\ s = "completed" => Still(q)
  <2>1. s = "completed" => q.active = r.active
    BY <1>0, StatusEffect
  <2>. QED BY <1>2, <2>1 DEF Still, Keeps
<1>4. Flow(q)
  BY <1>0, <1>1, <1>2, <1>3 DEF Flow
<1>5. Sync(q)
  BY <1>1, <1>2, SameSync
<1>. QED BY <1>1, <1>2, <1>4, <1>5 DEF Safe

LEMMA StartSafe ==
  ASSUME NEW r \in Download, NEW q, q = Start(r), Mem(r), r.wait = "none", r.open = "no",
         r.trans = NoTrans, ~r.noMedia
  PROVE  Safe(q)
<1> DEFINE h == [r EXCEPT !.held = TRUE]
<1>1. /\ h \in Download /\ h.wait = "none" /\ h.open = "no" /\ h.trans = NoTrans /\ ~h.noMedia
      /\ h.hdr = r.hdr /\ h.named = r.named /\ h.file = r.file /\ h.size = r.size
      /\ h.flight = r.flight /\ h.buf = r.buf
  BY DEF Download
<1>2. q = SetDownloadStatus(h, "started", "progress")
  BY DEF Start
<1> HIDE DEF h
<1>3. Mem(h)
  BY <1>1, SameMem
<1>. QED BY <1>1, <1>2, <1>3, ConnectingSafe

-----------------------------------------------------------------------------
(* The requests                                                             *)

(* What is known when a handler begins. *)
LEMMA Begins ==
  ASSUME Inv, Free
  PROVE  /\ dl \in Download /\ dl.mode = "on" /\ dl.wait = "none"
         /\ Flow(dl) /\ Pairs(dl) /\ Disk(dl) /\ Mem(dl) /\ Sync(dl)
         /\ dl.state # "progress" => Idle(dl)
         /\ dl.trans # NoTrans => dl.state = "progress"
         /\ dl.open = "no" => dl.flight = <<>> /\ dl.buf = <<>>
         /\ pausable \in BOOLEAN
<1>1. dl \in Download /\ Flow(dl) /\ Disk(dl) /\ Mem(dl) /\ Sync(dl) /\ dl.mode = "on" /\ dl.wait = "none"
  BY DEF Inv, Safe, Free, On
<1>2. dl.state # "progress" => Idle(dl)
  BY <1>1 DEF Flow
<1>. QED BY <1>1, <1>2 DEF Flow, Idle, Mem, Inv, EnvTypes

(* What is known of a download that is served while a handler waits. *)
Waiting == Served /\ dl.wait # "none"
LEMMA Waits ==
  ASSUME Inv, Waiting
  PROVE  /\ dl \in Download /\ dl.mode = "on" /\ dl.wait \in {"part", "complete"}
         /\ Safe(dl) /\ Flow(dl) /\ Pairs(dl) /\ Disk(dl) /\ Mem(dl) /\ Sync(dl)
         /\ ~dl.noMedia /\ dl.open # "no" /\ dl.state \in {"progress", "completed"}
         /\ dl.trans.st = "body" => dl.trans.ver # 0 /\ dl.trans.pos # 0
         /\ dl.state = "completed" => dl.wait = "complete" /\ ~dl.held /\ (dl.active => dl.moving)
         /\ dl.wait = "part" => dl.trans.st # "asked"
         /\ dl.prog \in {"started", "connecting", "connected"} =>
              dl.wait = "complete" /\ dl.state = "progress"
<1>1. /\ dl \in Download /\ Flow(dl) /\ Disk(dl) /\ Mem(dl) /\ Sync(dl) /\ dl.mode = "on"
      /\ dl.flight # <<>> /\ dl.wait # "none"
  BY DEF Inv, Safe, Waiting, Served, On
<1>2. dl.wait \in {"part", "complete"} /\ dl.open # "no"
  BY <1>1 DEF Download, Mem
<1>. QED BY <1>1, <1>2, NotBusy DEF Inv, Flow, Pairs, Still, Keeps

(* Another download starts anew. *)
LEMMA ReStartSafe ==
  ASSUME Inv, Free, dl.state # "progress", NEW q \in ReInitializeDownload(dl)
  PROVE  Safe(Start(q))
<1>1. dl \in Download /\ Mem(dl) /\ Idle(dl) /\ dl.wait = "none"
  BY Begins
<1>2. Mem(q)
  BY <1>1, ReInitMem
<1>3. /\ q \in Download /\ q.open = "no" /\ q.noMedia = FALSE
      /\ Link(q) = Link(dl) /\ Rest(q) = Rest(dl)
  BY <1>1, ReInitEffect
<1>4. q.trans = NoTrans /\ q.wait = "none"
  BY <1>1, <1>3, SameLink, SameRest DEF Idle
<1>. QED BY <1>2, <1>3, <1>4, StartSafe

(* A completed download is started again while its end is waited for. *)
LEMMA LateStartSafe ==
  ASSUME Inv, Waiting, dl.state = "completed"
  PROVE  Safe(Start(dl))
<1> DEFINE h == [dl EXCEPT !.held = TRUE]
<1>1. /\ dl \in Download /\ Mem(dl) /\ Sync(dl) /\ ~dl.noMedia /\ dl.wait = "complete"
      /\ dl.trans.st = "body" => dl.trans.ver # 0 /\ dl.trans.pos # 0 /\ dl.open # "no"
  BY Waits
<1>2. /\ h \in Download /\ h.wait = dl.wait /\ h.open = dl.open /\ h.trans = dl.trans
      /\ h.noMedia = dl.noMedia /\ h.hdr = dl.hdr /\ h.named = dl.named /\ h.file = dl.file
      /\ h.size = dl.size /\ h.flight = dl.flight /\ h.buf = dl.buf /\ h.enabled = dl.enabled
      /\ h.info = dl.info
  BY <1>1 DEF Download
<1>3. Start(dl) = SetDownloadStatus(h, "started", "progress")
  BY DEF Start
<1> HIDE DEF h
<1>4. Mem(h)
  BY <1>1, <1>2, SameMem
<1>5. Sync(h)
  BY <1>1, <1>2 DEF Sync, Matching, Buffers, Noted, Whole
<1>6. "started" \in Progs /\ Matched("started", "progress")
  BY NotBusy DEF Matched
<1>. QED BY <1>1, <1>2, <1>3, <1>4, <1>5, <1>6, WaitingStatusSafe

LEMMA StartLSafe ==
  ASSUME Inv, StartL
  PROVE  Safe(dl')
<1>0. Served /\ (Free \/ Waiting) /\ dl \in Download
  BY DEF StartL, Free, Served, Waiting, Inv, Safe
<1>1. Free => /\ dl \in Download /\ Mem(dl) /\ dl.wait = "none" /\ Flow(dl) /\ dl.mode = "on"
              /\ dl.state # "progress" => Idle(dl)
  BY <1>0, Begins
<1>2. CASE dl.noMedia /\ dl' = SetDownloadStatus(dl, "none", "failed")
  <2>1. Free
    BY <1>0, <1>2, Waits
  <2>2. dl.state # "progress"
    BY <1>1, <1>2, <2>1 DEF Flow
  <2>3. "none" \in Progs /\ "failed" \in States /\ Matched("none", "failed")
    BY NotBusy DEF Matched
  <2>4. Keeps(dl.held, "failed")
    BY <1>1, <2>1, <2>2 DEF Idle, Still, Keeps
  <2>. QED BY <1>1, <1>2, <2>1, <2>2, <2>3, <2>4, QuietStatusSafe DEF Idle, Still
<1>3. CASE dl' = dl
  BY <1>3 DEF Inv
<1>4. CASE ~dl.noMedia /\ dl.state # "progress" /\ dl' = Start(dl)
  <2>1. CASE Free
    BY <1>1, <1>4, <2>1, StartSafe DEF Idle
  <2>2. CASE Waiting
    BY <1>4, <2>2, Waits, LateStartSafe
  <2>. QED BY <1>0, <2>1, <2>2
<1>5. CASE dl.state # "progress" /\ \E q \in ReInitializeDownload(dl) : dl' = Start(q)
  <2>1. CASE Free
    BY <2>1, <1>5, ReStartSafe
  <2>2. CASE ~Free
    <3>1. dl.state = "completed" /\ ~dl.noMedia /\ Waiting
      BY <1>0, <1>5, <2>2, Waits
    <3>2. dl' \in {dl, Start(dl)}
      BY <2>2, <3>1 DEF StartL
    <3>. QED BY <1>3, <3>1, <3>2, LateStartSafe
  <2>. QED BY <2>1, <2>2
<1>6. \/ dl.noMedia /\ dl' = SetDownloadStatus(dl, "none", "failed")
      \/ dl' = dl
      \/ ~dl.noMedia /\ dl.state # "progress" /\ dl' = Start(dl)
      \/ dl.state # "progress" /\ \E q \in ReInitializeDownload(dl) : dl' = Start(q)
  <2>1. CASE dl.noMedia
    BY <2>1 DEF StartL
  <2>2. CASE ~dl.noMedia /\ dl.state = "progress"
    BY <2>2 DEF StartL
  <2>3. CASE ~dl.noMedia /\ dl.state = "completed"
    BY <2>3 DEF StartL
  <2>4. CASE ~dl.noMedia /\ dl.state = "paused"
    BY <2>4 DEF StartL
  <2>5. CASE ~dl.noMedia /\ dl.state \notin {"progress", "completed", "paused"}
    BY <2>5 DEF StartL
  <2>. QED BY <2>1, <2>2, <2>3, <2>4, <2>5, <1>0 DEF Download
<1>. QED BY <1>2, <1>3, <1>4, <1>5, <1>6

(* A pause asked for at any time when no handler waits. *)
LEMMA PauseAnySafe ==
  ASSUME NEW r \in Download, Safe(r), r.mode = "on", r.wait = "none", pausable \in BOOLEAN,
         NEW q \in PauseL(r)
  PROVE  Safe(q)
<1>1. Mem(r) /\ Flow(r) /\ Sync(r) /\ Pairs(r) /\ (r.state # "progress" => Idle(r))
  BY DEF Safe, Flow
<1>2. CASE r.state = "progress"
  BY <1>1, <1>2, PauseSafe
<1>3. CASE r.state \in {"paused", "completed", "failed"}
  BY <1>3 DEF PauseL
<1>4. CASE r.state = "created"
  <2>1. Idle(r)
    BY <1>1, <1>4
  <2>2. PICK i \in InternalPauseL(r) :
          LET p == IF "DisconnectOnPause" \in off THEN i ELSE Disconnect(i) IN
          q \in CASE p.state # "progress" -> {StoreDownloadInfoL(p)}
                  [] p.state = "progress" /\ pausable -> {SetDownloadStatus(p, "none", "paused")}
                  [] OTHER -> OnError(p, "other")
    BY <1>4 DEF PauseL
  <2> DEFINE p == IF "DisconnectOnPause" \in off THEN i ELSE Disconnect(i)
  <2>3. /\ i \in Download /\ i.trans = NoTrans /\ i.open = "no" /\ Closed(i, r)
        /\ i.mode = r.mode /\ i.state = r.state /\ i.prog = r.prog /\ i.active = r.active
        /\ i.held = r.held /\ Named(i) = Named(r) /\ Rest(i) = Rest(r)
        /\ r.open # "no" => i.flight = <<>> /\ i.buf = <<>>
        /\ r.open = "no" => i.flight = r.flight /\ i.buf = r.buf
    BY InternalPauseEffect
  <2>4. /\ p \in Download /\ p.trans = i.trans /\ (p.held = i.held \/ p.held = FALSE)
        /\ p.mode = i.mode /\ p.state = i.state /\ p.prog = i.prog /\ p.active = i.active
        /\ Stored(p) = Stored(i) /\ Named(p) = Named(i) /\ Rest(p) = Rest(i)
    BY <2>3, DisconnectEffect
  <2>5. q = StoreDownloadInfoL(p)
    BY <1>4, <2>2, <2>3, <2>4
  <2> HIDE DEF p
  <2>6. i.hdr = r.hdr /\ i.named = r.named /\ i.wait = r.wait /\ i.moving = r.moving
    BY <2>3, SameNamed, SameRest
  <2>7. Mem(i)
    BY <1>1, <2>3, <2>6, ClosedMem
  <2>8. p.hdr = i.hdr /\ p.named = i.named /\ p.wait = i.wait /\ p.moving = i.moving /\ p.open = i.open
    BY <2>4, SameNamed, SameRest, SameStored
  <2>9. Mem(p)
    BY <2>4, <2>7, <2>8, SameStored, SameMem
  <2>10. Idle(p) /\ Pairs(p)
    BY <1>1, <2>1, <2>3, <2>4, <2>6, <2>8 DEF Idle, Still, Keeps, Pairs
  <2>. QED BY <1>4, <2>3, <2>4, <2>5, <2>6, <2>8, <2>9, <2>10, QuietStoreSafe
<1>. QED BY <1>2, <1>3, <1>4 DEF Download, States

LEMMA PauseActionSafe ==
  ASSUME Inv, Pause
  PROVE  Safe(dl')
<1>1. dl \in Download /\ Safe(dl) /\ dl.mode = "on" /\ dl.wait = "none" /\ pausable \in BOOLEAN
  BY Begins DEF Pause, Inv
<1>. QED BY <1>1, PauseAnySafe DEF Pause

LEMMA ResetSafe ==
  ASSUME Inv, Reset
  PROVE  Safe(dl')
<1> DEFINE a == [dl EXCEPT !.active = FALSE]
           c == CancelTransaction(a)
           d == IF "DisconnectOnReset" \in off THEN c ELSE Disconnect(c)
<1>1. dl \in Download /\ Mem(dl) /\ dl.wait = "none"
  BY Begins DEF Reset
<1>2. PICK q \in ReInitializeDownload(d) : dl' = SetDownloadStatus(q, "none", "created")
  BY DEF Reset
<1>3. /\ a \in Download /\ ~a.active /\ a.wait = "none"
      /\ a.hdr = dl.hdr /\ a.named = dl.named /\ Stored(a) = Stored(dl)
  BY <1>1 DEF Download, Stored
<1> HIDE DEF a
<1>4. /\ c \in Download /\ c.trans = NoTrans /\ c.active = a.active
      /\ Stored(c) = Stored(a) /\ Named(c) = Named(a) /\ Rest(c) = Rest(a)
  BY <1>3, CancelEffect
<1> HIDE DEF c
<1>5. /\ d \in Download /\ d.trans = c.trans /\ Keeps(d.held, "created") /\ d.active = c.active
      /\ Stored(d) = Stored(c) /\ Named(d) = Named(c) /\ Rest(d) = Rest(c)
  BY <1>4, DisconnectEffect DEF Keeps
<1> HIDE DEF d
<1>6. Mem(d)
  <2>1. /\ d.file = dl.file /\ d.size = dl.size /\ d.open = dl.open /\ d.flight = dl.flight
        /\ d.buf = dl.buf
    BY <1>3, <1>4, <1>5, SameStored
  <2>2. d.hdr = dl.hdr /\ d.named = dl.named
    BY <1>3, <1>4, <1>5, SameNamed
  <2>. QED BY <1>1, <2>1, <2>2, SameMem
<1>7. d.wait = "none"
  BY <1>3, <1>4, <1>5, SameRest
<1>8. /\ q \in Download /\ q.open = "no" /\ q.active = d.active /\ Link(q) = Link(d) /\ Rest(q) = Rest(d)
  BY <1>5, ReInitEffect
<1>9. q.trans = NoTrans /\ ~q.active /\ Keeps(q.held, "created") /\ q.wait = "none"
  BY <1>3, <1>4, <1>5, <1>7, <1>8, SameLink, SameRest
<1>10. Mem(q)
  BY <1>5, <1>6, ReInitMem
<1>11. "none" \in Progs /\ "created" \in States /\ Matched("none", "created")
  BY NotBusy DEF Matched
<1>. QED BY <1>2, <1>8, <1>9, <1>10, <1>11, QuietStatusSafe

LEMMA MoveLSafe ==
  ASSUME Inv, MoveL
  PROVE  Safe(dl')
<1> DEFINE m == [dl EXCEPT !.moving = TRUE]
           a == [m EXCEPT !.active = TRUE]
<1>0. dl.wait = "none" \/ Waiting
  BY DEF MoveL, Waiting
<1>1. /\ dl \in Download /\ Mem(dl) /\ Flow(dl) /\ Sync(dl) /\ Disk(dl) /\ dl.mode = "on"
  BY DEF MoveL, Served, On, Inv, Safe
<1>2. /\ m \in Download /\ m.moving = TRUE /\ Stored(m) = Stored(dl) /\ Link(m) = Link(dl)
      /\ Named(m) = Named(dl) /\ m.wait = dl.wait /\ m.enabled = dl.enabled /\ m.info = dl.info
      /\ m.state = dl.state /\ m.prog = dl.prog /\ m.mode = dl.mode /\ m.active = dl.active
  BY <1>1 DEF Download, Stored, Link, Named
<1>3. \/ dl.state = "completed" /\ dl' = SetDownloadStatus(a, "moving", "completed")
      \/ dl' = m
  BY <1>2 DEF MoveL
<1>4. /\ m.hdr = dl.hdr /\ m.named = dl.named /\ m.noMedia = dl.noMedia
      /\ m.trans = dl.trans /\ m.held = dl.held /\ m.file = dl.file /\ m.size = dl.size
      /\ m.open = dl.open /\ m.flight = dl.flight /\ m.buf = dl.buf
  BY <1>2, SameNamed, SameLink, SameStored
<1> HIDE DEF m
<1>5. Mem(m)
  BY <1>1, <1>4, SameMem
<1>6. CASE dl' = m
  <2>1. Flow(m)
    BY <1>1, <1>2, <1>4 DEF Flow, Pairs, Idle, Still
  <2>2. Disk(m)
    BY <1>1, <1>2, <1>4 DEF Disk
  <2>3. Sync(m)
    BY <1>1, <1>2, <1>4 DEF Sync, Matching, Buffers, Noted, Whole
  <2>. QED BY <1>2, <1>5, <1>6, <2>1, <2>2, <2>3 DEF Safe
<1>7. CASE dl.state = "completed" /\ dl' = SetDownloadStatus(a, "moving", "completed")
  <2>1. /\ a \in Download /\ a.moving = TRUE /\ a.trans = m.trans /\ a.open = m.open
        /\ a.held = m.held /\ a.wait = m.wait /\ a.noMedia = m.noMedia /\ a.enabled = m.enabled
        /\ a.hdr = m.hdr /\ a.named = m.named /\ a.file = m.file /\ a.size = m.size
        /\ a.flight = m.flight /\ a.buf = m.buf /\ a.info = m.info
    BY <1>2 DEF Download
  <2> HIDE DEF a
  <2>2. Mem(a)
    BY <1>5, <2>1, SameMem
  <2>3. "moving" \in Progs /\ "completed" \in States /\ Matched("moving", "completed")
    BY NotBusy DEF Matched
  <2>4. CASE dl.wait = "none"
    <3>1. Idle(dl)
      BY <1>1, <1>7, <2>4 DEF Flow
    <3>2. a.trans = NoTrans /\ a.open = "no" /\ a.wait = "none" /\ Keeps(a.held, "completed")
      BY <1>2, <1>4, <1>7, <2>1, <2>4, <3>1 DEF Idle, Still
    <3>. QED BY <1>7, <2>1, <2>2, <2>3, <3>2, QuietStatusSafe
  <2>5. CASE Waiting
    <3>1. /\ a.wait = "complete" /\ ~a.held /\ ~a.noMedia
          /\ a.trans.st = "body" => a.trans.ver # 0 /\ a.trans.pos # 0 /\ a.open # "no"
      BY <1>2, <1>4, <1>7, <2>1, <2>5, Waits
    <3>2. /\ a.trans = dl.trans /\ a.open = dl.open /\ a.wait = dl.wait /\ a.enabled = dl.enabled
          /\ a.hdr = dl.hdr /\ a.named = dl.named /\ a.file = dl.file /\ a.size = dl.size
          /\ a.flight = dl.flight /\ a.buf = dl.buf /\ a.info = dl.info
      BY <1>2, <1>4, <2>1
    <3>3. Whole(a) = Whole(dl)
      BY <3>2 DEF Whole
    <3>4. Sync(a)
      BY <1>1, <3>2, <3>3 DEF Sync, Matching, Buffers, Noted
    <3>. QED BY <1>7, <2>1, <2>2, <2>3, <3>1, <3>4, WaitingStatusSafe
  <2>. QED BY <1>0, <2>4, <2>5
<1>. QED BY <1>3, <1>6, <1>7

(* A download that has panicked only keeps what is on the card. *)
LEMMA PanicSafe ==
  ASSUME NEW r \in Download, Safe(r), NEW m \in Modes \ {"on"}, NEW q, q = [r EXCEPT !.mode = m]
  PROVE  Safe(q)
<1>1. Disk(r) /\ Flow(r)
  BY DEF Safe
<1>2. /\ q \in Download /\ q.mode = m /\ q.info = r.info /\ q.file = r.file
      /\ q.state = r.state /\ q.prog = r.prog /\ q.trans = r.trans
      /\ q.size = r.size /\ q.flight = r.flight /\ q.buf = r.buf
  BY DEF Download, Modes
<1>3. Disk(q)
  BY <1>1, <1>2 DEF Disk
<1>4. Flow(q)
  BY <1>1, <1>2 DEF Flow, Pairs
<1>5. Bounded(q)
  BY <1>2, SafeBounds, SameBounds
<1>. QED BY <1>2, <1>3, <1>4, <1>5 DEF Safe

LEMMA ReenterSafe ==
  ASSUME Inv, Reenter
  PROVE  Safe(dl')
<1>1. dl' = [dl EXCEPT !.mode = "panic"] /\ "panic" \in Modes \ {"on"}
  BY DEF Reenter, Modes
<1>2. dl \in Download /\ Safe(dl)
  BY DEF Inv, Safe
<1>. QED BY <1>1, <1>2, PanicSafe

-----------------------------------------------------------------------------
(* The active object and the connection                                     *)

(* Changes of what the invariant does not look at. *)
LEMMA LinkChange ==
  ASSUME NEW r \in Download, NEW l \in {"down", "opening", "up", "blocked"}, NEW q,
         q = [r EXCEPT !.link = l]
  PROVE  /\ q \in Download /\ q.link = l /\ q.mode = r.mode /\ q.state = r.state
         /\ q.prog = r.prog /\ q.active = r.active /\ q.trans = r.trans /\ q.held = r.held
         /\ q.info = r.info /\ Stored(q) = Stored(r) /\ Named(q) = Named(r) /\ Rest(q) = Rest(r)
         /\ Safe(r) => Safe(q)
         /\ Mem(r) => Mem(q)
<1>1. /\ q \in Download /\ q.link = l /\ q.mode = r.mode /\ q.state = r.state
      /\ q.prog = r.prog /\ q.active = r.active /\ q.trans = r.trans /\ q.held = r.held
      /\ q.info = r.info /\ Stored(q) = Stored(r) /\ Named(q) = Named(r) /\ Rest(q) = Rest(r)
  BY DEF Download, Stored, Named, Rest
<1>2. /\ q.hdr = r.hdr /\ q.named = r.named /\ q.noMedia = r.noMedia
      /\ q.file = r.file /\ q.size = r.size /\ q.open = r.open /\ q.flight = r.flight
      /\ q.buf = r.buf /\ q.enabled = r.enabled /\ q.moving = r.moving /\ q.wait = r.wait
  BY <1>1, SameStored, SameNamed, SameRest
<1>3. Mem(r) => Mem(q)
  BY <1>2, SameMem
<1>4. ASSUME Safe(r) PROVE Safe(q)
  <2>1. Flow(q)
    BY <1>1, <1>2, <1>4 DEF Safe, Flow, Pairs, Idle, Still
  <2>2. Disk(q)
    BY <1>1, <1>2, <1>4 DEF Safe, Disk
  <2>3. Sync(r) => Sync(q)
    BY <1>1, <1>2 DEF Sync, Matching, Buffers, Noted, Whole
  <2>4. Bounded(q)
    BY <1>2, <1>4, SafeBounds, SameBounds
  <2>. QED BY <1>1, <1>3, <1>4, <2>1, <2>2, <2>3, <2>4 DEF Safe
<1>. QED BY <1>1, <1>3, <1>4

LEMMA ConnectedSafe ==
  ASSUME NEW r \in Download, Safe(r), r.mode = "on"
  PROVE  Safe(Connected(r))
<1>1. CASE r.prog # "connecting"
  BY <1>1 DEF Connected
<1>2. CASE r.prog = "connecting"
  <2>1. Mem(r) /\ Sync(r) /\ Flow(r) /\ ~r.noMedia
    BY <1>2 DEF Safe, Flow, Pairs, Busy
  <2>2. Connected(r) = SetDownloadStatus(r, "connected", "progress")
    BY <1>2 DEF Connected
  <2>3. CASE r.wait = "complete"
    <3>1. "connected" \in Progs /\ Matched("connected", "progress")
      BY NotBusy DEF Matched
    <3>2. r.trans.st = "body" => r.trans.ver # 0 /\ r.trans.pos # 0 /\ r.open # "no"
      BY <2>1 DEF Flow
    <3>. QED BY <2>1, <2>2, <2>3, <3>1, <3>2, WaitingStatusSafe
  <2>4. CASE r.wait # "complete"
    <3>1. r.wait = "none" /\ r.open = "no" /\ r.trans = NoTrans
      BY <1>2, <2>1, <2>4 DEF Flow, Download
    <3>. QED BY <2>1, <2>2, <3>1, ConnectingSafe
  <2>. QED BY <2>3, <2>4
<1>. QED BY <1>1, <1>2

LEMMA ActiveChange ==
  ASSUME NEW r \in Download, NEW q, q = [r EXCEPT !.active = FALSE]
  PROVE  /\ q \in Download /\ ~q.active /\ q.mode = r.mode /\ q.state = r.state
         /\ q.prog = r.prog /\ q.info = r.info
         /\ Link(q) = Link(r) /\ Stored(q) = Stored(r) /\ Named(q) = Named(r) /\ Rest(q) = Rest(r)
         /\ Safe(r) => Safe(q)
         /\ Mem(r) => Mem(q)
<1>1. /\ q \in Download /\ ~q.active /\ q.mode = r.mode /\ q.state = r.state
      /\ q.prog = r.prog /\ q.info = r.info
      /\ Link(q) = Link(r) /\ Stored(q) = Stored(r) /\ Named(q) = Named(r) /\ Rest(q) = Rest(r)
  BY DEF Download, Stored, Link, Named, Rest
<1>2. /\ q.hdr = r.hdr /\ q.named = r.named /\ q.noMedia = r.noMedia /\ q.trans = r.trans
      /\ q.held = r.held
      /\ q.file = r.file /\ q.size = r.size /\ q.open = r.open /\ q.flight = r.flight
      /\ q.buf = r.buf /\ q.enabled = r.enabled /\ q.moving = r.moving /\ q.wait = r.wait
  BY <1>1, SameStored, SameNamed, SameRest, SameLink
<1>3. Mem(r) => Mem(q)
  BY <1>2, SameMem
<1>4. ASSUME Safe(r) PROVE Safe(q)
  <2>1. Flow(q)
    BY <1>1, <1>2, <1>4 DEF Safe, Flow, Pairs, Idle, Still
  <2>2. Disk(q)
    BY <1>1, <1>2, <1>4 DEF Safe, Disk
  <2>3. Sync(r) => Sync(q)
    BY <1>1, <1>2 DEF Sync, Matching, Buffers, Noted, Whole
  <2>4. Bounded(q)
    BY <1>2, <1>4, SafeBounds, SameBounds
  <2>. QED BY <1>1, <1>3, <1>4, <2>1, <2>2, <2>3, <2>4 DEF Safe
<1>. QED BY <1>1, <1>3, <1>4

LEMMA StatusMode ==
  ASSUME NEW r \in Download, NEW p \in Progs, NEW s \in States, NEW q,
         q = SetDownloadStatus(r, p, s), p \notin {"started", "connected"} \/ ~r.active
  PROVE  q.mode = r.mode
<1> DEFINE a == IF s = "paused" THEN FALSE
                ELSE r.active \/ (s = "progress" /\ p \in {"started", "connected"})
           n == [r EXCEPT !.prog = p, !.state = s, !.active = a, !.mode = r.mode]
<1>1. q = StoreDownloadInfoL(n)
  BY DEF SetDownloadStatus
<1>2. a \in BOOLEAN
  BY DEF Download
<1> HIDE DEF a
<1>3. n \in Download /\ n.mode = r.mode
  BY <1>2 DEF Download
<1> HIDE DEF n
<1>. QED BY <1>1, <1>3, StoreEffect

(* The other steps of a download in progress. *)
LEMMA ProgressSafe ==
  ASSUME NEW r \in Download, NEW p \in {"submitted", "header", "suspended"}, NEW q, Mem(r),
         q = SetDownloadStatus(r, p, "progress"), r.wait = "none", ~r.noMedia,
         r.trans.st = "body" => r.trans.ver # 0 /\ r.trans.pos # 0 /\ r.open # "no",
         r.trans.st = "asked" => r.open = "no",
         ~Absent /\ ~WriteFails /\ ~Unvalidated => Matching(r) /\ Buffers(r)
  PROVE  Safe(q)
<1>0. p \in Progs /\ p \in Busy /\ "progress" \in States /\ Matched(p, "progress")
  BY NotBusy DEF Matched
<1>1. Mem(q) /\ Pairs(q) /\ Disk(q) /\ Noted(q)
  BY <1>0, StatusNoted
<1>2. /\ q \in Download /\ q.state = "progress" /\ q.prog = p
      /\ q.trans = r.trans /\ q.wait = r.wait /\ q.open = r.open /\ q.noMedia = r.noMedia
      /\ q.hdr = r.hdr /\ q.enabled = r.enabled
      /\ q.flight = r.flight /\ q.buf = r.buf /\ q.size = r.size /\ q.file = r.file
  BY <1>0, StatusFields
<1>3. q.prog \notin {"started", "connecting", "connected"}
  BY <1>2
<1>4. Flow(q)
  BY <1>1, <1>2, <1>3 DEF Flow
<1>5. Matching(r) /\ Buffers(r) => Matching(q) /\ Buffers(q)
  BY <1>2 DEF Matching, Buffers, Whole
<1>6. Sync(q)
  BY <1>1, <1>5 DEF Sync
<1>. QED BY <1>1, <1>2, <1>4, <1>6 DEF Safe

LEMMA ConnectSafe ==
  ASSUME NEW r \in Download, Mem(r), r.mode = "on", ~r.noMedia,
         \/ r.wait = "none" /\ r.open = "no" /\ r.trans = NoTrans
         \/ /\ r.wait = "complete" /\ Sync(r)
            /\ r.trans.st = "body" => r.trans.ver # 0 /\ r.trans.pos # 0 /\ r.open # "no"
  PROVE  Safe(Connect(r))
<1> DEFINE c == SetDownloadStatus(r, "connecting", "progress")
<1>1. "connecting" \in Progs /\ "progress" \in States /\ Matched("connecting", "progress")
  BY NotBusy DEF Matched
<1>2. Safe(c)
  BY <1>1, ConnectingSafe, WaitingStatusSafe
<1>3. c \in Download
  BY <1>1, StatusFields
<1>4. c.mode = "on"
  BY <1>1, StatusMode
<1>5. \/ Connect(r) = Connected(c)
      \/ Connect(r) = [c EXCEPT !.link = IF c.link = "down" /\ "AutoConnect" \notin off
                                            THEN "opening" ELSE c.link]
  BY DEF Connect
<1> HIDE DEF c
<1>6. CASE Connect(r) = Connected(c)
  BY <1>2, <1>3, <1>4, <1>6, ConnectedSafe
<1>7. CASE Connect(r) = [c EXCEPT !.link = IF c.link = "down" /\ "AutoConnect" \notin off
                                             THEN "opening" ELSE c.link]
  <2> DEFINE l == IF c.link = "down" /\ "AutoConnect" \notin off THEN "opening" ELSE c.link
  <2>1. l \in {"down", "opening", "up", "blocked"}
    BY <1>3 DEF Download
  <2>2. Connect(r) = [c EXCEPT !.link = l]
    BY <1>7
  <2> HIDE DEF l
  <2>. QED BY <1>2, <1>3, <2>1, <2>2, LinkChange
<1>. QED BY <1>5, <1>6, <1>7

(* What is asked for is everything, or what is not there yet. *)
LEMMA RequestSafe ==
  ASSUME NEW r \in Download, Mem(r), r.wait = "none", r.open = "no", ~r.noMedia,
         NEW v \in SetRequestHeaderL(r)
  PROVE  Safe(RequestContentL(r, v))
<1> DEFINE pos == IF action = "forced" THEN 0 ELSE r.size
           t == [st |-> "asked", ver |-> v, pos |-> pos]
           a == [r EXCEPT !.trans = t]
<1>0. v \in 0..MaxVersion /\ (~Unvalidated => v = r.hdr)
  BY DownloadConstants DEF SetRequestHeaderL, Unvalidated, Download
<1>1. RequestContentL(r, v) = SetDownloadStatus(a, "submitted", "progress")
  BY DEF RequestContentL
<1>2. pos \in {0, r.size} /\ pos \in Nat
  BY DEF Download
<1> HIDE DEF pos
<1>3. t \in Transactions /\ t.st = "asked" /\ t.ver = v /\ t.pos \in {0, r.size}
  BY <1>0, <1>2 DEF Transactions
<1> HIDE DEF t
<1>4. /\ a \in Download /\ a.trans = t /\ a.hdr = r.hdr /\ a.named = r.named
      /\ a.noMedia = r.noMedia /\ a.file = r.file /\ a.size = r.size /\ a.open = r.open
      /\ a.flight = r.flight /\ a.buf = r.buf /\ a.wait = r.wait
  BY <1>3 DEF Download
<1> HIDE DEF a
<1>5. Mem(a)
  BY <1>4, SameMem
<1>6. ~Unvalidated => Matching(a)
  BY <1>0, <1>3, <1>4 DEF Matching
<1>7. Buffers(a)
  <2>1. a.flight = <<>> /\ a.buf = <<>>
    BY <1>4, <1>5 DEF Mem
  <2>2. Len(<<>>) = 0 /\ 0 < BufferSize /\ 0 <= BufferSize
    BY DownloadConstants
  <2>. QED BY <2>1, <2>2 DEF Buffers
<1>8. "submitted" \in {"submitted", "header", "suspended"} /\ a.trans.st # "body"
  BY <1>3, <1>4
<1>. QED BY <1>1, <1>4, <1>5, <1>6, <1>7, <1>8, ProgressSafe

LEMMA RunLSafe ==
  ASSUME Inv, RunL
  PROVE  Safe(dl')
<1> DEFINE r == [dl EXCEPT !.active = FALSE]
<1>0. (Free \/ Waiting) /\ (dl.prog = "connected" => Free)
  BY DEF RunL, Served, Free, Waiting
<1>1. dl \in Download /\ Mem(dl) /\ Sync(dl) /\ Flow(dl) /\ dl.mode = "on" /\ Safe(dl)
  BY DEF Inv, Safe, RunL, Served, On
<1>2. /\ r \in Download /\ r.mode = dl.mode /\ r.state = dl.state /\ r.prog = dl.prog
      /\ Link(r) = Link(dl) /\ Stored(r) = Stored(dl) /\ Named(r) = Named(dl) /\ Rest(r) = Rest(dl)
      /\ Safe(r) /\ Mem(r)
  BY <1>1, ActiveChange
<1>3. r.trans = dl.trans /\ r.open = dl.open /\ r.noMedia = dl.noMedia /\ r.wait = dl.wait
  BY <1>2, SameLink, SameStored, SameNamed, SameRest
<1>4. ASSUME dl.prog \in {"started", "connected"}
      PROVE  /\ ~dl.noMedia
             /\ \/ dl.wait = "none" /\ dl.trans = NoTrans /\ dl.open = "no"
                \/ dl.wait = "complete" /\ ~Free
  <2>1. dl.state = "progress"
    BY <1>1, <1>4 DEF Flow, Pairs, Busy
  <2>2. Free => dl.wait = "none"
    BY DEF Free
  <2>3. CASE Free
    BY <1>1, <1>4, <2>1, <2>2, <2>3 DEF Flow
  <2>4. CASE Waiting
    BY <1>1, <1>4, <2>1, <2>2, <2>4, Waits DEF Flow
  <2>. QED BY <1>0, <2>3, <2>4
<1>5. \/ dl.prog = "started" /\ dl' = Connect(r)
      \/ dl.prog = "connected" /\ \E v \in SetRequestHeaderL(r) : dl' = RequestContentL(r, v)
      \/ dl' = [r EXCEPT !.mode = "panic"]
  <2>1. dl.prog = "started" => dl' = Connect(r)
    BY DEF RunL
  <2>2. dl.prog = "connected" => r.trans = NoTrans
    BY <1>0, <1>3, <1>4
  <2>3. dl.prog = "connected" /\ r.trans = NoTrans =>
          dl' \in {RequestContentL(r, v) : v \in SetRequestHeaderL(r)}
    BY DEF RunL
  <2>4. dl.prog \notin {"started", "connected"} => dl' = [r EXCEPT !.mode = "panic"]
    BY DEF RunL
  <2> HIDE DEF r
  <2>. QED BY <2>1, <2>2, <2>3, <2>4
<1> HIDE DEF r
<1>6. CASE dl.prog = "started" /\ dl' = Connect(r)
  <2>1. Sync(r) /\ Flow(r)
    BY <1>1, <1>2 DEF Safe
  <2>2. r.trans.st = "body" => r.trans.ver # 0 /\ r.trans.pos # 0 /\ r.open # "no"
    BY <1>1, <1>2, <2>1 DEF Flow
  <2>. QED BY <1>1, <1>2, <1>3, <1>4, <1>6, <2>1, <2>2, ConnectSafe
<1>7. CASE dl.prog = "connected" /\ \E v \in SetRequestHeaderL(r) : dl' = RequestContentL(r, v)
  BY <1>0, <1>2, <1>3, <1>4, <1>7, RequestSafe
<1>8. CASE dl' = [r EXCEPT !.mode = "panic"]
  <2>1. "panic" \in Modes \ {"on"}
    BY DEF Modes
  <2>. QED BY <1>2, <1>8, <2>1, PanicSafe
<1>. QED BY <1>5, <1>6, <1>7, <1>8

LEMMA MoveDoneSafe ==
  ASSUME Inv, NEW ok \in BOOLEAN, MoveDone(ok)
  PROVE  Safe(dl')
<1> DEFINE r == [dl EXCEPT !.active = FALSE, !.moving = ~ok]
<1>0. /\ Served /\ (dl.wait = "none" \/ Waiting) /\ dl.prog = "moving"
      /\ dl' = SetDownloadStatus(r, "moved", "completed")
  BY DEF MoveDone, Waiting
<1>1. dl \in Download /\ Mem(dl) /\ Sync(dl) /\ Flow(dl) /\ dl.mode = "on" /\ dl.state = "completed"
  BY <1>0 DEF Served, On, Inv, Safe, Flow, Pairs
<1>2. /\ r \in Download /\ r.active = FALSE /\ r.hdr = dl.hdr /\ r.named = dl.named
      /\ r.file = dl.file /\ r.size = dl.size /\ r.open = dl.open /\ r.flight = dl.flight
      /\ r.buf = dl.buf /\ r.trans = dl.trans /\ r.held = dl.held /\ r.wait = dl.wait
      /\ r.noMedia = dl.noMedia /\ r.enabled = dl.enabled /\ r.info = dl.info
  BY <1>1 DEF Download
<1> HIDE DEF r
<1>3. Mem(r)
  BY <1>1, <1>2, SameMem
<1>4. "moved" \in Progs /\ "completed" \in States /\ Matched("moved", "completed")
  BY NotBusy DEF Matched
<1>5. CASE dl.wait = "none"
  <2>1. Idle(dl)
    BY <1>1, <1>5 DEF Flow
  <2>2. r.trans = NoTrans /\ r.open = "no" /\ Keeps(r.held, "completed")
    BY <1>1, <1>2, <2>1 DEF Idle, Still
  <2>. QED BY <1>0, <1>2, <1>3, <1>4, <1>5, <2>2, QuietStatusSafe
<1>6. CASE Waiting
  <2>1. /\ r.wait = "complete" /\ ~r.held /\ ~r.noMedia
        /\ r.trans.st = "body" => r.trans.ver # 0 /\ r.trans.pos # 0 /\ r.open # "no"
    BY <1>1, <1>2, <1>6, Waits
  <2>2. Sync(r)
    BY <1>1, <1>2 DEF Sync, Matching, Buffers, Noted, Whole
  <2>. QED BY <1>0, <1>2, <1>3, <1>4, <2>1, <2>2, WaitingStatusSafe
<1>. QED BY <1>0, <1>5, <1>6

(* A client names a connection. *)
LEMMA ConnectLSafe ==
  ASSUME Inv, ConnectL
  PROVE  Safe(dl')
<1>1. dl \in Download /\ Safe(dl) /\ dl' = [dl EXCEPT !.link = "opening"]
  BY DEF Inv, Safe, ConnectL
<1>2. "opening" \in {"down", "opening", "up", "blocked"}
  OBVIOUS
<1>. QED BY <1>1, <1>2, LinkChange

LEMMA LinkUpSafe ==
  ASSUME Inv, LinkUp
  PROVE  Safe(dl')
<1> DEFINE r == [dl EXCEPT !.link = "up"]
<1>1. dl \in Download /\ dl.mode = "on" /\ Safe(dl)
  BY DEF LinkUp, Served, On, Inv, Safe
<1>2. "up" \in {"down", "opening", "up", "blocked"}
  OBVIOUS
<1>3. r \in Download /\ r.mode = dl.mode /\ Safe(r)
  BY <1>1, <1>2, LinkChange
<1>4. dl' = r \/ dl' = Connected(r)
  BY DEF LinkUp
<1> HIDE DEF r
<1>. QED BY <1>1, <1>3, <1>4, ConnectedSafe

LEMMA ConnectionFailedSafe ==
  ASSUME Inv, ConnectionFailed
  PROVE  Safe(dl')
<1>1. dl \in Download /\ dl.wait = "none" /\ Mem(dl) /\ Pairs(dl) /\ pausable \in BOOLEAN
  BY Begins DEF ConnectionFailed
<1>. QED BY <1>1, OnErrorSafe DEF ConnectionFailed

LEMMA LinkBlockedSafe ==
  ASSUME Inv, LinkBlocked
  PROVE  Safe(dl')
<1> DEFINE r == [dl EXCEPT !.link = "blocked"]
<1>1. dl \in Download /\ dl.mode = "on" /\ Safe(dl) /\ (dl.wait = "none" \/ Waiting)
  BY DEF LinkBlocked, Served, Waiting, On, Inv, Safe
<1>2. "blocked" \in {"down", "opening", "up", "blocked"}
  OBVIOUS
<1>3. r \in Download /\ r.mode = dl.mode /\ Rest(r) = Rest(dl) /\ Safe(r)
      /\ r.trans = dl.trans /\ Stored(r) = Stored(dl)
  BY <1>1, <1>2, LinkChange
<1>4. dl' = r \/ (r.state = "progress" /\ dl' = SetDownloadStatus(r, "suspended", "progress"))
  BY DEF LinkBlocked
<1> HIDE DEF r
<1>5. r.wait = dl.wait /\ r.open = dl.open
  BY <1>3, SameRest, SameStored
<1>6. Mem(r) /\ Flow(r) /\ Sync(r)
  BY <1>1, <1>3 DEF Safe
<1>7. CASE r.state = "progress" /\ dl' = SetDownloadStatus(r, "suspended", "progress")
  <2>1. /\ ~r.noMedia
        /\ r.trans.st = "body" => r.trans.ver # 0 /\ r.trans.pos # 0 /\ r.open # "no"
    BY <1>1, <1>3, <1>6, <1>7 DEF Flow
  <2>2. CASE dl.wait = "none"
    <3>1. r.trans.st = "asked" => r.open = "no"
      BY <1>1, <1>3, <1>5, <1>6, <2>2 DEF Flow
    <3>2. ~Absent /\ ~WriteFails /\ ~Unvalidated => Matching(r) /\ Buffers(r)
      BY <1>6 DEF Sync
    <3>3. "suspended" \in {"submitted", "header", "suspended"}
      OBVIOUS
    <3>. QED BY <1>3, <1>5, <1>6, <1>7, <2>1, <2>2, <3>1, <3>2, <3>3, ProgressSafe
  <2>3. CASE Waiting
    <3>1. r.wait \in {"part", "complete"} /\ r.open # "no" /\ (r.wait = "part" => r.trans.st # "asked")
      BY <1>3, <1>5, <2>3, Waits
    <3>2. "suspended" \in Progs /\ Matched("suspended", "progress")
      BY NotBusy DEF Matched
    <3>. QED BY <1>3, <1>6, <1>7, <2>1, <3>1, <3>2, WaitingStatusSafe
  <2>. QED BY <1>1, <2>2, <2>3
<1>. QED BY <1>3, <1>4, <1>7

LEMMA LinkDownSafe ==
  ASSUME Inv, LinkDown
  PROVE  Safe(dl')
<1> DEFINE r == [dl EXCEPT !.link = "down"]
<1>1. dl \in Download /\ dl.mode = "on" /\ Safe(dl) /\ pausable \in BOOLEAN
  BY DEF LinkDown, Served, Free, On, Inv, Safe, EnvTypes
<1>2. "down" \in {"down", "opening", "up", "blocked"}
  OBVIOUS
<1>3. r \in Download /\ r.mode = dl.mode /\ Rest(r) = Rest(dl) /\ Safe(r) /\ r.held = dl.held
  BY <1>1, <1>2, LinkChange
<1>4. \/ dl' = r
      \/ r.held /\ dl' \in PauseL(r)
  BY DEF LinkDown
<1>5. r.held => dl.wait = "none"
  BY <1>3 DEF LinkDown, Free
<1> HIDE DEF r
<1>6. r.wait = dl.wait
  BY <1>3, SameRest
<1>. QED BY <1>1, <1>3, <1>4, <1>5, <1>6, PauseAnySafe

-----------------------------------------------------------------------------
(* The answers of the web server                                            *)

(* The headers of an answer with content: the file is open behind what is kept. *)
Headers(r, h, pos) ==
  SetDownloadStatus([CreateDestinationFileL([r EXCEPT !.hdr = h]) EXCEPT
      !.trans = [st |-> "body", ver |-> h, pos |-> pos]], "header", "progress")

LEMMA HeaderSafe ==
  ASSUME NEW r \in Download, NEW h \in 1..MaxVersion, NEW pos \in Nat, NEW q,
         Mem(r), r.open = "no", r.wait = "none", ~r.noMedia,
         ~Absent /\ ~WriteFails /\ ~Unvalidated => (r.size # 0 => r.hdr = h) /\ pos = r.size + 1,
         pos # 0, q = Headers(r, h, pos)
  PROVE  Safe(q)
<1> DEFINE n == [r EXCEPT !.hdr = h]
           c == CreateDestinationFileL(n)
           t == [st |-> "body", ver |-> h, pos |-> pos]
           b == [c EXCEPT !.trans = t]
<1>1. q = SetDownloadStatus(b, "header", "progress")
  BY DEF Headers
<1>0. h \in 0..MaxVersion /\ h # 0
  BY DownloadConstants
<1>2. /\ n \in Download /\ n.hdr = h /\ Stored(n) = Stored(r) /\ n.named = r.named
      /\ n.noMedia = r.noMedia /\ Link(n) = Link(r) /\ Rest(n) = Rest(r)
  BY <1>0, HeaderEffect
<1> HIDE DEF n
<1>3. /\ c \in Download /\ c.open = "good" /\ c.hdr = n.hdr /\ c.named
      /\ c.size = r.size /\ c.flight = <<>> /\ c.buf = <<>> /\ c.noMedia = n.noMedia
      /\ Rest(c) = Rest(n) /\ Mem(c)
      /\ ~Absent => c.size = Len(Whole(c))
  BY <1>2, CreateMem
<1> HIDE DEF c
<1>4. t \in Transactions /\ t.st = "body" /\ t.ver = h /\ t.pos = pos
  BY <1>0 DEF Transactions
<1> HIDE DEF t
<1>5. /\ b \in Download /\ b.trans = t /\ b.hdr = c.hdr /\ b.named = c.named
      /\ b.noMedia = c.noMedia /\ b.file = c.file /\ b.size = c.size /\ b.open = c.open
      /\ b.flight = c.flight /\ b.buf = c.buf /\ b.wait = c.wait
  BY <1>3, <1>4 DEF Download
<1> HIDE DEF b
<1>6. Mem(b)
  BY <1>3, <1>5, SameMem
<1>7. b.wait = "none"
  BY <1>2, <1>3, <1>5, SameRest
<1>8. Buffers(b)
  <2>1. b.flight = <<>> /\ b.buf = <<>>
    BY <1>3, <1>5
  <2>2. Len(<<>>) = 0 /\ 0 < BufferSize /\ 0 <= BufferSize
    BY DownloadConstants
  <2>. QED BY <2>1, <2>2 DEF Buffers
<1>9. ASSUME ~Absent, ~WriteFails, ~Unvalidated PROVE Matching(b)
  <2>1. Whole(b) = Whole(c)
    BY <1>5 DEF Whole
  <2>2. Len(Whole(b)) + 1 = pos
    BY <1>3, <1>9, <2>1
  <2>. QED BY <1>2, <1>3, <1>4, <1>5, <2>2 DEF Matching
<1>10. "header" \in {"submitted", "header", "suspended"}
  OBVIOUS
<1>11. ~b.noMedia /\ b.open # "no" /\ b.trans.ver # 0 /\ b.trans.pos # 0 /\ b.trans.st # "asked"
  BY <1>0, <1>2, <1>3, <1>4, <1>5
<1>. QED BY <1>1, <1>5, <1>6, <1>7, <1>8, <1>9, <1>10, <1>11, ProgressSafe

(* Headers that are kept and then an error: they are of what the file has, if
   anything of it counts. *)
LEMMA HeaderMem ==
  ASSUME NEW r \in Download, NEW h \in 0..MaxVersion, NEW n, n = [r EXCEPT !.hdr = h],
         Mem(r), r.open = "no",
         ~Absent /\ ~WriteFails /\ ~Unvalidated => ~r.named \/ r.hdr = h
  PROVE  n \in Download /\ Mem(n) /\ n.wait = r.wait /\ n.state = r.state /\ n.prog = r.prog
<1>1. /\ n \in Download /\ n.hdr = h /\ Stored(n) = Stored(r) /\ n.named = r.named
      /\ n.state = r.state /\ n.prog = r.prog /\ Rest(n) = Rest(r)
  BY HeaderEffect
<1>2. /\ n.file = r.file /\ n.size = r.size /\ n.open = r.open
      /\ n.flight = r.flight /\ n.buf = r.buf /\ n.wait = r.wait
  BY <1>1, SameStored, SameRest
<1>3. ~Absent => Fit(n)
  BY <1>1, <1>2 DEF Mem, Fit
<1>4. ~Absent /\ ~WriteFails /\ ~Unvalidated => Kept(n)
  BY <1>1, <1>2 DEF Mem, Kept
<1>. QED BY <1>1, <1>2, <1>3, <1>4 DEF Mem

LEMMA FullContentSafe ==
  ASSUME Inv, FullContent
  PROVE  Safe(dl')
<1>1. /\ dl \in Download /\ Mem(dl) /\ dl.wait = "none" /\ Pairs(dl) /\ pausable \in BOOLEAN
      /\ version \in 1..MaxVersion
  BY Begins DEF FullContent, Asked, Inv, EnvTypes
<1>2. PICK q \in ReInitializeDownload(dl) :
        \/ dl' = Headers(q, version, 1)
        \/ dl' \in OnError([q EXCEPT !.hdr = version], "other")
  BY DEF FullContent, Headers
<1>3. /\ q \in Download /\ q.open = "no" /\ q.size = 0 /\ q.noMedia = FALSE /\ q.named = FALSE
      /\ q.state = dl.state /\ q.prog = dl.prog /\ Rest(q) = Rest(dl)
  BY <1>1, ReInitEffect
<1>4. Mem(q)
  BY <1>1, ReInitMem
<1>5. q.wait = "none"
  BY <1>1, <1>3, SameRest
<1>6. Pairs(q)
  BY <1>1, <1>3 DEF Pairs
<1>7. 1 \in Nat /\ 1 # 0 /\ 1 = q.size + 1
  BY <1>3
<1>8. CASE dl' \in OnError([q EXCEPT !.hdr = version], "other")
  <2> DEFINE n == [q EXCEPT !.hdr = version]
  <2>1. version \in 0..MaxVersion
    BY <1>1
  <2>2. n \in Download /\ Mem(n) /\ n.wait = "none" /\ n.state = q.state /\ n.prog = q.prog
    BY <1>3, <1>4, <1>5, <2>1, HeaderMem
  <2>3. dl' \in OnError(n, "other")
    BY <1>8
  <2> HIDE DEF n
  <2>4. Pairs(n)
    BY <1>6, <2>2 DEF Pairs
  <2>. QED BY <1>1, <2>2, <2>3, <2>4, OnErrorSafe
<1>9. CASE dl' = Headers(q, version, 1)
  BY <1>1, <1>3, <1>4, <1>5, <1>7, <1>9, HeaderSafe
<1>. QED BY <1>2, <1>8, <1>9

(* A transaction that has been asked for continues at the end of the file. *)
LEMMA AskedFacts ==
  ASSUME Inv, Asked
  PROVE  /\ dl \in Download /\ Mem(dl) /\ dl.wait = "none" /\ Pairs(dl) /\ pausable \in BOOLEAN
         /\ version \in 1..MaxVersion /\ dl.open = "no" /\ ~dl.noMedia /\ dl.state = "progress"
         /\ dl.trans.pos \in Nat
         /\ ~Absent /\ ~WriteFails /\ ~Unvalidated =>
              /\ dl.trans.pos \in {0, dl.size} /\ dl.trans.ver = dl.hdr
              /\ dl.size # 0 => dl.hdr # 0
<1>0. Free /\ dl.trans.st = "asked"
  BY DEF Asked
<1>1. /\ dl \in Download /\ Mem(dl) /\ dl.wait = "none" /\ Pairs(dl) /\ pausable \in BOOLEAN
      /\ version \in 1..MaxVersion /\ Flow(dl) /\ Sync(dl) /\ dl.mode = "on"
      /\ dl.trans # NoTrans => dl.state = "progress"
  BY <1>0, Begins DEF Inv, EnvTypes
<1>2. dl.open = "no" /\ dl.state = "progress" /\ ~dl.noMedia
  BY <1>0, <1>1 DEF Flow, NoTrans
<1>3. dl.trans.pos \in Nat
  BY <1>1 DEF Download, Transactions
<1>4. ASSUME ~Absent, ~WriteFails, ~Unvalidated, dl.size # 0 PROVE dl.hdr # 0
  <2>1. Fit(dl) /\ Kept(dl)
    BY <1>1, <1>4 DEF Mem
  <2>2. dl.size = Len(dl.file) /\ dl.named
    BY <1>4, <2>1 DEF Fit
  <2>3. dl.file \in Seq(Block) /\ 1 \in 1..Len(dl.file)
    BY <1>1, <1>4, <2>2 DEF Download
  <2>4. dl.file[1] = <<dl.hdr, 1>> /\ dl.file[1] \in Block
    BY <2>1, <2>2, <2>3 DEF Kept, Line
  <2>. QED BY <2>4, DownloadConstants DEF Block
<1>. QED BY <1>0, <1>1, <1>2, <1>3, <1>4 DEF Sync, Matching

LEMMA PartialContentSafe ==
  ASSUME Inv, PartialContent
  PROVE  Safe(dl')
<1>0. Asked /\ dl.trans.pos > 0 /\ dl.trans.ver \in {0, version}
  BY DEF PartialContent, Same
<1>1. /\ dl \in Download /\ Mem(dl) /\ dl.wait = "none" /\ Pairs(dl) /\ pausable \in BOOLEAN
      /\ version \in 1..MaxVersion /\ dl.open = "no" /\ ~dl.noMedia /\ dl.trans.pos \in Nat
      /\ ~Absent /\ ~WriteFails /\ ~Unvalidated =>
           /\ dl.trans.pos \in {0, dl.size} /\ dl.trans.ver = dl.hdr
           /\ dl.size # 0 => dl.hdr # 0
  BY <1>0, AskedFacts
<1> DEFINE pos == dl.trans.pos + 1
<1>2. dl' = Headers(dl, version, pos) \/ dl' \in OnError([dl EXCEPT !.hdr = version], "other")
  BY DEF PartialContent, Headers
<1>3. pos \in Nat /\ pos # 0 /\ pos = dl.trans.pos + 1
  BY <1>1
<1> HIDE DEF pos
<1>4. ~Absent /\ ~WriteFails /\ ~Unvalidated => dl.hdr = version /\ pos = dl.size + 1
  BY <1>0, <1>1, <1>3
<1>5. CASE dl' \in OnError([dl EXCEPT !.hdr = version], "other")
  <2> DEFINE n == [dl EXCEPT !.hdr = version]
  <2>1. version \in 0..MaxVersion
    BY <1>1
  <2>2. n \in Download /\ Mem(n) /\ n.wait = "none" /\ n.state = dl.state /\ n.prog = dl.prog
    BY <1>1, <1>4, <2>1, HeaderMem
  <2>3. dl' \in OnError(n, "other")
    BY <1>5
  <2> HIDE DEF n
  <2>4. Pairs(n)
    BY <1>1, <2>2 DEF Pairs
  <2>. QED BY <1>1, <2>2, <2>3, <2>4, OnErrorSafe
<1>6. CASE dl' = Headers(dl, version, pos)
  BY <1>1, <1>3, <1>4, <1>6, HeaderSafe
<1>. QED BY <1>2, <1>5, <1>6

(* A download that is complete, while its last buffers are waited for. *)
LEMMA OnCompletedSafe ==
  ASSUME NEW r \in Download, NEW q, Mem(r), r.mode = "on", ~r.noMedia,
         r.trans.st = "body" => r.trans.ver # 0 /\ r.trans.pos # 0 /\ r.open # "no",
         ~Absent /\ ~WriteFails /\ ~Unvalidated => (r.trans.st = "body" => Matching(r)) /\ Buffers(r),
         q = OnCompletedL(r)
  PROVE  Safe(q)
<1> DEFINE s == SetDownloadStatus(r, "none", "completed")
           a == [s EXCEPT !.active = FALSE]
           d == Disconnect(a)
<1>1. q = [d EXCEPT !.wait = "complete"]
  BY DEF OnCompletedL
<1>2. "none" \in Progs /\ "completed" \in States /\ Matched("none", "completed")
  BY NotBusy DEF Matched
<1>3. Mem(s) /\ Pairs(s) /\ Disk(s) /\ Noted(s)
  BY <1>2, StatusNoted
<1>4. /\ s \in Download /\ s.state = "completed" /\ s.prog = "none"
      /\ s.trans = r.trans /\ s.open = r.open
      /\ s.noMedia = r.noMedia /\ s.hdr = r.hdr /\ s.enabled = r.enabled
      /\ s.flight = r.flight /\ s.buf = r.buf /\ s.size = r.size /\ s.file = r.file
      /\ s.named = r.named
  BY <1>2, StatusFields
<1> HIDE DEF s
<1>5. /\ a \in Download /\ a.active = FALSE /\ a.state = s.state /\ a.prog = s.prog
      /\ a.info = s.info /\ a.trans = s.trans /\ Stored(a) = Stored(s) /\ Named(a) = Named(s)
      /\ Rest(a) = Rest(s)
  BY <1>4 DEF Download, Stored, Named, Rest
<1> HIDE DEF a
<1>6. /\ d \in Download /\ d.trans = a.trans /\ d.held = FALSE /\ d.info = a.info
      /\ d.state = a.state /\ d.prog = a.prog /\ d.active = a.active
      /\ Stored(d) = Stored(a) /\ Named(d) = Named(a) /\ Rest(d) = Rest(a)
  BY <1>5, DisconnectEffect
<1>7. /\ d.file = s.file /\ d.size = s.size /\ d.open = s.open /\ d.flight = s.flight /\ d.buf = s.buf
      /\ d.hdr = s.hdr /\ d.named = s.named /\ d.noMedia = s.noMedia /\ d.enabled = s.enabled
  BY <1>5, <1>6, SameStored, SameNamed, SameRest
<1> HIDE DEF d
<1>8. /\ q \in Download /\ q.wait = "complete" /\ q.trans = r.trans /\ q.held = FALSE
      /\ q.active = FALSE /\ q.state = "completed" /\ q.prog = "none" /\ q.info = s.info
      /\ q.noMedia = r.noMedia
      /\ q.file = r.file /\ q.size = r.size /\ q.open = r.open /\ q.flight = r.flight
      /\ q.buf = r.buf /\ q.hdr = r.hdr /\ q.named = r.named /\ q.enabled = r.enabled
  <2>1. /\ q \in Download /\ q.wait = "complete" /\ q.trans = d.trans /\ q.held = d.held
        /\ q.active = d.active /\ q.state = d.state /\ q.prog = d.prog /\ q.info = d.info
        /\ q.noMedia = d.noMedia
        /\ q.file = d.file /\ q.size = d.size /\ q.open = d.open /\ q.flight = d.flight
        /\ q.buf = d.buf /\ q.hdr = d.hdr /\ q.named = d.named /\ q.enabled = d.enabled
    BY <1>1, <1>6, ZenonT(60) DEF Download
  <2>. QED BY <1>4, <1>5, <1>6, <1>7, <2>1
<1>9. Mem(q)
  BY <1>8, SameMem
<1>10. Flow(q)
  BY <1>8 DEF Flow, Pairs, Busy, Still, Keeps
<1>11. Disk(q)
  BY <1>3, <1>4, <1>8 DEF Disk
<1>12. ASSUME ~Absent, ~WriteFails, ~Unvalidated PROVE Matching(q) /\ Buffers(q) /\ Noted(q)
  <2>1. Noted(q)
    BY <1>3, <1>4, <1>8 DEF Noted
  <2>2. Matching(q)
    BY <1>8, <1>12 DEF Matching, Whole
  <2>3. Buffers(q)
    BY <1>8, <1>12 DEF Buffers
  <2>. QED BY <2>1, <2>2, <2>3
<1>. QED BY <1>8, <1>9, <1>10, <1>11, <1>12 DEF Safe, Sync

LEMMA NotModifiedSafe ==
  ASSUME Inv, NotModified
  PROVE  Safe(dl')
<1> DEFINE c == CreateDestinationFileL(dl)
<1>0. Asked /\ dl.trans.st = "asked"
  BY DEF NotModified, Asked
<1>1. /\ dl \in Download /\ Mem(dl) /\ dl.wait = "none" /\ Pairs(dl) /\ pausable \in BOOLEAN
      /\ dl.open = "no" /\ dl.mode = "on" /\ ~dl.noMedia
  BY <1>0, AskedFacts DEF Asked, Free, On
<1>2. dl' = OnCompletedL(c) \/ dl' \in OnError(dl, "other")
  BY DEF NotModified
<1>3. /\ c \in Download /\ c.mode = dl.mode /\ c.flight = <<>> /\ c.buf = <<>>
      /\ c.noMedia = dl.noMedia /\ Link(c) = Link(dl) /\ Rest(c) = Rest(dl) /\ Mem(c)
  BY <1>1, CreateMem
<1> HIDE DEF c
<1>4. c.trans.st = "asked"
  BY <1>0, <1>3, SameLink
<1>5. Buffers(c)
  <2>1. Len(<<>>) = 0 /\ 0 < BufferSize /\ 0 <= BufferSize
    BY DownloadConstants
  <2>. QED BY <1>3, <2>1 DEF Buffers
<1>6. CASE dl' = OnCompletedL(c)
  BY <1>1, <1>3, <1>4, <1>5, <1>6, OnCompletedSafe
<1>7. CASE dl' \in OnError(dl, "other")
  BY <1>1, <1>7, OnErrorSafe
<1>. QED BY <1>2, <1>6, <1>7

LEMMA PreconditionFailedSafe ==
  ASSUME Inv, PreconditionFailed
  PROVE  Safe(dl')
<1> DEFINE c == CancelTransaction(dl)
<1>1. /\ dl \in Download /\ Mem(dl) /\ dl.wait = "none" /\ Pairs(dl) /\ pausable \in BOOLEAN
  BY AskedFacts DEF PreconditionFailed
<1>2. \/ \E q \in ReInitializeDownload(c) : dl' = SetDownloadStatus(q, "started", "progress")
      \/ dl' \in OnError(dl, "other")
  BY DEF PreconditionFailed
<1>3. /\ c \in Download /\ c.trans = NoTrans
      /\ Stored(c) = Stored(dl) /\ Named(c) = Named(dl) /\ Rest(c) = Rest(dl)
  BY <1>1, CancelEffect
<1> HIDE DEF c
<1>4. Mem(c) /\ c.wait = "none"
  BY <1>1, <1>3, SameStored, SameNamed, SameRest, SameMem
<1>5. ASSUME NEW q \in ReInitializeDownload(c), dl' = SetDownloadStatus(q, "started", "progress")
      PROVE  Safe(dl')
  <2>1. q \in Download /\ q.open = "no" /\ q.noMedia = FALSE /\ Link(q) = Link(c) /\ Rest(q) = Rest(c)
    BY <1>3, ReInitEffect
  <2>2. Mem(q)
    BY <1>3, <1>4, ReInitMem
  <2>3. q.trans = NoTrans /\ q.wait = "none"
    BY <1>3, <1>4, <2>1, SameLink, SameRest
  <2>4. "started" \in {"started", "connecting", "connected"}
    OBVIOUS
  <2>. QED BY <1>5, <2>1, <2>2, <2>3, <2>4, ConnectingSafe
<1>6. CASE dl' \in OnError(dl, "other")
  BY <1>1, <1>6, OnErrorSafe
<1>. QED BY <1>2, <1>5, <1>6

-----------------------------------------------------------------------------
(* The body and its way into the file                                       *)

LEMMA LineNext ==
  ASSUME NEW s \in Seq(Block), NEW v \in 1..MaxVersion, NEW pos \in 1..Length,
         pos = Len(s) + 1, Line(s, v)
  PROVE  LET t == Append(s, <<v, pos>>)
         IN t \in Seq(Block) /\ Line(t, v) /\ Len(t) = pos
<1> DEFINE x == <<v, pos>>
           t == Append(s, x)
<1>1. x \in Block
  BY DEF Block
<1> HIDE DEF x
<1>2. /\ t \in Seq(Block) /\ Len(t) = pos
      /\ \A i \in 1..Len(s) : t[i] = s[i]
      /\ t[pos] = x
  BY <1>1
<1> HIDE DEF t
<1>3. \A i \in 1..Len(t) : t[i] = <<v, i>>
  <2> SUFFICES ASSUME NEW i \in 1..Len(t) PROVE t[i] = <<v, i>>
    OBVIOUS
  <2>1. i \in 1..Len(s) \/ i = pos
    BY <1>2
  <2>2. CASE i \in 1..Len(s)
    BY <1>2, <2>2 DEF Line
  <2>3. CASE i = pos
    BY <1>2, <2>3 DEF x
  <2>. QED BY <2>1, <2>2, <2>3
<1>. QED BY <1>2, <1>3 DEF Line, t, x

LEMMA AppendLast ==
  ASSUME NEW s \in Seq(Block), NEW t \in Seq(Block), NEW x \in Block
  PROVE  s \o Append(t, x) = Append(s \o t, x) /\ s \o <<x>> = Append(s, x)
<1> DEFINE u == <<x>>
<1>1. u \in Seq(Block)
  OBVIOUS
<1>2. Append(t, x) = t \o u /\ s \o t \in Seq(Block) /\ s \o u = Append(s, x)
  BY AppendIsConcat, ConcatProperties
<1>3. Append(s \o t, x) = (s \o t) \o u
  BY <1>2, AppendIsConcat
<1> HIDE DEF u
<1>4. (s \o t) \o u = s \o (t \o u)
  BY <1>1, ConcatAssociative
<1>. QED BY <1>2, <1>3, <1>4

(* The handler of a piece of the body, up to the writing. *)
Taken(r) == [r EXCEPT !.trans.pos = @ + 1, !.enabled = TRUE]
Buffered(r, x) == [Taken(r) EXCEPT !.buf = Append(@, x)]

LEMMA TakenEffect ==
  ASSUME NEW r \in Download, NEW q, q = Taken(r)
  PROVE  /\ q \in Download /\ q.trans.st = r.trans.st /\ q.trans.ver = r.trans.ver
         /\ q.trans.pos = r.trans.pos + 1 /\ q.enabled = TRUE
         /\ q.mode = r.mode /\ q.state = r.state /\ q.prog = r.prog /\ q.active = r.active
         /\ q.held = r.held /\ q.info = r.info /\ q.hdr = r.hdr /\ q.named = r.named
         /\ q.noMedia = r.noMedia /\ q.moving = r.moving /\ q.wait = r.wait
         /\ Stored(q) = Stored(r)
<1> DEFINE t == [r.trans EXCEPT !.pos = @ + 1]
<1>0. r.trans \in Transactions
  BY DEF Download
<1>1. t \in Transactions /\ t.st = r.trans.st /\ t.ver = r.trans.ver /\ t.pos = r.trans.pos + 1
  BY <1>0 DEF Transactions
<1>2. q = [r EXCEPT !.trans = t, !.enabled = TRUE]
  BY <1>0, Zenon DEF Taken
<1> HIDE DEF t
<1>3. /\ q \in Download /\ q.trans = t /\ q.enabled = TRUE
      /\ q.mode = r.mode /\ q.state = r.state /\ q.prog = r.prog /\ q.active = r.active
      /\ q.held = r.held /\ q.info = r.info /\ q.hdr = r.hdr /\ q.named = r.named
      /\ q.noMedia = r.noMedia /\ q.moving = r.moving /\ q.wait = r.wait
      /\ Stored(q) = Stored(r)
  BY <1>1, <1>2, ZenonT(60) DEF Download, Stored
<1>. QED BY <1>1, <1>3

(* q is r with the piece x more in its buffer. *)
IsBuffered(q, r, x) ==
  /\ q \in Download /\ q.trans.st = r.trans.st /\ q.trans.ver = r.trans.ver
  /\ q.trans.pos = r.trans.pos + 1 /\ q.enabled = TRUE
  /\ q.mode = r.mode /\ q.state = r.state /\ q.prog = r.prog /\ q.active = r.active
  /\ q.held = r.held /\ q.info = r.info /\ q.hdr = r.hdr /\ q.named = r.named
  /\ q.noMedia = r.noMedia /\ q.moving = r.moving /\ q.wait = r.wait
  /\ q.file = r.file /\ q.size = r.size /\ q.open = r.open /\ q.flight = r.flight
  /\ q.buf = Append(r.buf, x)

LEMMA BufferedEffect ==
  ASSUME NEW r \in Download, NEW x \in Block, NEW q, q = Buffered(r, x)
  PROVE  IsBuffered(q, r, x)
<1> DEFINE t == Taken(r)
           y == Append(t.buf, x)
<1>1. /\ t \in Download /\ t.trans.st = r.trans.st /\ t.trans.ver = r.trans.ver
      /\ t.trans.pos = r.trans.pos + 1 /\ t.enabled = TRUE
      /\ t.mode = r.mode /\ t.state = r.state /\ t.prog = r.prog /\ t.active = r.active
      /\ t.held = r.held /\ t.info = r.info /\ t.hdr = r.hdr /\ t.named = r.named
      /\ t.noMedia = r.noMedia /\ t.moving = r.moving /\ t.wait = r.wait
      /\ Stored(t) = Stored(r)
  BY TakenEffect
<1>2. q = [t EXCEPT !.buf = y]
  BY DEF Buffered
<1> HIDE DEF t
<1>3. y \in Seq(Block)
  BY <1>1 DEF Download
<1>4. t.file = r.file /\ t.size = r.size /\ t.open = r.open /\ t.flight = r.flight
      /\ t.buf = r.buf /\ t.werr = r.werr
  BY <1>1, SameStored
<1>5. y = Append(r.buf, x)
  BY <1>4
<1> HIDE DEF y
<1>6. /\ q \in Download /\ q.trans = t.trans /\ q.enabled = t.enabled
      /\ q.mode = t.mode /\ q.state = t.state /\ q.prog = t.prog /\ q.active = t.active
      /\ q.held = t.held /\ q.info = t.info /\ q.hdr = t.hdr /\ q.named = t.named
      /\ q.noMedia = t.noMedia /\ q.moving = t.moving /\ q.wait = t.wait
      /\ q.file = t.file /\ q.size = t.size /\ q.open = t.open /\ q.flight = t.flight
      /\ q.buf = y /\ q.werr = t.werr
  <2>1. t \in Download
    BY <1>1
  <2>. QED BY <1>2, <1>3, <2>1, ZenonT(60) DEF Download
<1>. QED BY <1>1, <1>4, <1>5, <1>6 DEF IsBuffered

(* A download in progress whose buffer may just have become full. *)
Ready(r) ==
  /\ r \in Download /\ r.mode = "on" /\ r.state = "progress" /\ r.open # "no"
  /\ r.wait # "complete" /\ Flow(r) /\ Disk(r) /\ Mem(r)
  /\ ~Absent /\ ~WriteFails /\ ~Unvalidated =>
       /\ Matching(r) /\ Noted(r) /\ r.enabled
       /\ Len(r.flight) <= BufferSize /\ Len(r.buf) <= BufferSize

(* A full buffer is written, or the writer is waited for, or its error taken. *)
LEMMA FullSafe ==
  ASSUME NEW r, Ready(r), NEW q \in Full(r), pausable \in BOOLEAN
  PROVE  Safe(q)
<1>0. r \in Download /\ r.mode = "on" /\ r.state = "progress" /\ r.open # "no"
      /\ r.wait # "complete" /\ Flow(r) /\ Disk(r) /\ Mem(r)
  BY DEF Ready
<1>1. CASE q = [r EXCEPT !.wait = "part"]
  <2>1. /\ q \in Download /\ q.wait = "part" /\ q.trans = r.trans /\ q.enabled = r.enabled
        /\ q.mode = r.mode /\ q.state = r.state /\ q.prog = r.prog
        /\ q.info = r.info /\ q.hdr = r.hdr /\ q.named = r.named /\ q.noMedia = r.noMedia
        /\ q.file = r.file /\ q.size = r.size /\ q.open = r.open /\ q.flight = r.flight
        /\ q.buf = r.buf
    BY <1>0, <1>1 DEF Download
  <2>2. Mem(q)
    BY <1>0, <2>1, SameMem
  <2>3. Flow(q)
    BY <1>0, <2>1 DEF Flow, Pairs
  <2>4. Disk(q)
    BY <1>0, <2>1 DEF Disk
  <2>5. ASSUME ~Absent, ~WriteFails, ~Unvalidated PROVE Matching(q) /\ Buffers(q) /\ Noted(q)
    <3>1. /\ Matching(r) /\ Noted(r) /\ r.enabled
          /\ Len(r.flight) <= BufferSize /\ Len(r.buf) <= BufferSize
      BY <2>5 DEF Ready
    <3>2. Matching(q)
      BY <1>0, <2>1, <3>1, ZenonT(60) DEF Matching, Whole, Flow
    <3>. QED BY <2>1, <3>1, <3>2 DEF Buffers, Noted
  <2>. QED BY <2>1, <2>2, <2>3, <2>4, <2>5 DEF Safe, Sync
<1>2. CASE q \in OnError([r EXCEPT !.werr = FALSE, !.wait = "none"], "other")
  <2> DEFINE n == [r EXCEPT !.werr = FALSE, !.wait = "none"]
  <2>1. /\ n \in Download /\ n.wait = "none" /\ n.state = r.state
        /\ n.hdr = r.hdr /\ n.named = r.named
        /\ n.file = r.file /\ n.size = r.size /\ n.open = r.open /\ n.flight = r.flight
        /\ n.buf = r.buf
    BY <1>0 DEF Download
  <2>2. q \in OnError(n, "other")
    BY <1>2
  <2> HIDE DEF n
  <2>3. Mem(n)
    BY <1>0, <2>1, SameMem
  <2>. QED BY <1>0, <2>1, <2>2, <2>3, OnErrorSafe
<1>3. CASE r.flight = <<>> /\ q = [r EXCEPT !.flight = r.buf, !.buf = <<>>, !.wait = "none"]
  <2>0. <<>> \in Seq(Block) /\ Len(<<>>) = 0 /\ 0 < BufferSize /\ 0 <= BufferSize
    BY DownloadConstants
  <2>1. /\ q \in Download /\ q.wait = "none" /\ q.trans = r.trans /\ q.enabled = r.enabled
        /\ q.mode = r.mode /\ q.state = r.state /\ q.prog = r.prog
        /\ q.info = r.info /\ q.hdr = r.hdr /\ q.named = r.named /\ q.noMedia = r.noMedia
        /\ q.file = r.file /\ q.size = r.size /\ q.open = r.open /\ q.flight = r.buf
        /\ q.buf = <<>>
    BY <1>0, <1>3, <2>0 DEF Download
  <2>2. Whole(q) = Whole(r)
    <3>1. r.file \in Seq(Block) /\ r.buf \in Seq(Block) /\ r.flight = <<>>
      BY <1>0, <1>3 DEF Download
    <3>2. r.file \o <<>> = r.file /\ r.file \o r.buf \in Seq(Block)
      BY <3>1, Concats
    <3>3. (r.file \o r.buf) \o <<>> = r.file \o r.buf
      BY <3>2, ConcatEmptySeq
    <3>. QED BY <2>1, <3>1, <3>2, <3>3 DEF Whole
  <2>3. Mem(q)
    <3>1. ~Absent => Fit(q)
      BY <1>0, <2>1 DEF Mem, Fit
    <3>2. ~Absent /\ ~WriteFails /\ ~Unvalidated => Kept(q)
      BY <1>0, <2>1, <2>2 DEF Mem, Kept
    <3>. QED BY <1>0, <2>1, <3>1, <3>2 DEF Mem
  <2>4. Flow(q)
    BY <1>0, <2>1 DEF Flow, Pairs
  <2>5. Disk(q)
    BY <1>0, <2>1 DEF Disk
  <2>6. ASSUME ~Absent, ~WriteFails, ~Unvalidated PROVE Matching(q) /\ Buffers(q) /\ Noted(q)
    <3>1. /\ Matching(r) /\ Noted(r) /\ r.enabled
          /\ Len(r.flight) <= BufferSize /\ Len(r.buf) <= BufferSize
      BY <2>6 DEF Ready
    <3>2. Matching(q)
      BY <1>0, <2>1, <2>2, <3>1 DEF Matching, Flow
    <3>3. Buffers(q)
      BY <2>0, <2>1, <3>1 DEF Buffers
    <3>4. Noted(q)
      BY <2>1, <3>1 DEF Noted
    <3>. QED BY <3>2, <3>3, <3>4
  <2>. QED BY <2>1, <2>3, <2>4, <2>5, <2>6 DEF Safe, Sync
<1>. QED BY <1>1, <1>2, <1>3 DEF Full

(* What is known when a piece of the body comes. *)
Coming == Free /\ dl.trans.st = "body" /\ dl.trans.pos <= Length
First == Coming /\ ~dl.enabled /\ dl.size = 0
Piece(r) == <<r.trans.ver, r.trans.pos>>

LEMMA BodyFacts ==
  ASSUME Inv, Free, dl.trans.st = "body"
  PROVE  /\ dl \in Download /\ Mem(dl) /\ dl.wait = "none" /\ Flow(dl) /\ Pairs(dl) /\ Disk(dl)
         /\ pausable \in BOOLEAN /\ dl.mode = "on" /\ dl.state = "progress" /\ dl.open # "no"
         /\ ~dl.noMedia /\ dl.trans.ver \in 1..MaxVersion /\ dl.trans.pos \in Nat \ {0}
         /\ dl.trans.ver # 0 /\ dl.trans.pos # 0
         /\ dl.prog \notin {"started", "connecting", "connected"}
         /\ ~Absent /\ ~WriteFails /\ ~Unvalidated => Matching(dl) /\ Buffers(dl) /\ Noted(dl)
<1>1. /\ dl \in Download /\ Mem(dl) /\ dl.wait = "none" /\ Pairs(dl) /\ pausable \in BOOLEAN
      /\ Flow(dl) /\ Sync(dl) /\ Disk(dl) /\ dl.mode = "on"
      /\ dl.trans # NoTrans => dl.state = "progress"
  BY Begins
<1>2. /\ dl.open # "no" /\ dl.state = "progress" /\ ~dl.noMedia
      /\ dl.trans.ver # 0 /\ dl.trans.pos # 0
      /\ dl.prog \notin {"started", "connecting", "connected"}
  BY <1>1 DEF Flow, NoTrans
<1>3. dl.trans.ver \in 0..MaxVersion /\ dl.trans.pos \in Nat
  BY <1>1 DEF Download, Transactions
<1>4. dl.trans.ver \in 1..MaxVersion
  BY <1>2, <1>3, DownloadConstants
<1>. QED BY <1>1, <1>2, <1>3, <1>4 DEF Sync

OneMore(f, l, y, x) ==
  /\ (f \o l) \o Append(y, x) = Append((f \o l) \o y, x)
  /\ (f \o l) \o y \in Seq(Block)

LEMMA WholeNext ==
  ASSUME NEW f \in Seq(Block), NEW l \in Seq(Block), NEW y \in Seq(Block), NEW x \in Block
  PROVE  OneMore(f, l, y, x)
<1> DEFINE g == f \o l
<1>1. g \in Seq(Block)
  BY ConcatProperties
<1> HIDE DEF g
<1>2. g \o Append(y, x) = Append(g \o y, x) /\ g \o y \in Seq(Block)
  BY <1>1, AppendLast, ConcatProperties
<1>. QED BY <1>2 DEF g, OneMore

LEMMA BufferedReady ==
  ASSUME Inv, Coming, NEW b, NEW x, x = Piece(dl), b = Buffered(dl, x)
  PROVE  Ready(b) /\ b.wait = "none"
<1>1. /\ dl \in Download /\ Mem(dl) /\ dl.wait = "none" /\ Flow(dl) /\ Pairs(dl) /\ Disk(dl)
      /\ dl.mode = "on" /\ dl.state = "progress" /\ dl.open # "no"
      /\ ~dl.noMedia /\ dl.trans.ver \in 1..MaxVersion /\ dl.trans.pos \in Nat \ {0}
      /\ dl.trans.ver # 0 /\ dl.trans.pos # 0
      /\ dl.prog \notin {"started", "connecting", "connected"}
      /\ ~Absent /\ ~WriteFails /\ ~Unvalidated => Matching(dl) /\ Buffers(dl) /\ Noted(dl)
      /\ dl.trans.st = "body" /\ dl.trans.pos <= Length
  BY BodyFacts DEF Coming, First
<1>2. dl.trans.pos \in 1..Length
  BY <1>1, DownloadConstants
<1>3. x \in Block /\ x = <<dl.trans.ver, dl.trans.pos>>
  BY <1>1, <1>2 DEF Block, Piece
<1>4. /\ b \in Download /\ b.trans.st = "body" /\ b.trans.ver = dl.trans.ver
      /\ b.trans.pos = dl.trans.pos + 1 /\ b.enabled = TRUE
      /\ b.mode = dl.mode /\ b.state = dl.state /\ b.prog = dl.prog
      /\ b.info = dl.info /\ b.hdr = dl.hdr /\ b.named = dl.named
      /\ b.noMedia = dl.noMedia /\ b.wait = dl.wait
      /\ b.file = dl.file /\ b.size = dl.size /\ b.open = dl.open /\ b.flight = dl.flight
      /\ b.buf = Append(dl.buf, x)
  <2>1. dl \in Download /\ x \in Block
    BY <1>1, <1>3
  <2>2. IsBuffered(b, dl, x)
    BY <2>1, BufferedEffect, Zenon
  <2>. QED BY <1>1, <2>2 DEF IsBuffered
<1>5. Flow(b)
  <2>1. b.trans.pos # 0
    BY <1>1, <1>4
  <2>2. Pairs(b)
    BY <1>1, <1>4 DEF Pairs
  <2>. QED BY <1>1, <1>4, <2>1, <2>2 DEF Flow
<1>6. Disk(b)
  BY <1>1, <1>4 DEF Disk
<1>7. /\ dl.file \in Seq(Block) /\ dl.flight \in Seq(Block) /\ dl.buf \in Seq(Block)
      /\ dl.file \o dl.flight \in Seq(Block)
  BY <1>1, Concats DEF Download
<1>8. Whole(b) = Append(Whole(dl), x) /\ Whole(dl) \in Seq(Block)
  <2>1. x \in Block
    BY <1>3
  <2>2. OneMore(dl.file, dl.flight, dl.buf, x)
    BY <1>7, <2>1, WholeNext, Zenon
  <2>. QED BY <1>4, <2>2 DEF Whole, OneMore
<1>9. ASSUME ~Absent, ~WriteFails, ~Unvalidated, dl.open = "good"
      PROVE  Line(Whole(b), b.hdr) /\ Len(Whole(b)) <= Length /\ Len(Whole(b)) + 1 = b.trans.pos
  <2>1. Line(Whole(dl), dl.hdr) /\ Matching(dl)
    BY <1>1, <1>9 DEF Mem, Kept
  <2>2. dl.trans.ver = dl.hdr /\ Len(Whole(dl)) + 1 = dl.trans.pos
    BY <1>1, <1>9, <2>1 DEF Matching
  <2> DEFINE w == Whole(dl)
             v == dl.trans.ver
             p == dl.trans.pos
  <2>3. /\ w \in Seq(Block) /\ v \in 1..MaxVersion /\ p \in 1..Length /\ p = Len(w) + 1
        /\ Line(w, v) /\ Whole(b) = Append(w, <<v, p>>) /\ b.hdr = v /\ b.trans.pos = p + 1
    BY <1>1, <1>2, <1>3, <1>4, <1>8, <2>1, <2>2
  <2> HIDE DEF w, v, p
  <2>4. Line(Append(w, <<v, p>>), v) /\ Len(Append(w, <<v, p>>)) = p
    BY <2>3, LineNext
  <2>. QED BY <2>3, <2>4
<1>10. Mem(b)
  <2>1. ~Absent => Fit(b)
    BY <1>1, <1>4 DEF Mem, Fit
  <2>2. ~Absent /\ ~WriteFails /\ ~Unvalidated => Kept(b)
    BY <1>1, <1>4, <1>9 DEF Mem, Kept
  <2>. QED BY <1>1, <1>4, <2>1, <2>2 DEF Mem
<1>11. ASSUME ~Absent, ~WriteFails, ~Unvalidated
       PROVE  /\ Matching(b) /\ Noted(b) /\ b.enabled
              /\ Len(b.flight) <= BufferSize /\ Len(b.buf) <= BufferSize
  <2>1. Matching(dl) /\ Buffers(dl) /\ Noted(dl)
    BY <1>1, <1>11
  <2>2. Matching(b)
    BY <1>1, <1>4, <1>9, <1>11, <2>1 DEF Matching
  <2>3. Len(b.buf) = Len(dl.buf) + 1 /\ Len(dl.buf) \in Nat /\ BufferSize \in Nat
    BY <1>3, <1>4, <1>7, DownloadConstants
  <2>4. Len(dl.buf) < BufferSize /\ Len(dl.flight) <= BufferSize
    BY <1>1, <2>1 DEF Buffers
  <2>5. Len(b.buf) <= BufferSize
    BY <2>3, <2>4
  <2>6. Noted(b)
    BY <1>4, <2>1 DEF Noted
  <2>. QED BY <1>4, <2>2, <2>4, <2>5, <2>6
<1>. QED BY <1>1, <1>4, <1>5, <1>6, <1>10, <1>11 DEF Ready

(* A buffer that is not full only waits for more. *)
LEMMA NotFullSafe ==
  ASSUME NEW b, Ready(b), Len(b.buf) < BufferSize
  PROVE  Safe(b)
<1>1. Buffers(b) \/ Absent \/ WriteFails \/ Unvalidated
  BY DEF Ready, Buffers
<1>. QED BY <1>1 DEF Ready, Safe, Sync

(* The first block goes straight into the file. *)
LEMMA FirstSafe ==
  ASSUME Inv, First, NEW r, r = Taken(dl), NEW x, x = Piece(dl), NEW q \in Writes(r, <<x>>)
  PROVE  Safe(q)
<1>1. /\ dl \in Download /\ Mem(dl) /\ dl.wait = "none" /\ Flow(dl) /\ Pairs(dl) /\ Disk(dl)
      /\ dl.mode = "on" /\ dl.state = "progress" /\ dl.open # "no"
      /\ ~dl.noMedia /\ dl.trans.ver \in 1..MaxVersion /\ dl.trans.pos \in Nat \ {0}
      /\ dl.trans.ver # 0 /\ dl.trans.pos # 0
      /\ dl.prog \notin {"started", "connecting", "connected"}
      /\ ~Absent /\ ~WriteFails /\ ~Unvalidated => Matching(dl) /\ Buffers(dl) /\ Noted(dl)
      /\ dl.trans.st = "body" /\ dl.trans.pos <= Length
  BY BodyFacts DEF Coming, First
<1>2. dl.trans.pos \in 1..Length
  BY <1>1, DownloadConstants
<1>3. x \in Block /\ x = <<dl.trans.ver, dl.trans.pos>> /\ dl.file \in Seq(Block)
      /\ ~dl.enabled /\ dl.size = 0
  BY <1>1, <1>2 DEF Block, Download, Piece, First
<1> DEFINE u == <<x>>
<1>4. /\ r \in Download /\ r.trans.st = "body" /\ r.trans.ver = dl.trans.ver
      /\ r.trans.pos = dl.trans.pos + 1 /\ r.enabled = TRUE
      /\ r.mode = dl.mode /\ r.state = dl.state /\ r.prog = dl.prog
      /\ r.info = dl.info /\ r.hdr = dl.hdr /\ r.named = dl.named
      /\ r.noMedia = dl.noMedia /\ r.wait = dl.wait /\ Stored(r) = Stored(dl)
  <2>1. dl \in Download
    BY <1>1
  <2>2. /\ r \in Download /\ r.trans.st = dl.trans.st /\ r.trans.ver = dl.trans.ver
        /\ r.trans.pos = dl.trans.pos + 1 /\ r.enabled = TRUE
        /\ r.mode = dl.mode /\ r.state = dl.state /\ r.prog = dl.prog
        /\ r.info = dl.info /\ r.hdr = dl.hdr /\ r.named = dl.named
        /\ r.noMedia = dl.noMedia /\ r.wait = dl.wait /\ Stored(r) = Stored(dl)
    BY <2>1, TakenEffect, ZenonT(60)
  <2>. QED BY <1>1, <2>2
<1>5. r.file = dl.file /\ r.size = 0 /\ r.open = dl.open /\ r.flight = dl.flight /\ r.buf = dl.buf
  BY <1>3, <1>4, SameStored
<1>6. q \in Writes(r, u)
  OBVIOUS
<1>7. u \in Seq(Block) /\ Len(u) = 1 /\ dl.file \o u = Append(dl.file, x)
  <2>1. <<>> \in Seq(Block)
    OBVIOUS
  <2>2. dl.file \o <<x>> = Append(dl.file, x)
    BY <1>3, <2>1, AppendLast
  <2>. QED BY <1>3, <2>2
<1> HIDE DEF u
<1>8. /\ q \in Download /\ r.open = "good" /\ q.open = "good"
      /\ q.file = r.file \o u /\ q.size = r.size + Len(u)
      /\ q.buf = r.buf /\ q.flight = r.flight /\ Fixed(q) = Fixed(r)
  BY <1>4, <1>6, <1>7, WritesEffect, ZenonT(60)
<1>9. /\ q.mode = r.mode /\ q.state = r.state /\ q.prog = r.prog
      /\ q.trans = r.trans /\ q.info = r.info
      /\ q.hdr = r.hdr /\ q.named = r.named /\ q.noMedia = r.noMedia
      /\ q.enabled = r.enabled /\ q.wait = r.wait
  BY <1>8, FixedFields
<1>10. Flow(q)
  <2>1. q.trans.pos # 0
    BY <1>1, <1>4, <1>9
  <2>2. Pairs(q)
    BY <1>1, <1>4, <1>9 DEF Pairs
  <2>. QED BY <1>1, <1>4, <1>8, <1>9, <2>1, <2>2 DEF Flow
<1>11. q.file = Append(dl.file, x) /\ Len(q.file) = Len(dl.file) + 1 /\ q.size = 1
       /\ Len(dl.file) \in Nat
  <2>. QED BY <1>3, <1>5, <1>7, <1>8
<1>12. ASSUME ~Absent PROVE Fit(q) /\ dl.named /\ Len(dl.file) = 0
  <2>1. Fit(dl)
    BY <1>1, <1>12 DEF Mem
  <2>2. dl.named /\ Len(dl.file) = 0
    BY <1>1, <1>3, <2>1 DEF Fit
  <2>. QED BY <1>4, <1>9, <1>11, <2>2 DEF Fit
<1>13. ASSUME ~Absent, ~WriteFails, ~Unvalidated
       PROVE  /\ q.flight = <<>> /\ q.buf = <<>> /\ Whole(q) = q.file
              /\ Line(q.file, q.hdr) /\ Len(q.file) <= Length /\ Len(q.file) + 1 = q.trans.pos
              /\ Noted(q) /\ q.trans.ver = q.hdr
  <2>1. Matching(dl) /\ Buffers(dl) /\ Noted(dl) /\ Kept(dl)
    BY <1>1, <1>13 DEF Mem
  <2>2. dl.flight = <<>> /\ dl.buf = <<>>
    BY <1>3, <2>1 DEF Buffers
  <2>3. Whole(dl) = dl.file
    <3>1. dl.file \o <<>> = dl.file
      BY <1>3, ConcatEmptySeq
    <3>. QED BY <2>2, <3>1 DEF Whole
  <2>4. Whole(q) = q.file
    <3>1. q.file \o <<>> = q.file
      BY <1>8, ConcatEmptySeq DEF Download
    <3>. QED BY <1>5, <1>8, <2>2, <3>1 DEF Whole
  <2>5. dl.open = "good"
    BY <1>5, <1>8
  <2>6. Line(dl.file, dl.hdr)
    BY <2>1, <2>3, <2>5 DEF Kept
  <2>7. dl.trans.ver = dl.hdr /\ Len(dl.file) + 1 = dl.trans.pos
    BY <1>1, <2>1, <2>3, <2>5 DEF Matching
  <2> DEFINE w == dl.file
             v == dl.trans.ver
             p == dl.trans.pos
  <2>8. /\ w \in Seq(Block) /\ v \in 1..MaxVersion /\ p \in 1..Length /\ p = Len(w) + 1
        /\ Line(w, v) /\ q.file = Append(w, <<v, p>>) /\ q.hdr = v /\ q.trans.pos = p + 1
        /\ q.trans.ver = v
    BY <1>1, <1>2, <1>3, <1>4, <1>9, <1>11, <2>6, <2>7
  <2> HIDE DEF w, v, p
  <2>9. Line(Append(w, <<v, p>>), v) /\ Len(Append(w, <<v, p>>)) = p
    BY <2>8, LineNext
  <2>10. Noted(q)
    BY <1>4, <1>9, <2>1 DEF Noted
  <2>. QED BY <1>2, <1>5, <1>8, <2>2, <2>4, <2>8, <2>9, <2>10 DEF p
<1>14. Mem(q)
  <2>1. ASSUME ~Absent, ~WriteFails, ~Unvalidated PROVE Kept(q)
    <3>1. q.file \in Seq(Block) /\ Line(q.file, q.hdr) /\ Whole(q) = q.file /\ Len(q.file) <= Length
      BY <1>8, <1>13, <2>1 DEF Download
    <3>2. Prefix(q.file)
      BY <3>1, LinePrefix
    <3>. QED BY <3>1, <3>2 DEF Kept
  <2>2. q.size <= Len(q.file)
    BY <1>11
  <2>. QED BY <1>8, <1>12, <2>1, <2>2 DEF Mem
<1>15. Disk(q)
  <2>1. q.info = dl.info
    BY <1>4, <1>9
  <2>2. q.info.size <= Len(q.file)
    <3>1. dl.info.size <= Len(dl.file)
      BY <1>1 DEF Disk
    <3>2. dl.info.size \in Nat
      BY <1>1 DEF Download, InfoRecord
    <3>. QED BY <1>11, <2>1, <3>1, <3>2
  <2>3. ASSUME ~Absent, ~WriteFails, ~Unvalidated
        PROVE  /\ Prefix(q.file) /\ Len(q.file) <= Length
               /\ q.info.named => Line(q.file, q.info.hdr)
    BY <1>13, <1>14, <2>3 DEF Mem, Kept, Noted
  <2>. QED BY <1>1, <2>1, <2>2, <2>3 DEF Disk
<1>16. ASSUME ~Absent, ~WriteFails, ~Unvalidated PROVE Matching(q) /\ Buffers(q) /\ Noted(q)
  <2>0. Len(<<>>) = 0 /\ 0 < BufferSize /\ 0 <= BufferSize
    BY DownloadConstants
  <2>1. Buffers(q)
    BY <1>13, <1>16, <2>0 DEF Buffers
  <2>2. q.trans.st = "body"
    BY <1>4, <1>9
  <2>3. Matching(q)
    BY <1>13, <1>16, <2>2 DEF Matching
  <2>. QED BY <1>13, <1>16, <2>1, <2>3
<1>. QED BY <1>8, <1>10, <1>14, <1>15, <1>16 DEF Safe, Sync

LEMMA ResponseBodySafe ==
  ASSUME Inv, ResponseBodyReceivedL
  PROVE  Safe(dl')
<1> DEFINE x == Piece(dl)
           r == Taken(dl)
           b == Buffered(dl, x)
<1>0. Coming
  BY DEF ResponseBodyReceivedL, Coming
<1>1. \/ ~dl.enabled /\ dl.size = 0 /\ dl' \in Writes(r, <<x>>)
      \/ dl' \in OnError(r, "other")
      \/ Len(b.buf) < BufferSize /\ dl' = b
      \/ dl' \in Full(b)
  <2>1. CASE ~dl.enabled /\ dl.size = 0
    BY <2>1 DEF ResponseBodyReceivedL, Taken, Piece
  <2>2. CASE ~(~dl.enabled /\ dl.size = 0)
    BY <2>2 DEF ResponseBodyReceivedL, Taken, Buffered, Piece
  <2>. QED BY <2>1, <2>2
<1>2. /\ dl \in Download /\ Mem(dl) /\ dl.wait = "none" /\ Pairs(dl) /\ pausable \in BOOLEAN
      /\ dl.state = "progress"
  BY <1>0, BodyFacts DEF Coming
<1>3. Ready(b)
  BY <1>0, BufferedReady
<1>4. CASE dl' \in OnError(r, "other")
  <2>1. /\ r \in Download /\ r.hdr = dl.hdr /\ r.named = dl.named /\ r.wait = dl.wait
        /\ r.state = dl.state /\ Stored(r) = Stored(dl)
    BY <1>2, TakenEffect
  <2> HIDE DEF r
  <2>2. Mem(r)
    BY <1>2, <2>1, SameStored, SameMem
  <2>. QED BY <1>2, <1>4, <2>1, <2>2, OnErrorSafe
<1>5. CASE ~dl.enabled /\ dl.size = 0 /\ dl' \in Writes(r, <<x>>)
  BY <1>0, <1>5, FirstSafe DEF First
<1> HIDE DEF b, r
<1>6. CASE Len(b.buf) < BufferSize /\ dl' = b
  BY <1>3, <1>6, NotFullSafe
<1>7. CASE dl' \in Full(b)
  BY <1>2, <1>3, <1>7, FullSafe
<1>. QED BY <1>1, <1>4, <1>5, <1>6, <1>7

(* What is under way gets to the end of the file, at most. *)
LEMMA FlightDisk ==
  ASSUME NEW r \in Download, Disk(r), r.mode = "on", Mem(r), Sync(r), r.open = "good",
         NEW f, f = r.file \o r.flight
  PROVE  /\ f \in Seq(Block) /\ Len(f) = Len(r.file) + Len(r.flight)
         /\ r.info.size <= Len(f)
         /\ ~Absent /\ ~WriteFails /\ ~Unvalidated =>
              /\ Prefix(f) /\ Len(f) <= Length /\ Line(f, r.hdr)
              /\ r.info.named => Line(f, r.info.hdr)
              /\ f \o r.buf = Whole(r)
<1>1. r.file \in Seq(Block) /\ r.flight \in Seq(Block) /\ r.info.size \in Nat
  BY DEF Download, InfoRecord
<1>2. f \in Seq(Block) /\ Len(f) = Len(r.file) + Len(r.flight)
  BY <1>1, ConcatProperties
<1>3. Len(r.file) \in Nat /\ Len(r.flight) \in Nat
  BY <1>1
<1>4. r.info.size <= Len(f)
  <2>1. r.info.size <= Len(r.file)
    BY DEF Disk
  <2>2. \A i, j, k, m \in Nat : k = j + m /\ i <= j => i <= k
    OBVIOUS
  <2>3. Len(f) \in Nat
    BY <1>2, LenProperties, Zenon
  <2>. QED BY <1>1, <1>2, <1>3, <2>1, <2>2, <2>3, Zenon
<1>5. ASSUME ~Absent, ~WriteFails, ~Unvalidated
      PROVE  /\ Prefix(f) /\ Len(f) <= Length /\ Line(f, r.hdr)
             /\ r.info.named => Line(f, r.info.hdr)
             /\ f \o r.buf = Whole(r)
  <2>1. Kept(r) /\ Noted(r)
    BY <1>5 DEF Mem, Sync
  <2>2. Line(Whole(r), r.hdr) /\ Len(Whole(r)) <= Length
    BY <2>1 DEF Kept
  <2>3. Line(r.file \o r.flight, r.hdr) /\ Len(r.file \o r.flight) <= Length
    BY <2>2, WholeParts
  <2>4. Prefix(f)
    BY <1>2, <2>3, LinePrefix
  <2>5. f \o r.buf = Whole(r)
    BY DEF Whole
  <2>. QED BY <2>1, <2>3, <2>4, <2>5 DEF Noted
<1>. QED BY <1>2, <1>4, <1>5

(* A write that ends. *)
LEMMA FinishSafe ==
  ASSUME NEW r \in Download, Safe(r), r.mode = "on", r.flight # <<>>, r.wait # "complete",
         NEW q \in FinishWrite(r)
  PROVE  Safe(q) /\ Fixed(q) = Fixed(r) /\ q.open = r.open /\ q.flight = <<>> /\ q.buf = r.buf
<1>1. Flow(r) /\ Disk(r) /\ Mem(r) /\ Sync(r)
  BY DEF Safe
<1>2. /\ q \in Download /\ Fixed(q) = Fixed(r) /\ q.open = r.open /\ q.buf = r.buf
      /\ q.flight = <<>>
      /\ \/ q.file = r.file /\ q.size = r.size /\ (r.flight = <<>> \/ Fails(r))
         \/ r.open = "good" /\ q.file = r.file \o r.flight /\ q.size = r.size + Len(r.flight)
  BY FinishEffect
<1>3. /\ q.mode = r.mode /\ q.state = r.state /\ q.prog = r.prog /\ q.active = r.active
      /\ q.trans = r.trans /\ q.held = r.held /\ q.info = r.info
      /\ q.hdr = r.hdr /\ q.named = r.named /\ q.noMedia = r.noMedia
      /\ q.enabled = r.enabled /\ q.moving = r.moving /\ q.wait = r.wait
  BY <1>2, FixedFields
<1>4. r.open # "no"
  BY <1>1 DEF Mem
<1>5. Flow(q)
  BY <1>1, <1>2, <1>3 DEF Flow, Pairs, Idle, Still
<1>6. r.file \in Seq(Block) /\ r.flight \in Seq(Block) /\ r.buf \in Seq(Block)
  BY DEF Download
<1>7. ASSUME ~Absent PROVE Fit(q) /\ Fit(r)
  <2>1. Fit(r)
    BY <1>1, <1>7 DEF Mem
  <2>2. r.named /\ r.size = Len(r.file)
    BY <1>4, <2>1 DEF Fit
  <2>3. q.size = Len(q.file)
    <3>1. CASE q.file = r.file /\ q.size = r.size
      BY <2>2, <3>1
    <3>2. CASE q.file = r.file \o r.flight /\ q.size = r.size + Len(r.flight)
      BY <1>6, <2>2, <3>2, ConcatProperties
    <3>. QED BY <1>2, <3>1, <3>2
  <2>. QED BY <1>3, <2>1, <2>2, <2>3 DEF Fit
<1>8. CASE q.file = r.file /\ q.size = r.size /\ (r.open = "bad" \/ WriteFails)
  <2>1. ASSUME ~Absent, ~WriteFails, ~Unvalidated PROVE Kept(q)
    BY <1>1, <1>2, <1>3, <1>8, <2>1 DEF Mem, Kept
  <2>2. Mem(q)
    BY <1>1, <1>2, <1>4, <1>7, <1>8, <2>1 DEF Mem
  <2>3. Disk(q)
    BY <1>1, <1>3, <1>8 DEF Disk
  <2>4. ASSUME ~Absent, ~WriteFails, ~Unvalidated PROVE Matching(q) /\ Buffers(q) /\ Noted(q)
    <3>1. Matching(r) /\ Buffers(r) /\ Noted(r) /\ r.open = "bad"
      BY <1>1, <1>8, <2>4 DEF Sync
    <3>2. Matching(q)
      BY <1>2, <1>3, <1>8, <3>1 DEF Matching
    <3>3. Buffers(q)
      <4>1. Len(<<>>) = 0 /\ 0 <= BufferSize
        BY DownloadConstants
      <4>. QED BY <1>2, <1>3, <3>1, <4>1 DEF Buffers
    <3>4. Noted(q)
      BY <1>3, <3>1 DEF Noted
    <3>. QED BY <3>2, <3>3, <3>4
  <2>. QED BY <1>2, <1>5, <2>2, <2>3, <2>4 DEF Safe, Sync
<1>9. CASE r.open = "good" /\ q.file = r.file \o r.flight /\ q.size = r.size + Len(r.flight)
  <2> DEFINE f == r.file \o r.flight
  <2>1. /\ f \in Seq(Block) /\ Len(f) = Len(r.file) + Len(r.flight)
        /\ r.info.size <= Len(f)
        /\ ~Absent /\ ~WriteFails /\ ~Unvalidated =>
             /\ Prefix(f) /\ Len(f) <= Length /\ Line(f, r.hdr)
             /\ r.info.named => Line(f, r.info.hdr)
             /\ f \o r.buf = Whole(r)
    BY <1>1, <1>9, FlightDisk
  <2>2. q.file = f
    BY <1>9
  <2> HIDE DEF f
  <2>3. ~Absent /\ ~WriteFails /\ ~Unvalidated => Whole(q) = Whole(r)
    <3>1. f \o <<>> = f
      BY <2>1, ConcatEmptySeq
    <3>. QED BY <1>2, <2>1, <2>2, <3>1 DEF Whole
  <2>4. ASSUME ~Absent, ~WriteFails, ~Unvalidated PROVE Kept(q)
    <3>1. Kept(r)
      BY <1>1, <2>4 DEF Mem
    <3>. QED BY <1>2, <1>3, <1>9, <2>1, <2>2, <2>3, <2>4, <3>1 DEF Kept
  <2>8. q.size <= Len(q.file)
    <3>1. r.size <= Len(r.file) /\ r.size \in Nat /\ Len(r.file) \in Nat /\ Len(r.flight) \in Nat
      BY <1>1, <1>6 DEF Mem, Download
    <3>2. q.size = r.size + Len(r.flight) /\ Len(q.file) = Len(r.file) + Len(r.flight)
      BY <1>9, <2>1, <2>2
    <3>3. \A i, j, k \in Nat : i <= j => i + k <= j + k
      OBVIOUS
    <3>4. r.size + Len(r.flight) <= Len(r.file) + Len(r.flight)
      BY <3>1, <3>3, Zenon
    <3>. QED BY <3>2, <3>4, Zenon
  <2>5. Mem(q)
    BY <1>2, <1>4, <1>7, <2>4, <2>8 DEF Mem
  <2>6. Disk(q)
    BY <1>1, <1>3, <2>1, <2>2 DEF Disk
  <2>7. ASSUME ~Absent, ~WriteFails, ~Unvalidated PROVE Matching(q) /\ Buffers(q) /\ Noted(q)
    <3>1. Matching(r) /\ Buffers(r) /\ Noted(r)
      BY <1>1, <2>7 DEF Sync
    <3>2. Matching(q)
      <4>1. q.trans.st # "asked"
        BY <1>1, <1>3, <1>4 DEF Flow
      <4>. QED BY <1>2, <1>3, <2>3, <2>7, <3>1, <4>1 DEF Matching
    <3>3. Buffers(q)
      <4>1. Len(<<>>) = 0 /\ 0 <= BufferSize
        BY DownloadConstants
      <4>. QED BY <1>2, <1>3, <3>1, <4>1 DEF Buffers
    <3>4. Noted(q)
      BY <1>3, <3>1 DEF Noted
    <3>. QED BY <3>2, <3>3, <3>4
  <2>. QED BY <1>2, <1>5, <2>5, <2>6, <2>7 DEF Safe, Sync
<1>. QED BY <1>2, <1>8, <1>9 DEF Fails, WriteFails

LEMMA WriteDoneSafe ==
  ASSUME Inv, WriteDone
  PROVE  Safe(dl')
<1>1. /\ dl \in Download /\ Safe(dl) /\ dl.mode = "on" /\ dl.flight # <<>>
      /\ dl.wait # "complete" /\ pausable \in BOOLEAN
  BY DEF Inv, Safe, WriteDone, On, EnvTypes
<1>2. \/ dl' \in FinishWrite(dl)
      \/ dl.wait = "part" /\ \E q \in FinishWrite(dl) : dl' \in Full(q)
  BY DEF WriteDone
<1>3. ASSUME NEW q \in FinishWrite(dl), dl.wait = "part", dl' \in Full(q)
      PROVE  Safe(dl')
  <2>1. /\ Safe(q) /\ Fixed(q) = Fixed(dl) /\ q.open = dl.open /\ q.flight = <<>>
        /\ q.buf = dl.buf
    BY <1>1, FinishSafe
  <2>2. q.mode = "on" /\ q.wait = "part" /\ q.enabled = dl.enabled
    BY <1>1, <1>3, <2>1, FixedFields
  <2>3. Flow(dl) /\ Mem(dl) /\ Sync(dl)
    BY <1>1 DEF Safe
  <2>4. Flow(q) /\ Disk(q) /\ Mem(q) /\ Sync(q) /\ q \in Download
    BY <2>1, <2>2 DEF Safe
  <2>5. q.state = "progress" /\ q.open # "no"
    BY <1>1, <2>1, <2>2, <2>3, <2>4 DEF Flow, Mem
  <2>6. ASSUME ~Absent, ~WriteFails, ~Unvalidated
        PROVE  /\ Matching(q) /\ Noted(q) /\ q.enabled
               /\ Len(q.flight) <= BufferSize /\ Len(q.buf) <= BufferSize
    <3>1. Buffers(dl) /\ Matching(q) /\ Buffers(q) /\ Noted(q)
      BY <2>3, <2>4, <2>6 DEF Sync
    <3>2. dl.enabled = TRUE
      <4>1. dl.enabled \in BOOLEAN
        BY <1>1 DEF Download
      <4>. QED BY <1>1, <3>1, <4>1 DEF Buffers
    <3>. QED BY <2>2, <3>1, <3>2 DEF Buffers
  <2>7. Ready(q)
    BY <2>2, <2>4, <2>5, <2>6 DEF Ready
  <2>. QED BY <1>1, <1>3, <2>7, FullSafe
<1>4. CASE dl' \in FinishWrite(dl)
  BY <1>1, <1>4, FinishSafe
<1>. QED BY <1>2, <1>3, <1>4

LEMMA SucceededSafe ==
  ASSUME Inv, Succeeded
  PROVE  Safe(dl')
<1>1. /\ dl \in Download /\ Mem(dl) /\ dl.mode = "on" /\ dl.open # "no" /\ ~dl.noMedia
      /\ dl.trans.ver # 0 /\ dl.trans.pos # 0
      /\ ~Absent /\ ~WriteFails /\ ~Unvalidated => Matching(dl) /\ Buffers(dl) /\ Noted(dl)
  BY BodyFacts DEF Succeeded
<1>. QED BY <1>1, OnCompletedSafe DEF Succeeded

LEMMA CompletedSafe ==
  ASSUME Inv, Completed
  PROVE  Safe(dl')
<1>1. dl \in Download /\ Flow(dl) /\ Mem(dl) /\ dl.mode = "on" /\ dl.wait = "complete"
  BY DEF Inv, Safe, Completed, On
<1>2. /\ Pairs(dl) /\ ~dl.noMedia
      /\ dl.state = "progress" \/ (dl.state = "completed" /\ Still(dl))
  BY <1>1 DEF Flow
<1>3. PICK p \in CloseDestinationFile(dl) :
        dl' = StoreDownloadInfoL([CancelTransaction(p) EXCEPT !.wait = "none"])
  BY DEF Completed
<1> DEFINE c == CancelTransaction(p)
           n == [c EXCEPT !.wait = "none"]
<1>4. /\ p \in Download /\ Fixed(p) = Fixed(dl) /\ p.open = "no" /\ Closed(p, dl)
      /\ dl.open # "no" => p.flight = <<>> /\ p.buf = <<>>
      /\ dl.open = "no" => p = dl
  BY <1>1, CloseEffect
<1>5. /\ p.state = dl.state /\ p.prog = dl.prog /\ p.active = dl.active /\ p.held = dl.held
      /\ p.hdr = dl.hdr /\ p.named = dl.named /\ p.noMedia = dl.noMedia /\ p.moving = dl.moving
  BY <1>4, FixedFields
<1>6. Mem(p) /\ p.flight = <<>> /\ p.buf = <<>>
  BY <1>1, <1>4, <1>5, ClosedMem
<1>7. /\ c \in Download /\ c.trans = NoTrans /\ c.held = p.held
      /\ c.state = p.state /\ c.prog = p.prog /\ c.active = p.active
      /\ Stored(c) = Stored(p) /\ Named(c) = Named(p) /\ c.moving = p.moving
  BY <1>4, CancelEffect, SameRest
<1>8. dl' = StoreDownloadInfoL(n)
  BY <1>3
<1> HIDE DEF c
<1>9. /\ n \in Download /\ n.wait = "none" /\ n.trans = c.trans /\ n.held = c.held
      /\ n.state = c.state /\ n.prog = c.prog /\ n.active = c.active /\ n.moving = c.moving
      /\ Stored(n) = Stored(c) /\ Named(n) = Named(c)
  BY <1>7 DEF Download, Stored, Named
<1> HIDE DEF n
<1>10. /\ n.file = p.file /\ n.size = p.size /\ n.open = p.open /\ n.flight = p.flight
       /\ n.buf = p.buf /\ n.hdr = p.hdr /\ n.named = p.named /\ n.noMedia = p.noMedia
  BY <1>7, <1>9, SameStored, SameNamed
<1>11. Mem(n)
  BY <1>6, <1>10, SameMem
<1>12. Pairs(n)
  BY <1>2, <1>5, <1>7, <1>9 DEF Pairs
<1>13. CASE n.state # "progress"
  <2>1. Idle(n)
    BY <1>2, <1>4, <1>5, <1>7, <1>9, <1>10, <1>13 DEF Idle, Still
  <2>. QED BY <1>8, <1>9, <1>11, <1>12, <1>13, <2>1, QuietStoreSafe
<1>14. CASE n.state = "progress"
  <2> DEFINE q == dl'
  <2>1. /\ q \in Download
        /\ q.info = Info(n) /\ q.mode = n.mode /\ q.state = n.state /\ q.prog = n.prog
        /\ Stored(q) = Stored(n) /\ Link(q) = Link(n) /\ Named(q) = Named(n) /\ Rest(q) = Rest(n)
    BY <1>8, <1>9, StoreEffect
  <2> HIDE DEF q
  <2>2. /\ q.file = n.file /\ q.size = n.size /\ q.open = n.open /\ q.flight = n.flight
        /\ q.buf = n.buf /\ q.hdr = n.hdr /\ q.named = n.named /\ q.noMedia = n.noMedia
        /\ q.trans = n.trans /\ q.wait = n.wait
    BY <2>1, SameStored, SameLink, SameNamed, SameRest
  <2>3. Mem(q)
    BY <1>11, <2>2, SameMem
  <2>4. Pairs(q)
    BY <1>12, <2>1 DEF Pairs
  <2>5. q.info = Info(q)
    BY <2>1, <2>2 DEF Info
  <2>6. Disk(q) /\ Noted(q)
    BY <2>1, <2>3, <2>4, <2>5, NotedDisk
  <2>7. q.trans = NoTrans /\ q.open = "no" /\ q.wait = "none" /\ ~q.noMedia /\ q.state = "progress"
    BY <1>2, <1>4, <1>5, <1>7, <1>9, <1>10, <1>14, <2>1, <2>2
  <2>8. Flow(q)
    BY <2>4, <2>7 DEF Flow, NoTrans
  <2>9. q.flight = <<>> /\ q.buf = <<>>
    BY <1>6, <1>10, <2>2
  <2>10. Sync(q)
    BY <2>1, <2>6, <2>7, <2>9, QuietSync
  <2>11. Safe(q)
    BY <2>1, <2>3, <2>6, <2>8, <2>10 DEF Safe
  <2>. QED BY <2>11 DEF q
<1>. QED BY <1>13, <1>14

LEMMA TransactionFailedSafe ==
  ASSUME Inv, NEW error \in {"other", "partial"}, TransactionFailed(error)
  PROVE  Safe(dl')
<1>1. /\ dl \in Download /\ Mem(dl) /\ dl.wait = "none" /\ Pairs(dl) /\ pausable \in BOOLEAN
  BY Begins DEF TransactionFailed
<1>. QED BY <1>1, OnErrorSafe DEF TransactionFailed

LEMMA TransactionClosedSafe ==
  ASSUME Inv, TransactionClosed
  PROVE  Safe(dl')
<1>1. /\ dl \in Download /\ Flow(dl) /\ Mem(dl) /\ Disk(dl) /\ Sync(dl) /\ dl.wait = "none"
      /\ dl' = CancelTransaction(dl)
  BY Begins DEF TransactionClosed
<1>2. /\ dl' \in Download /\ dl'.trans = NoTrans /\ dl'.held = dl.held
      /\ dl'.info = dl.info /\ dl'.mode = dl.mode /\ dl'.state = dl.state /\ dl'.prog = dl.prog
      /\ dl'.active = dl.active
      /\ Stored(dl') = Stored(dl) /\ Named(dl') = Named(dl) /\ Rest(dl') = Rest(dl)
  BY <1>1, CancelEffect
<1> DEFINE q == dl'
<1>3. /\ q.file = dl.file /\ q.size = dl.size /\ q.open = dl.open /\ q.flight = dl.flight
      /\ q.buf = dl.buf /\ q.hdr = dl.hdr /\ q.named = dl.named /\ q.noMedia = dl.noMedia
      /\ q.enabled = dl.enabled /\ q.moving = dl.moving /\ q.wait = dl.wait
  BY <1>2, SameStored, SameNamed, SameRest
<1>4. /\ q \in Download /\ q.trans = NoTrans /\ q.held = dl.held
      /\ q.info = dl.info /\ q.mode = dl.mode /\ q.state = dl.state /\ q.prog = dl.prog
      /\ q.active = dl.active
  BY <1>2
<1> HIDE DEF q
<1>5. Mem(q)
  BY <1>1, <1>3, SameMem
<1>6. Flow(q)
  BY <1>1, <1>3, <1>4 DEF Flow, Pairs, Idle, Still, NoTrans
<1>7. Disk(q)
  BY <1>1, <1>3, <1>4 DEF Disk
<1>8. Sync(q)
  BY <1>1, <1>3, <1>4 DEF Sync, Matching, NoTrans, Buffers, Noted
<1>9. Safe(q)
  BY <1>4, <1>5, <1>6, <1>7, <1>8 DEF Safe
<1>. QED BY <1>9 DEF q

-----------------------------------------------------------------------------
(* The card, the content, the process                                       *)

LEMMA CardChangesSafe ==
  ASSUME Inv, CardChanges
  PROVE  Safe(dl')
<1> DEFINE o == IF dl.open = "good" THEN "bad" ELSE dl.open
           q == [dl EXCEPT !.open = o]
<1>1. dl' = q
  BY DEF CardChanges
<1>2. dl \in Download /\ Flow(dl) /\ Disk(dl) /\ (dl.mode = "on" => Mem(dl) /\ Sync(dl))
  BY DEF Inv, Safe
<1>3. o \in {"no", "bad"} /\ (o = "no" <=> dl.open = "no")
  BY <1>2 DEF Download
<1> HIDE DEF o
<1>4. /\ q \in Download /\ q.open = o /\ q.mode = dl.mode /\ q.state = dl.state /\ q.prog = dl.prog
      /\ q.active = dl.active /\ q.trans = dl.trans /\ q.held = dl.held /\ q.info = dl.info
      /\ q.file = dl.file /\ q.size = dl.size /\ q.flight = dl.flight /\ q.buf = dl.buf
      /\ q.hdr = dl.hdr /\ q.named = dl.named /\ q.noMedia = dl.noMedia
      /\ q.enabled = dl.enabled /\ q.moving = dl.moving /\ q.wait = dl.wait
  BY <1>2, <1>3 DEF Download
<1> HIDE DEF q
<1>5. Flow(q)
  BY <1>2, <1>3, <1>4 DEF Flow, Pairs, Idle, Still
<1>6. Disk(q)
  BY <1>2, <1>4 DEF Disk
<1>7. Mem(dl) => Mem(q)
  BY <1>3, <1>4 DEF Mem, Fit, Kept
<1>8. Sync(dl) => Sync(q)
  BY <1>3, <1>4 DEF Sync, Matching, Buffers, Noted
<1>9. Bounded(q)
  BY <1>2, <1>4, SafeBounds, SameBounds DEF Inv
<1>. QED BY <1>1, <1>2, <1>4, <1>5, <1>6, <1>7, <1>8, <1>9 DEF Inv, Safe

LEMMA MediaFlag ==
  ASSUME NEW r \in Download, NEW m \in BOOLEAN, NEW q, q = [r EXCEPT !.noMedia = m]
  PROVE  /\ q \in Download /\ q.noMedia = m /\ q.mode = r.mode /\ q.state = r.state
         /\ q.prog = r.prog /\ q.active = r.active /\ q.info = r.info
         /\ q.hdr = r.hdr /\ q.named = r.named
         /\ Stored(q) = Stored(r) /\ Link(q) = Link(r) /\ Rest(q) = Rest(r)
BY DEF Download, Stored, Link, Rest

(* A card that is back is only noted. *)
LEMMA MediaBackSafe ==
  ASSUME NEW r \in Download, Safe(r), NEW q, q = [r EXCEPT !.noMedia = FALSE]
  PROVE  Safe(q)
<1>1. /\ q \in Download /\ q.noMedia = FALSE /\ q.mode = r.mode /\ q.state = r.state
      /\ q.prog = r.prog /\ q.active = r.active /\ q.info = r.info
      /\ q.hdr = r.hdr /\ q.named = r.named
      /\ Stored(q) = Stored(r) /\ Link(q) = Link(r) /\ Rest(q) = Rest(r)
  BY MediaFlag, ZenonT(60)
<1>2. /\ q.file = r.file /\ q.size = r.size /\ q.open = r.open /\ q.flight = r.flight
      /\ q.buf = r.buf /\ q.trans = r.trans /\ q.held = r.held
      /\ q.enabled = r.enabled /\ q.moving = r.moving /\ q.wait = r.wait
  BY <1>1, SameStored, SameLink, SameRest
<1>3. Flow(q)
  BY <1>1, <1>2 DEF Safe, Flow, Pairs, Idle, Still
<1>4. Disk(q)
  BY <1>1, <1>2 DEF Safe, Disk
<1>5. Mem(r) => Mem(q)
  BY <1>1, <1>2, SameMem
<1>6. Sync(r) => Sync(q)
  BY <1>1, <1>2 DEF Sync, Matching, Buffers, Noted, Whole
<1>7. Bounded(q)
  BY <1>2, SafeBounds, SameBounds
<1>. QED BY <1>1, <1>3, <1>4, <1>5, <1>6, <1>7 DEF Safe

LEMMA MMCModeSafe ==
  ASSUME Inv, MMCModeChanged
  PROVE  Safe(dl')
<1> DEFINE n == [dl EXCEPT !.noMedia = TRUE]
<1>1. /\ dl \in Download /\ Mem(dl) /\ Flow(dl) /\ Pairs(dl)
      /\ dl.mode = "on" /\ pausable \in BOOLEAN /\ Safe(dl)
      /\ card \/ dl.wait = "none"
      /\ dl.wait = "none" /\ dl.state # "progress" => Idle(dl)
  BY DEF MMCModeChanged, Inv, Safe, Free, Served, On, Flow, EnvTypes
<1>2. \/ dl' = [dl EXCEPT !.noMedia = FALSE]
      \/ dl' = dl
      \/ /\ dl.wait = "none"
         /\ \E p \in InternalPauseL(n) :
              \/ p.state = "progress" /\ \E q \in OnError(p, "media") : dl' = StoreDownloadInfoL(q)
              \/ p.state # "progress" /\ dl' = StoreDownloadInfoL(p)
  <2>1. CASE card
    BY <2>1 DEF MMCModeChanged
  <2>2. CASE ~card /\ dl.noMedia
    BY <2>2 DEF MMCModeChanged
  <2>3. CASE ~card /\ ~dl.noMedia
    <3>1. dl' \in {StoreDownloadInfoL(q) : q \in
                     UNION {IF p.state = "progress" THEN OnError(p, "media") ELSE {p} :
                              p \in InternalPauseL(n)}}
      BY <1>1, <2>3 DEF MMCModeChanged
    <3>2. PICK q \in UNION {IF p.state = "progress" THEN OnError(p, "media") ELSE {p} :
                              p \in InternalPauseL(n)} : dl' = StoreDownloadInfoL(q)
      BY <3>1
    <3> HIDE DEF n
    <3>3. PICK p \in InternalPauseL(n) : q \in IF p.state = "progress" THEN OnError(p, "media") ELSE {p}
      BY <3>2, Zenon
    <3>. QED BY <1>1, <2>3, <3>2, <3>3
  <2>. QED BY <2>1, <2>2, <2>3
<1>3. /\ n \in Download /\ n.mode = dl.mode /\ n.state = dl.state
      /\ n.prog = dl.prog /\ n.active = dl.active /\ n.info = dl.info
      /\ n.hdr = dl.hdr /\ n.named = dl.named
      /\ Stored(n) = Stored(dl) /\ Link(n) = Link(dl) /\ Rest(n) = Rest(dl)
  BY <1>1 DEF Download, Stored, Link, Rest
<1> HIDE DEF n
<1>4. Mem(n)
  BY <1>1, <1>3, SameStored, SameMem
<1>5. n.wait = dl.wait /\ n.held = dl.held /\ n.moving = dl.moving
  BY <1>3, SameLink, SameRest
<1>6. ASSUME NEW p \in InternalPauseL(n), dl.wait = "none",
             \/ p.state = "progress" /\ \E q \in OnError(p, "media") : dl' = StoreDownloadInfoL(q)
             \/ p.state # "progress" /\ dl' = StoreDownloadInfoL(p)
      PROVE  Safe(dl')
  <2>1. /\ p \in Download /\ p.trans = NoTrans /\ p.open = "no" /\ Closed(p, n)
        /\ p.mode = n.mode /\ p.state = n.state /\ p.prog = n.prog /\ p.active = n.active
        /\ p.held = n.held /\ p.info = n.info /\ Named(p) = Named(n) /\ Rest(p) = Rest(n)
        /\ n.open # "no" => p.flight = <<>> /\ p.buf = <<>>
        /\ n.open = "no" => p.flight = n.flight /\ p.buf = n.buf
    BY <1>3, InternalPauseEffect
  <2>2. p.hdr = n.hdr /\ p.named = n.named /\ p.wait = n.wait /\ p.moving = n.moving
    BY <2>1, SameNamed, SameRest
  <2>3. Mem(p)
    BY <1>3, <1>4, <2>1, <2>2, ClosedMem
  <2>4. Pairs(p)
    BY <1>1, <1>3, <2>1 DEF Pairs
  <2>5. ASSUME NEW q \in OnError(p, "media"), p.state = "progress", dl' = StoreDownloadInfoL(q)
        PROVE  Safe(dl')
    <3>1. Safe(q) /\ Halted(q, p)
      BY <1>1, <1>5, <1>6, <2>1, <2>2, <2>3, <2>4, <2>5, OnErrorSafe, OnErrorEffect
    <3>2. /\ q \in Download /\ q.mode = p.mode /\ q.active = FALSE /\ q.trans = NoTrans
          /\ Keeps(q.held, q.state) /\ q.open = "no" /\ Rest(q) = Rest(p)
          /\ q.state \in {"paused", "failed"}
      BY <2>5, <3>1 DEF Halted
    <3>3. q.wait = "none"
      BY <1>5, <1>6, <2>2, <3>2, SameRest
    <3>4. Mem(q) /\ Pairs(q)
      BY <1>1, <1>3, <2>1, <3>1, <3>2 DEF Safe, Flow
    <3>5. Idle(q)
      BY <3>2 DEF Idle, Still
    <3>. QED BY <2>5, <3>2, <3>3, <3>4, <3>5, QuietStoreSafe
  <2>6. ASSUME p.state # "progress", dl' = StoreDownloadInfoL(p)
        PROVE  Safe(dl')
    <3>1. Idle(dl)
      BY <1>1, <1>3, <1>6, <2>1, <2>6
    <3>2. Idle(p)
      BY <1>3, <1>5, <2>1, <2>2, <3>1 DEF Idle, Still
    <3>. QED BY <1>1, <1>5, <1>6, <2>1, <2>2, <2>3, <2>4, <2>6, <3>2, QuietStoreSafe
  <2>. QED BY <1>6, <2>5, <2>6
<1>7. CASE dl' = [dl EXCEPT !.noMedia = FALSE]
  BY <1>1, <1>7, MediaBackSafe
<1>8. CASE dl' = dl
  BY <1>1, <1>8
<1>. QED BY <1>2, <1>6, <1>7, <1>8

LEMMA ObjectType ==
  ASSUME NEW f \in Seq(Block), NEW i \in InfoRecord
  PROVE  /\ Object(f, i) \in Download
         /\ Object(f, i).file = f /\ Object(f, i).info = i
<1>1. NoTrans \in Transactions /\ <<>> \in Seq(Block) /\ 0 \in 0..MaxVersion
  BY DownloadConstants DEF NoTrans, Transactions
<1>2. "none" \in Progs /\ "created" \in States /\ "on" \in Modes
  BY NotBusy DEF Modes
<1>. QED BY <1>1, <1>2 DEF Object, Download

IsOff(q, f, i) ==
  /\ q \in Download /\ q.mode = "off" /\ q.file = f /\ q.info = i
  /\ q.state = "created" /\ q.prog = "none" /\ q.trans = NoTrans
  /\ q.size = 0 /\ q.flight = <<>> /\ q.buf = <<>>

LEMMA OffEffect ==
  ASSUME NEW f \in Seq(Block), NEW i \in InfoRecord, NEW q,
         q = [Object(f, i) EXCEPT !.mode = "off"]
  PROVE  IsOff(q, f, i)
<1> DEFINE o == Object(f, i)
<1>1. o \in Download /\ o.file = f /\ o.info = i
  BY ObjectType
<1>2. /\ o.state = "created" /\ o.prog = "none" /\ o.trans = NoTrans
      /\ o.size = 0 /\ o.flight = <<>> /\ o.buf = <<>>
  BY DEF Object
<1>3. q = [o EXCEPT !.mode = "off"] /\ "off" \in Modes
  BY DEF Modes
<1> HIDE DEF o
<1>. QED BY <1>1, <1>2, <1>3, ZenonT(60) DEF Download, IsOff

LEMMA CrashSafe ==
  ASSUME Inv, Crash
  PROVE  Safe(dl')
<1>1. /\ dl \in Download /\ Disk(dl) /\ Mem(dl) /\ Sync(dl) /\ dl.mode = "on"
  BY DEF Inv, Safe, Crash, On
<1>2. PICK f \in {dl.file} \cup {q.file : q \in Writes(dl, dl.flight)} :
        dl' = [Object(f, dl.info) EXCEPT !.mode = "off"]
  BY DEF Crash
<1>3. dl.file \in Seq(Block) /\ dl.flight \in Seq(Block) /\ dl.info \in InfoRecord
  BY <1>1 DEF Download
<1>4. f = dl.file \/ (dl.open = "good" /\ f = dl.file \o dl.flight)
  <2>1. ASSUME NEW q \in Writes(dl, dl.flight) PROVE dl.open = "good" /\ q.file = dl.file \o dl.flight
    BY <1>1, <1>3, WritesEffect
  <2>. QED BY <2>1
<1>5. /\ f \in Seq(Block)
      /\ dl.info.size <= Len(f)
      /\ ~Absent /\ ~WriteFails /\ ~Unvalidated =>
           /\ Prefix(f) /\ Len(f) <= Length
           /\ dl.info.named => Line(f, dl.info.hdr)
  <2>1. CASE f = dl.file
    BY <1>1, <1>3, <2>1 DEF Disk
  <2>2. CASE dl.open = "good" /\ f = dl.file \o dl.flight
    BY <1>1, <2>2, FlightDisk
  <2>. QED BY <1>4, <2>1, <2>2
<1> DEFINE q == dl'
<1>6. /\ q \in Download /\ q.mode = "off" /\ q.file = f /\ q.info = dl.info
      /\ q.state = "created" /\ q.prog = "none" /\ q.trans = NoTrans
      /\ q.size = 0 /\ q.flight = <<>> /\ q.buf = <<>>
  <2>1. f \in Seq(Block)
    BY <1>5
  <2>2. IsOff(dl', f, dl.info)
    BY <1>2, <1>3, <2>1, OffEffect, Zenon
  <2>. QED BY <2>2 DEF IsOff
<1> HIDE DEF q
<1>7. Disk(q)
  BY <1>1, <1>5, <1>6 DEF Disk
<1>8. Flow(q)
  BY <1>6 DEF Flow, Pairs, Busy, NoTrans
<1>9. Bounded(q)
  <2>1. Len(<<>>) = 0 /\ 0 <= Length /\ 0 <= BufferSize
    BY DownloadConstants
  <2>. QED BY <1>6, <2>1 DEF Bounded
<1>10. Safe(q)
  BY <1>6, <1>7, <1>8, <1>9 DEF Safe
<1>. QED BY <1>10 DEF q

(* What a restart makes of the two files. *)
Restored(r) ==
  /\ r \in Download /\ r.mode = "on" /\ r.open = "no" /\ r.trans = NoTrans
  /\ r.state # "progress" => Keeps(r.held, r.state)
  /\ r.active = FALSE /\ r.flight = <<>> /\ r.buf = <<>> /\ r.wait = "none"
  /\ Pairs(r) /\ Disk(r) /\ Noted(r) /\ r.info.size <= r.size /\ r.size <= Len(r.file)
  /\ ~Absent /\ ~r.named => r.size = 0
  /\ ~Absent /\ ~WriteFails /\ ~Unvalidated =>
       Prefix(r.file) /\ Len(r.file) <= Length /\ (r.named => Line(r.file, r.hdr))

LEMMA RestoredMem ==
  ASSUME NEW r, Restored(r), ~Absent /\ r.named => r.size = Len(r.file)
  PROVE  Mem(r)
<1>1. ~Absent => Fit(r)
  BY DEF Restored, Fit
<1>2. ~Absent /\ ~WriteFails /\ ~Unvalidated => Kept(r)
  BY DEF Restored, Kept
<1>. QED BY <1>1, <1>2 DEF Restored, Mem

LEMMA RestoredSafe ==
  ASSUME NEW r, Restored(r), ~Absent /\ r.named => r.size = Len(r.file), r.state # "progress"
  PROVE  Safe(r)
<1>1. Mem(r)
  BY RestoredMem
<1>2. Flow(r)
  BY DEF Restored, Flow, Idle, Still, NoTrans, Pairs, Busy
<1>3. Sync(r)
  BY QuietSync DEF Restored
<1>. QED BY <1>1, <1>2, <1>3 DEF Restored, Safe

LEMMA RestoredMedia ==
  ASSUME NEW r, Restored(r), NEW m \in BOOLEAN, NEW q, q = [r EXCEPT !.noMedia = m]
  PROVE  /\ Restored(q) /\ q.state = r.state /\ q.prog = r.prog /\ q.named = r.named
         /\ q.file = r.file /\ q.size = r.size /\ q.hdr = r.hdr
<1>1. r \in Download
  BY DEF Restored
<1>2. /\ q \in Download /\ q.noMedia = m /\ q.mode = r.mode /\ q.state = r.state
      /\ q.prog = r.prog /\ q.active = r.active /\ q.info = r.info
      /\ q.hdr = r.hdr /\ q.named = r.named
      /\ Stored(q) = Stored(r) /\ Link(q) = Link(r) /\ Rest(q) = Rest(r)
  BY <1>1, MediaFlag
<1>3. /\ q.file = r.file /\ q.size = r.size /\ q.open = r.open /\ q.flight = r.flight
      /\ q.buf = r.buf /\ q.trans = r.trans /\ q.held = r.held /\ q.wait = r.wait
  BY <1>2, SameStored, SameLink, SameRest
<1>4. Pairs(q) /\ Disk(q) /\ Noted(q)
  BY <1>2, <1>3 DEF Restored, Pairs, Disk, Noted
<1>. QED BY <1>2, <1>3, <1>4 DEF Restored

(* A file that is cut is still a beginning. *)
LEMMA CutLine ==
  ASSUME NEW s \in Seq(Block), NEW n \in Nat, n <= Len(s), NEW c, c = SubSeq(s, 1, n)
  PROVE  /\ c \in Seq(Block) /\ Len(c) = n
         /\ Prefix(s) => Prefix(c)
         /\ \A v : Line(s, v) => Line(c, v)
<1>1. Len(s) \in Nat /\ DOMAIN s = 1..Len(s)
  OBVIOUS
<1>2. \A i \in 1..n : i \in 1..Len(s) /\ s[i] \in Block
  BY <1>1
<1>3. c \in Seq(Block) /\ Len(c) = n /\ \A i \in 1..n : c[i] = s[i]
  BY <1>1
<1>4. DOMAIN c = 1..n
  BY <1>3
<1>5. Prefix(s) => Prefix(c)
  BY <1>1, <1>2, <1>3, <1>4 DEF Prefix
<1>6. \A v : Line(s, v) => Line(c, v)
  BY <1>2, <1>3 DEF Line
<1>. QED BY <1>3, <1>5, <1>6

(* The size counted anew. *)
LEMMA RestoredSized ==
  ASSUME NEW r, Restored(r), r.named, NEW q, q = [r EXCEPT !.size = Len(r.file)]
  PROVE  Restored(q) /\ q.state = r.state /\ q.size = Len(q.file)
<1> DEFINE n == Len(r.file)
<1>1. /\ r \in Download /\ r.file \in Seq(Block) /\ r.size \in Nat /\ r.info.size \in Nat
      /\ r.info.size <= r.size /\ r.size <= Len(r.file)
  BY DEF Restored, Download, InfoRecord
<1>2. n \in Nat /\ r.info.size <= n /\ n <= n
  BY <1>1
<1>4. q = [r EXCEPT !.size = n]
  OBVIOUS
<1> HIDE DEF n
<1>5. /\ q \in Download /\ q.size = n /\ q.file = r.file /\ q.mode = r.mode /\ q.state = r.state
      /\ q.prog = r.prog /\ q.active = r.active /\ q.info = r.info /\ q.hdr = r.hdr
      /\ q.named = r.named /\ q.open = r.open /\ q.trans = r.trans /\ q.held = r.held
      /\ q.flight = r.flight /\ q.buf = r.buf /\ q.wait = r.wait
  BY <1>1, <1>2, <1>4, ZenonT(60) DEF Download
<1>6. Pairs(q) /\ Disk(q) /\ Noted(q)
  BY <1>5, ZenonT(60) DEF Restored, Pairs, Disk, Noted
<1>. QED BY <1>2, <1>5, <1>6 DEF Restored, n

(* The file cut to the size noted. *)
LEMMA RestoredCut ==
  ASSUME NEW r, Restored(r), NEW q,
         q = [r EXCEPT !.file = SubSeq(r.file, 1, r.size), !.noMedia = FALSE]
  PROVE  Restored(q) /\ q.state = r.state /\ q.size = Len(q.file)
<1> DEFINE c == SubSeq(r.file, 1, r.size)
<1>1. /\ r \in Download /\ r.file \in Seq(Block) /\ r.size \in Nat /\ r.info.size \in Nat
      /\ r.info.size <= r.size /\ r.size <= Len(r.file)
  BY DEF Restored, Download, InfoRecord
<1>2. /\ c \in Seq(Block) /\ Len(c) = r.size
      /\ Prefix(r.file) => Prefix(c)
      /\ \A v : Line(r.file, v) => Line(c, v)
  <2> DEFINE s == r.file
             n == r.size
  <2>1. s \in Seq(Block) /\ n \in Nat /\ n <= Len(s) /\ c = SubSeq(s, 1, n)
    BY <1>1
  <2> HIDE DEF c, s, n
  <2>2. /\ c \in Seq(Block) /\ Len(c) = n
        /\ Prefix(s) => Prefix(c)
        /\ \A v : Line(s, v) => Line(c, v)
    BY <2>1, CutLine
  <2>. QED BY <2>2 DEF s, n
<1>3. q = [r EXCEPT !.file = c, !.noMedia = FALSE]
  OBVIOUS
<1> HIDE DEF c
<1>4. /\ q \in Download /\ q.size = r.size /\ q.file = c /\ q.mode = r.mode /\ q.state = r.state
      /\ q.prog = r.prog /\ q.active = r.active /\ q.info = r.info /\ q.hdr = r.hdr
      /\ q.named = r.named /\ q.open = r.open /\ q.trans = r.trans /\ q.held = r.held
      /\ q.flight = r.flight /\ q.buf = r.buf /\ q.wait = r.wait
  BY <1>1, <1>2, <1>3, ZenonT(60) DEF Download
<1>5. Pairs(q) /\ Noted(q)
  BY <1>4 DEF Restored, Pairs, Noted
<1>6. q.size <= Len(q.file) /\ q.info.size <= Len(q.file)
  BY <1>1, <1>2, <1>4
<1>7. ASSUME ~Absent, ~WriteFails, ~Unvalidated
      PROVE  /\ Prefix(q.file) /\ Len(q.file) <= Length
             /\ q.named => Line(q.file, q.hdr)
             /\ q.info.named => Line(q.file, q.info.hdr)
  <2>1. /\ Prefix(r.file) /\ Len(r.file) <= Length /\ (r.named => Line(r.file, r.hdr))
        /\ r.info.named => Line(r.file, r.info.hdr)
    BY <1>7 DEF Restored, Disk
  <2>2. r.size <= Length
    <3>1. Len(r.file) \in Nat /\ Length \in Nat
      BY <1>1, DownloadConstants
    <3>. QED BY <1>1, <2>1, <3>1
  <2>. QED BY <1>2, <1>4, <2>1, <2>2
<1>8. Disk(q)
  BY <1>4, <1>6, <1>7 DEF Restored, Disk
<1>9. q.size = Len(q.file)
  BY <1>2, <1>4
<1>. QED BY <1>1, <1>4, <1>5, <1>6, <1>7, <1>8, <1>9 DEF Restored

LEMMA CheckSafe ==
  ASSUME NEW r, Restored(r), r.state # "progress", NEW q \in CheckContentFileIntegrityL(r),
         card \in BOOLEAN, card \/ Absent, pausable \in BOOLEAN
  PROVE  Safe(q)
<1>1. r \in Download
  BY DEF Restored
<1>2. CASE ~r.named
  <2>1. q = [r EXCEPT !.noMedia = FALSE]
    BY <1>2 DEF CheckContentFileIntegrityL
  <2>2. Restored(q) /\ q.state = r.state /\ q.named = r.named
    BY <2>1, RestoredMedia
  <2>. QED BY <1>2, <2>2, RestoredSafe
<1>3. CASE r.named /\ ~card
  <2>1. CASE r.noMedia
    <3>1. q = r
      BY <1>3, <2>1 DEF CheckContentFileIntegrityL
    <3>. QED BY <1>3, <3>1, RestoredSafe
  <2>2. CASE ~r.noMedia
    <3> DEFINE m == [r EXCEPT !.noMedia = TRUE]
    <3>1. q = StoreDownloadInfoL(m)
      BY <1>3, <2>2 DEF CheckContentFileIntegrityL
    <3>2. Restored(m) /\ m.state = r.state
      BY RestoredMedia
    <3> HIDE DEF m
    <3>3. Mem(m)
      BY <1>3, <3>2, RestoredMem
    <3>. QED BY <3>1, <3>2, <3>3, QuietStoreSafe DEF Restored, Idle, Still
  <2>. QED BY <2>1, <2>2
<1>4. CASE r.named /\ card
  <2> DEFINE m == IF r.noMedia THEN [r EXCEPT !.file = SubSeq(r.file, 1, r.size), !.noMedia = FALSE]
                  ELSE [r EXCEPT !.size = Len(r.file)]
  <2>1. q = m \/ q \in OnError(m, "other")
    <3> DEFINE whole == m.size = Length
               fine == m.hdr = 0 \/ (IF m.state = "completed" THEN m.prog = "moved" \/ whole ELSE ~whole)
    <3>1. q \in IF fine THEN {m} ELSE OnError(m, "other")
      BY <1>4 DEF CheckContentFileIntegrityL
    <3> HIDE DEF fine, m
    <3>. QED BY <3>1
  <2>2. Restored(m) /\ m.state = r.state /\ m.size = Len(m.file)
    BY <1>4, RestoredSized, RestoredCut
  <2> HIDE DEF m
  <2>3. Mem(m) /\ Safe(m)
    BY <2>2, RestoredMem, RestoredSafe
  <2>4. m \in Download /\ m.wait = "none" /\ Pairs(m)
    BY <2>2 DEF Restored
  <2>5. CASE q \in OnError(m, "other")
    BY <2>3, <2>4, <2>5, OnErrorSafe
  <2>. QED BY <2>1, <2>3, <2>5
<1>. QED BY <1>2, <1>3, <1>4

(* What is read from the information file. *)
Loaded(f, i) ==
  [Object(f, i) EXCEPT !.state = i.state, !.prog = i.prog, !.size = i.size, !.hdr = i.hdr,
                       !.named = i.named, !.noMedia = i.noMedia]
IsLoaded(l, f, i) ==
  /\ l \in Download /\ l.mode = "on" /\ l.open = "no" /\ l.trans = NoTrans /\ l.held = FALSE
  /\ l.active = FALSE /\ l.flight = <<>> /\ l.buf = <<>> /\ l.wait = "none"
  /\ l.file = f /\ l.info = i
  /\ l.state = i.state /\ l.prog = i.prog /\ l.size = i.size /\ l.hdr = i.hdr
  /\ l.named = i.named /\ l.noMedia = i.noMedia

LEMMA LoadedEffect ==
  ASSUME NEW f \in Seq(Block), NEW i \in InfoRecord
  PROVE  IsLoaded(Loaded(f, i), f, i)
<1> DEFINE o == Object(f, i)
           s == i.state
           p == i.prog
           z == i.size
           h == i.hdr
           n == i.named
           m == i.noMedia
           a == [o EXCEPT !.state = s, !.prog = p, !.size = z]
           l == [a EXCEPT !.hdr = h, !.named = n, !.noMedia = m]
<1>1. o \in Download /\ o.file = f /\ o.info = i
  BY ObjectType
<1>2. /\ o.mode = "on" /\ o.open = "no" /\ o.trans = NoTrans /\ o.held = FALSE
      /\ o.active = FALSE /\ o.flight = <<>> /\ o.buf = <<>> /\ o.wait = "none"
  BY DEF Object
<1>3. /\ s \in States /\ p \in Progs /\ z \in Nat /\ h \in 0..MaxVersion
      /\ n \in BOOLEAN /\ m \in BOOLEAN
  BY DEF InfoRecord
<1>4. Loaded(f, i) = l
  BY DEF Loaded
<1> HIDE DEF o, s, p, z, h, n, m
<1>5. /\ a \in Download /\ a.mode = o.mode /\ a.open = o.open /\ a.trans = o.trans
      /\ a.held = o.held /\ a.active = o.active /\ a.flight = o.flight /\ a.buf = o.buf
      /\ a.wait = o.wait /\ a.file = o.file /\ a.info = o.info
      /\ a.state = s /\ a.prog = p /\ a.size = z
  BY <1>1, <1>3 DEF Download
<1> HIDE DEF a
<1>6. /\ l \in Download /\ l.mode = a.mode /\ l.open = a.open /\ l.trans = a.trans
      /\ l.held = a.held /\ l.active = a.active /\ l.flight = a.flight /\ l.buf = a.buf
      /\ l.wait = a.wait /\ l.file = a.file /\ l.info = a.info
      /\ l.state = a.state /\ l.prog = a.prog /\ l.size = a.size
      /\ l.hdr = h /\ l.named = n /\ l.noMedia = m
  BY <1>3, <1>5 DEF Download
<1> HIDE DEF l
<1>7. IsLoaded(l, f, i)
  BY <1>1, <1>2, <1>5, <1>6 DEF IsLoaded, s, p, z, h, n, m
<1>. QED BY <1>4, <1>7

LEMMA LoadedRestored ==
  ASSUME NEW r \in Download, Disk(r), NEW l, IsLoaded(l, r.file, r.info)
  PROVE  Restored(l) /\ l.state = r.info.state
<1>1. /\ l \in Download /\ l.mode = "on" /\ l.open = "no" /\ l.trans = NoTrans /\ l.held = FALSE
      /\ l.active = FALSE /\ l.flight = <<>> /\ l.buf = <<>> /\ l.wait = "none"
      /\ l.file = r.file /\ l.info = r.info
      /\ l.state = r.info.state /\ l.prog = r.info.prog /\ l.size = r.info.size
      /\ l.hdr = r.info.hdr /\ l.named = r.info.named
  BY DEF IsLoaded
<1>2. Pairs(l) /\ Noted(l)
  BY <1>1 DEF Disk, Pairs, Noted
<1>3. Disk(l)
  BY <1>1 DEF Disk
<1>4. l.info.size <= l.size /\ l.size <= Len(l.file)
  <2>1. r.info.size \in Nat
    BY DEF Download, InfoRecord
  <2>. QED BY <1>1, <2>1 DEF Disk
<1>5. ~Absent /\ ~l.named => l.size = 0
  BY <1>1 DEF Disk
<1>6. ~Absent /\ ~WriteFails /\ ~Unvalidated =>
        Prefix(l.file) /\ Len(l.file) <= Length /\ (l.named => Line(l.file, l.hdr))
  BY <1>1 DEF Disk
<1>. QED BY <1>1, <1>2, <1>3, <1>4, <1>5, <1>6 DEF Restored, Keeps

(* A download that was in progress is paused: it has no file open. *)
LEMMA PausedRestored ==
  ASSUME NEW l, Restored(l), l.state = "progress", NEW q \in PauseL(l), pausable \in BOOLEAN
  PROVE  Restored(q) /\ q.state # "progress"
<1>1. l \in Download /\ l.open = "no" /\ l.size \in Nat /\ l.file \in Seq(Block)
  BY DEF Restored, Download
<1>2. Halted(q, l)
  BY <1>1, PauseEffect
<1>3. /\ q \in Download /\ q.mode = l.mode /\ q.active = FALSE
      /\ q.trans = NoTrans /\ Keeps(q.held, q.state) /\ q.open = "no"
      /\ q.info = Info(q) /\ Named(q) = Named(l) /\ Rest(q) = Rest(l) /\ Closed(q, l)
      /\ q.flight = l.flight /\ q.buf = l.buf
      /\ q.state \in {"paused", "failed"} /\ q.prog = "none"
  BY <1>1, <1>2 DEF Halted
<1>4. q.hdr = l.hdr /\ q.named = l.named /\ q.wait = l.wait
  BY <1>3, SameNamed, SameRest
<1>5. q.file = l.file /\ q.size = l.size
  <2>1. Added(l) = {<<>>}
    BY <1>1 DEF Added
  <2>2. l.file \o <<>> = l.file /\ l.size + Len(<<>>) = l.size
    BY <1>1, ConcatEmptySeq
  <2>. QED BY <1>3, <2>1, <2>2 DEF Closed
<1>6. /\ q.info.state = q.state /\ q.info.prog = q.prog /\ q.info.size = q.size
      /\ q.info.hdr = q.hdr /\ q.info.named = q.named
  BY <1>3, InfoFields
<1>7. Pairs(q) /\ Pairs(q.info) /\ Noted(q)
  BY <1>3, <1>6 DEF Pairs, Busy, Noted
<1>8. q.size <= Len(q.file) /\ q.info.size <= q.size
  BY <1>1, <1>5, <1>6 DEF Restored
<1>9. ~Absent /\ ~q.named => q.size = 0
  BY <1>4, <1>5 DEF Restored
<1>10. ~Absent /\ ~WriteFails /\ ~Unvalidated =>
         Prefix(q.file) /\ Len(q.file) <= Length /\ (q.named => Line(q.file, q.hdr))
  BY <1>4, <1>5 DEF Restored
<1>11. Disk(q)
  BY <1>6, <1>7, <1>8, <1>9, <1>10 DEF Disk
<1>12. q.mode = "on" /\ q.flight = <<>> /\ q.buf = <<>> /\ q.wait = "none"
  BY <1>3, <1>4 DEF Restored
<1>. QED BY <1>3, <1>7, <1>8, <1>9, <1>10, <1>11, <1>12 DEF Restored

LEMMA RestartSafe ==
  ASSUME Inv, Restart
  PROVE  Safe(dl')
<1> DEFINE i == dl.info
           l == Loaded(dl.file, i)
<1>1. /\ dl \in Download /\ Disk(dl) /\ dl.file \in Seq(Block) /\ i \in InfoRecord
      /\ card \in BOOLEAN /\ pausable \in BOOLEAN /\ (card \/ Absent)
  BY DEF Inv, Safe, EnvTypes, Restart, Absent, Download
<1>2. PICK q \in IF i.state = "progress" THEN PauseL(l) ELSE {l} :
        dl' \in CheckContentFileIntegrityL(q)
  <2> DEFINE paused == IF i.state = "progress" THEN PauseL(l) ELSE {l}
  <2>1. dl' \in UNION {CheckContentFileIntegrityL(q) : q \in paused}
    BY Zenon DEF Restart, Loaded
  <2> HIDE DEF paused
  <2>2. PICK q \in paused : dl' \in CheckContentFileIntegrityL(q)
    BY <2>1, Zenon
  <2>. QED BY <2>2 DEF paused
<1>3. Restored(l) /\ l.state = i.state
  BY <1>1, LoadedEffect, LoadedRestored
<1> HIDE DEF l, i
<1>4. Restored(q) /\ q.state # "progress"
  BY <1>1, <1>2, <1>3, PausedRestored
<1>. QED BY <1>1, <1>2, <1>4, CheckSafe

-----------------------------------------------------------------------------
(* The invariant holds                                                      *)

LEMMA InitSafe ==
  ASSUME Init
  PROVE  Inv
<1> DEFINE r == dl
<1>1. <<>> \in Seq(Block) /\ 0 \in 0..MaxVersion
  BY DownloadConstants
<1>2. NewInfo \in InfoRecord
  BY <1>1 DEF NewInfo, InfoRecord, States, Progs
<1>3. r \in Download /\ r.file = <<>> /\ r.info = NewInfo
  BY <1>1, <1>2, ObjectType DEF Init
<1>4. /\ r.mode = "on" /\ r.state = "created" /\ r.prog = "none" /\ r.active = FALSE
      /\ r.trans = NoTrans /\ r.held = FALSE /\ r.open = "no" /\ r.size = 0
      /\ r.buf = <<>> /\ r.flight = <<>> /\ r.hdr = 0 /\ r.named = FALSE /\ r.noMedia = FALSE
      /\ r.wait = "none"
  BY DEF Init, Object
<1>5. /\ r.info.state = "created" /\ r.info.prog = "none" /\ r.info.size = 0
      /\ r.info.hdr = 0 /\ r.info.named = FALSE
  BY <1>3 DEF NewInfo
<1> HIDE DEF r
<1>6. Prefix(<<>>) /\ Len(<<>>) = 0 /\ Len(<<>>) <= Length
  BY EmptyLine
<1>7. Pairs(r) /\ Pairs(r.info) /\ Noted(r)
  BY <1>4, <1>5 DEF Pairs, Busy, Noted
<1>8. Flow(r)
  BY <1>4, <1>7 DEF Flow, Idle, Still, Keeps, NoTrans
<1>9. Disk(r)
  BY <1>3, <1>5, <1>6, <1>7 DEF Disk
<1>10. Mem(r)
  BY <1>3, <1>4, <1>6 DEF Mem, Fit, Kept
<1>11. Sync(r)
  BY <1>3, <1>4, <1>7, QuietSync
<1>12. Safe(r)
  BY <1>3, <1>8, <1>9, <1>10, <1>11 DEF Safe
<1>13. EnvTypes
  BY DownloadConstants DEF Init, EnvTypes
<1>. QED BY <1>12, <1>13 DEF r, Inv

LEMMA EnvStep ==
  ASSUME EnvTypes, Next
  PROVE  EnvTypes'
<1>1. CASE UNCHANGED <<env, starts>>
  BY <1>1 DEF EnvTypes, env
<1>2. CASE StartL
  BY <1>2, DownloadConstants DEF EnvTypes, StartL, env
<1>3. CASE CardChanges
  BY <1>3 DEF EnvTypes, CardChanges
<1>4. CASE MMCModeChanged
  BY <1>4 DEF EnvTypes, MMCModeChanged
<1>5. CASE ContentChanges
  BY <1>5, DownloadConstants DEF EnvTypes, ContentChanges
<1>6. CASE Restart
  BY <1>6 DEF EnvTypes, Restart
<1>7. CASE \/ Pause \/ Reset \/ MoveL \/ Reenter \/ RunL \/ (\E ok \in BOOLEAN : MoveDone(ok))
           \/ ConnectL \/ LinkUp \/ ConnectionFailed \/ LinkBlocked \/ LinkDown
  BY <1>1, <1>7 DEF Pause, Reset, MoveL, Reenter, RunL, MoveDone, ConnectL, LinkUp, ConnectionFailed,
                    LinkBlocked, LinkDown
<1>8. CASE \/ FullContent \/ PartialContent \/ NotModified \/ PreconditionFailed
           \/ ResponseBodyReceivedL \/ WriteDone \/ Succeeded \/ Completed
           \/ (\E error \in {"other", "partial"} : TransactionFailed(error))
           \/ TransactionClosed \/ Crash
  BY <1>1, <1>8 DEF FullContent, PartialContent, NotModified, PreconditionFailed,
                    ResponseBodyReceivedL, WriteDone, Succeeded, Completed, TransactionFailed,
                    TransactionClosed, Crash
<1>. QED BY <1>2, <1>3, <1>4, <1>5, <1>6, <1>7, <1>8 DEF Next

LEMMA SafeStep ==
  ASSUME Inv, Next
  PROVE  Safe(dl')
<1>1. CASE ContentChanges
  BY <1>1 DEF Inv, ContentChanges
<1>2. CASE \E ok \in BOOLEAN : MoveDone(ok)
  BY <1>2, MoveDoneSafe
<1>3. CASE \E error \in {"other", "partial"} : TransactionFailed(error)
  BY <1>3, TransactionFailedSafe
<1>4. CASE \/ StartL \/ Pause \/ Reset \/ MoveL \/ Reenter \/ RunL
           \/ ConnectL \/ LinkUp \/ ConnectionFailed \/ LinkBlocked \/ LinkDown
  BY <1>4, ConnectLSafe, StartLSafe, PauseActionSafe, ResetSafe, MoveLSafe, ReenterSafe, RunLSafe, LinkUpSafe,
     ConnectionFailedSafe, LinkBlockedSafe, LinkDownSafe
<1>5. CASE \/ FullContent \/ PartialContent \/ NotModified \/ PreconditionFailed
           \/ ResponseBodyReceivedL \/ WriteDone \/ Succeeded \/ Completed \/ TransactionClosed
  BY <1>5, FullContentSafe, PartialContentSafe, NotModifiedSafe, PreconditionFailedSafe,
     ResponseBodySafe, WriteDoneSafe, SucceededSafe, CompletedSafe, TransactionClosedSafe
<1>6. CASE CardChanges \/ MMCModeChanged \/ Crash \/ Restart
  BY <1>6, CardChangesSafe, MMCModeSafe, CrashSafe, RestartSafe
<1>. QED BY <1>1, <1>2, <1>3, <1>4, <1>5, <1>6 DEF Next

LEMMA OffStep ==
  ASSUME Next
  PROVE  off' = off
BY DEF Next, StartL, Pause, Reset, MoveL, Reenter, RunL, MoveDone, ConnectL, LinkUp,
       ConnectionFailed, LinkBlocked, LinkDown, FullContent, PartialContent, NotModified,
       PreconditionFailed, ResponseBodyReceivedL, WriteDone, Succeeded, Completed,
       TransactionFailed, TransactionClosed, CardChanges, MMCModeChanged, ContentChanges,
       Crash, Restart, env

LEMMA InvStep == Inv /\ [Next]_vars => Inv'
<1> SUFFICES ASSUME Inv, [Next]_vars PROVE Inv'
  OBVIOUS
<1>1. Safe(dl') /\ EnvTypes' /\ off' = off
  <2>1. CASE Next
    BY <2>1, SafeStep, EnvStep, OffStep DEF Inv
  <2>2. CASE UNCHANGED vars
    BY <2>2 DEF vars, Inv, EnvTypes
  <2>. QED BY <2>1, <2>2
<1>2. Safe(dl)'
  BY <1>1 DEF Safe, Flow, Idle, Still, Keeps
<1>. QED BY <1>1, <1>2 DEF Inv

LEMMA InvTheorem == Spec => []Inv
<1>1. Init => Inv
  BY InitSafe
<1>. QED BY <1>1, InvStep, PTL DEF Spec

-----------------------------------------------------------------------------
(* What follows                                                             *)

(* A download that is not in progress is quiet, whatever happens to its card, its
   connection, its content or its process, and whatever the client has turned off:
   nothing that could change it is left behind by any way out of "in progress", and
   the connection handler only where the client has asked for it. *)
THEOREM QuietTheorem == Spec => []QuietUnlessInProgress
<1>1. Inv => QuietUnlessInProgress
  <2> SUFFICES ASSUME Inv, Free, dl.state # "progress"
               PROVE  /\ dl.trans = NoTrans /\ dl.open = "no" /\ dl.flight = <<>>
                      /\ dl.active => dl.moving
                      /\ Keeps(dl.held, dl.state)
    BY DEF QuietUnlessInProgress, Keeps
  <2>1. Flow(dl) /\ Mem(dl) /\ dl.mode = "on" /\ dl.wait = "none"
    BY DEF Inv, Safe, Free, On
  <2>. QED BY <2>1 DEF Flow, Idle, Still, Mem
<1>. QED BY <1>1, InvTheorem, PTL

(* What counts as downloaded is what the file holds, whenever a Range request may be
   made from it, unless the server is started without the card: a download restarted
   without it believes its information file, and stays there. *)
THEOREM SizeTheorem ==
  ASSUME ~Absent
  PROVE  Spec => []SizeIsFile
<1>1. Inv => SizeIsFile
  <2> SUFFICES ASSUME Inv, On, dl.named PROVE dl.size = Len(dl.file)
    BY DEF SizeIsFile
  <2>1. Fit(dl)
    BY DEF Inv, Safe, On, Mem
  <2>. QED BY <2>1 DEF Fit
<1>. QED BY <1>1, InvTheorem, PTL

(* The file is always a beginning of one version of the content, and so is it with
   what has arrived but is still in the buffers, if writing the file does not fail,
   the server is not started without the card, and the headers kept tell the versions
   apart. *)
THEOREM PrefixTheorem ==
  ASSUME ~Absent, ~WriteFails, ~Unvalidated
  PROVE  Spec => []FileIsPrefix
<1>1. Inv => FileIsPrefix
  <2> SUFFICES ASSUME Inv PROVE FileIsPrefix
    OBVIOUS
  <2>1. dl \in Download /\ Safe(dl) /\ EnvTypes /\ Bounded(dl)
    BY SafeBounds DEF Inv, Safe
  <2>2. Prefix(dl.file) /\ Len(dl.file) <= Length
    BY <2>1 DEF Safe, Disk
  <2>3. TypeOK
    <3>1. \A s \in {dl.file, dl.buf, dl.flight} : s \in Seq(Block)
      BY <2>1 DEF Download
    <3>2. dl.size \in 0..Length /\ Len(dl.buf) <= BufferSize /\ Len(dl.flight) <= BufferSize
      BY <2>1, DownloadConstants DEF Bounded, Download
    <3>. QED BY <2>1, <2>2, <3>1, <3>2 DEF TypeOK, Download, Modes, States, Progs, Busy,
                                           Transactions, EnvTypes
  <2>4. ASSUME On, dl.trans.st = "body", dl.open = "good"
        PROVE  /\ Prefix(dl.file \o dl.flight \o dl.buf)
               /\ Len(dl.file \o dl.flight \o dl.buf) = dl.trans.pos - 1
    <3>1. Mem(dl) /\ Sync(dl)
      BY <2>1, <2>4 DEF Safe, On
    <3>2. Line(Whole(dl), dl.hdr) /\ Len(Whole(dl)) + 1 = dl.trans.pos
      BY <2>4, <3>1 DEF Mem, Kept, Sync, Matching
    <3>3. Whole(dl) \in Seq(Block)
      BY <2>1 DEF Download, Whole
    <3>4. Prefix(Whole(dl)) /\ Len(Whole(dl)) \in Nat
      BY <3>2, <3>3, LinePrefix, LenProperties
    <3>5. Len(Whole(dl)) = dl.trans.pos - 1
      BY <3>2, <3>4
    <3>. QED BY <3>4, <3>5 DEF Whole
  <2>. QED BY <2>2, <2>3, <2>4 DEF FileIsPrefix
<1>. QED BY <1>1, InvTheorem, PTL
=============================================================================
