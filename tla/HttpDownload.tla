---------------------------- MODULE HttpDownload ----------------------------
(***************************************************************************)
(* A download of the download manager                                      *)
(* (browserutilities/downloadmgr/DownloadMgrServEng): CHttpDownload with    *)
(* its CHttpStorage and CBuffStorage and the CHttpConnHandler it is          *)
(* connected through, from the first StartL to the moved file, over pauses, *)
(* lost connections, removed cards, changed contents and restarts.          *)
(*                                                                         *)
(* The server is one thread; the download, the writer of the content file,  *)
(* the connection handler, the HTTP transaction, the card observer and the  *)
(* clients' requests are served by its active scheduler in any order.  A     *)
(* handler that waits for a write runs a nested scheduler, so that others    *)
(* are served in the middle of it.  That is modelled where body data or the *)
(* end of a download waits; a pause, a reset, an error and a removed card    *)
(* wait within one step.                                                    *)
(*                                                                         *)
(* Modelled are plain downloads with GET: no content object descriptors, no *)
(* HEAD request first, no transaction taken over from the client, no         *)
(* progressive playback, no file handle of the client.  The HTTP stack, the  *)
(* web server, the file server and the network are external.                *)
(***************************************************************************)
EXTENDS Naturals, Sequences

CONSTANTS
    Length,      \* number of blocks of the content
    BufferSize,  \* blocks in each of the two buffers of CBuffStorage
    Actions,     \* the restart actions (EDlAttrRestartAction) considered
    Settings,    \* the sets of attributes considered that the client turns off
    MaxVersion,  \* bound: versions of the content on the web server
    MaxStarts,   \* bound: number of StartL requests
    Events       \* which of the optional events may happen

ASSUME DownloadConstants ==
    /\ Length \in Nat \ {0} /\ BufferSize \in Nat \ {0}
    /\ MaxVersion \in Nat \ {0} /\ MaxStarts \in Nat
    /\ Actions \subseteq {"noifcompleted", "ifexpired", "forced"}
    /\ Settings \subseteq SUBSET {"DisconnectOnPause", "DisconnectOnReset", "AutoConnect"}

VARIABLES
    dl,        \* the download: its object, its content file and its info file
    card,      \* the memory card with the content file is in
    told,      \* what the card observer has last reported
    version,   \* version of the content on the web server
    starts,    \* number of StartL requests so far
    pausable,  \* iPausable: not a POST, not DRM content that cannot be resumed
    action,    \* iRestartAction
    off        \* the attributes that the client has turned off

vars == <<dl, card, told, version, starts, pausable, action, off>>
env == <<card, told, version, pausable, action, off>>

NoTrans == [st |-> "none", ver |-> 0, pos |-> 0]

\* The content file holds blocks <<v, i>>: block i of version v.
Block == (1 .. MaxVersion) \X (1 .. Length)

\* StoreDownloadInfoL: the info file.
Info(r) == [state |-> r.state, prog |-> r.prog, size |-> r.size, hdr |-> r.hdr,
            named |-> r.named, noMedia |-> r.noMedia]
StoreDownloadInfoL(r) == [r EXCEPT !.info = Info(r)]

\* The object in memory, before anything is downloaded, with the files on the card;
\* link: the handler's iConnStage, held: iConnHandler is set, hdr: version in the
\* response headers kept, named: there is a destination filename.
Object(file, info) ==
          [mode |-> "on", state |-> "created", prog |-> "none", active |-> FALSE,
           trans |-> NoTrans, link |-> "down", held |-> FALSE, file |-> file, info |-> info,
           open |-> "no", size |-> 0, buf |-> <<>>, flight |-> <<>>, werr |-> FALSE,
           enabled |-> FALSE, hdr |-> 0, named |-> FALSE, noMedia |-> FALSE,
           moving |-> FALSE, wait |-> "none"]

\* What ConstructL stores of a new download.
NewInfo == [state |-> "created", prog |-> "none", size |-> 0, hdr |-> 0,
            named |-> FALSE, noMedia |-> FALSE]

Init ==
    /\ dl = Object(<<>>, NewInfo)
    /\ card = TRUE /\ told = TRUE
    /\ version = 1 /\ starts = 0
    /\ pausable \in BOOLEAN
    /\ action \in Actions
    /\ off \in Settings

On == dl.mode = "on"
Free == On /\ dl.wait = "none"

\* What does not need the file is served while a handler waits for the writer, too.
Served == On /\ (dl.wait = "none" \/ dl.flight # <<>>)

-----------------------------------------------------------------------------
(* The content file: CBuffStorage, CHttpStorage *)

\* Outcomes of appending blocks to the file, over a handle that works.
Writes(r, blocks) ==
    (IF r.open = "good"
       THEN {[r EXCEPT !.file = @ \o blocks, !.size = @ + Len(blocks)]} ELSE {})
Fails(r) == r.open = "bad" \/ "writefail" \in Events

\* CBuffStorage::RunL: the asynchronous write has ended.
FinishWrite(r) ==
    IF r.flight = <<>> THEN {r}
    ELSE {[q EXCEPT !.flight = <<>>, !.werr = FALSE] : q \in Writes(r, r.flight)}
         \cup (IF Fails(r) THEN {[r EXCEPT !.flight = <<>>, !.werr = TRUE]} ELSE {})

\* FlushBuffersL; an error it leaves with is ignored by its callers here.
FlushBuffersL(r) ==
    IF r.werr THEN {[r EXCEPT !.werr = FALSE]}
    ELSE IF r.buf = <<>> THEN {r}
    ELSE {[q EXCEPT !.buf = <<>>] : q \in Writes(r, r.buf)}
         \cup (IF Fails(r) THEN {r} ELSE {})

\* CloseDestinationFile( EKeepFile ): wait for the write, flush, free the buffers.
CloseDestinationFile(r) ==
    IF r.open = "no" THEN {r}
    ELSE {[q EXCEPT !.buf = <<>>, !.werr = FALSE, !.open = "no"] :
            q \in UNION {FlushBuffersL(f) : f \in FinishWrite(r)}}

\* ReInitializeDownload, with ResetAndDestroy of the storage.
ReInitializeDownload(r) ==
    {[q EXCEPT !.file = IF card /\ q.named THEN <<>> ELSE @, !.size = 0, !.hdr = 0,
               !.named = FALSE, !.noMedia = FALSE] : q \in CloseDestinationFile(r)}

\* CreateDestinationFileL: replace the file, or append if something is persisted.
CreateDestinationFileL(r) ==
    [r EXCEPT !.named = TRUE, !.open = "good", !.file = IF r.size = 0 THEN <<>> ELSE @]

-----------------------------------------------------------------------------
(* Parts of the handlers *)

\* SetDownloadStatus.  A second SelfComplete would panic in SetActive.
SetDownloadStatus(r, prog, state) ==
    LET complete == state = "progress" /\ prog \in {"started", "connected"}
    IN StoreDownloadInfoL(
         [r EXCEPT !.prog = prog, !.state = state,
                   !.active = IF state = "paused" THEN FALSE ELSE @ \/ complete,
                   !.mode = IF complete /\ r.active THEN "panic" ELSE @])

CancelTransaction(r) == [r EXCEPT !.trans = NoTrans]

\* Disconnect: the handler is released; without a download it shuts down, at once
\* or after a minute, unless the client has named the connection (ConnectL).
Disconnect(r) ==
    IF ~r.held THEN r
    ELSE [r EXCEPT !.held = FALSE, !.link = IF "AutoConnect" \in off THEN @ ELSE "down"]

\* Mutant: the object is not cancelled and the transaction goes on.
OnErrorMutant(r, error) ==
    {SetDownloadStatus(q, "none", IF error = "other" THEN "failed" ELSE "paused") :
        q \in CloseDestinationFile(Disconnect(r))}

\* OnError: a lost connection, a partial response and a removed card pause the
\* download, other errors fail it.
OnError(r, error) ==
    {LET state == IF error \in {"partial", "media"} \/ (error = "connection" /\ pausable)
                    THEN "paused" ELSE "failed"
     IN StoreDownloadInfoL(IF q.state = "failed" THEN q ELSE SetDownloadStatus(q, "none", state)) :
       q \in CloseDestinationFile(Disconnect([CancelTransaction(r) EXCEPT !.active = FALSE]))}

InternalPauseL(r) == {CancelTransaction(q) : q \in CloseDestinationFile(r)}

PauseL(r) ==
    IF r.state \in {"paused", "completed", "failed"} THEN {r}
    ELSE UNION {LET p == IF "DisconnectOnPause" \in off THEN q ELSE Disconnect(q) IN
                CASE p.state # "progress" -> {StoreDownloadInfoL(p)}
                  [] p.state = "progress" /\ pausable -> {SetDownloadStatus(p, "none", "paused")}
                  [] OTHER -> OnError(p, "other") :
                q \in InternalPauseL(r)}

\* Connected, of the download: only when it waits for it.
Connected(r) == IF r.prog = "connecting" THEN SetDownloadStatus(r, "connected", "progress") ELSE r

-----------------------------------------------------------------------------
(* Requests of the client *)

Start(r) == SetDownloadStatus([r EXCEPT !.held = TRUE], "started", "progress")

\* IsExpired is left to chance ("expire").
StartL ==
    /\ Served /\ starts < MaxStarts
    /\ starts' = starts + 1
    /\ dl' \in CASE dl.noMedia -> {SetDownloadStatus(dl, "none", "failed")}
                 [] ~dl.noMedia /\ dl.state = "progress" -> {dl}
                 [] ~dl.noMedia /\ dl.state = "completed" ->
                      (IF action # "forced" THEN {dl} ELSE {})
                      \cup (IF action = "ifexpired" /\ "expire" \in Events THEN {Start(dl)} ELSE {})
                      \cup (IF action = "forced" /\ Free
                              THEN {Start(q) : q \in ReInitializeDownload(dl)} ELSE {})
                 [] ~dl.noMedia /\ dl.state = "paused" ->
                      (IF pausable THEN {Start(dl)} ELSE {})
                      \cup (IF ~pausable \/ "expire" \in Events
                              THEN {Start(q) : q \in ReInitializeDownload(dl)} ELSE {})
                 [] OTHER -> {Start(dl)}
    /\ UNCHANGED env

\* A client asks for a pause; PauseL as well when its instance goes away.
Pause ==
    /\ Free /\ dl.state \in {"created", "progress"}
    /\ dl' \in PauseL(dl)
    /\ UNCHANGED <<env, starts>>

\* DoReset: back to the beginning.
Reset ==
    /\ Free
    /\ LET ended == CancelTransaction([dl EXCEPT !.active = FALSE])
           quiet == IF "DisconnectOnReset" \in off THEN ended ELSE Disconnect(ended)
       IN dl' \in {SetDownloadStatus(q, "none", "created") : q \in ReInitializeDownload(quiet)}
    /\ UNCHANGED <<env, starts>>

\* MoveL: the flag is set before anything is tested (KErrNotReady, KErrInUse).
MoveL ==
    /\ "move" \in Events /\ Served /\ ~dl.moving
    /\ dl' = LET q == [dl EXCEPT !.moving = TRUE]
             IN IF q.state = "completed" /\ q.prog \notin {"moving", "moved"}
                  THEN SetDownloadStatus([q EXCEPT !.active = TRUE], "moving", "completed")
                  ELSE q
    /\ UNCHANGED <<env, starts>>

\* A request that closes the file while the writer is waited for in the middle of
\* another handler: the second CActiveSchedulerWait::Start panics.
Reenter ==
    /\ On /\ dl.wait # "none" /\ dl.flight # <<>>
    /\ dl' = [dl EXCEPT !.mode = "panic"]
    /\ UNCHANGED <<env, starts>>

-----------------------------------------------------------------------------
(* The active object of the download *)

\* SetRequestHeaderL: the version that the request is made on condition of.  The
\* headers kept may have nothing that tells versions apart: no ETag, and no date or
\* that of Expires, which is taken before Last-Modified ("unvalidated").
SetRequestHeaderL(r) == {r.hdr} \cup (IF "unvalidated" \in Events THEN {0} ELSE {})

\* RequestContentL: what is persisted is not asked for again, unless the restart
\* is forced.
RequestContentL(r, condition) ==
    SetDownloadStatus(
        [r EXCEPT !.trans = [st |-> "asked", ver |-> condition,
                             pos |-> IF action = "forced" THEN 0 ELSE r.size]],
        "submitted", "progress")

\* Connect: over an open connection at once, else ask the handler (ConnectL), or
\* the client.
Connect(r) ==
    LET c == SetDownloadStatus(r, "connecting", "progress")
    IN IF r.link = "up" THEN Connected(c)
       ELSE [c EXCEPT !.link = IF @ = "down" /\ "AutoConnect" \notin off THEN "opening" ELSE @]

RunL ==
    /\ Served /\ dl.active /\ dl.prog # "moving" /\ (Free \/ dl.prog # "connected")
    /\ LET r == [dl EXCEPT !.active = FALSE]
       IN dl' \in CASE dl.prog = "started" -> {Connect(r)}
                    [] dl.prog = "connected" ->
                         (IF r.trans = NoTrans THEN {RequestContentL(r, c) : c \in SetRequestHeaderL(r)}
                            ELSE OnError(r, "other"))
                    [] OTHER -> {[r EXCEPT !.mode = "panic"]}
    /\ UNCHANGED <<env, starts>>

\* RunL when the file has been moved, or could not be.
MoveDone(ok) ==
    /\ Served /\ dl.active /\ dl.prog = "moving"
    /\ ok => card
    /\ dl' = SetDownloadStatus([dl EXCEPT !.active = FALSE, !.moving = ~ok], "moved", "completed")
    /\ UNCHANGED <<env, starts>>

-----------------------------------------------------------------------------
(* The connection handler *)

\* ConnectL: the client names a connection (EDlMgrConnectionName); one that does so
\* has AutoConnect turned off.
ConnectL ==
    /\ Served /\ "AutoConnect" \in off /\ dl.link = "down"
    /\ dl' = [dl EXCEPT !.link = "opening"]
    /\ UNCHANGED <<env, starts>>

\* ConnectionStageChanged( KLinkLayerOpen )
LinkUp ==
    /\ Served /\ dl.link \in {"opening", "blocked"}
    /\ dl' = LET r == [dl EXCEPT !.link = "up"] IN IF r.held THEN Connected(r) ELSE r
    /\ UNCHANGED <<env, starts>>

\* The connection could not be opened, or broke with an error.
ConnectionFailed ==
    /\ Free /\ dl.link # "down" /\ dl.held
    /\ dl' \in OnError(dl, "connection")
    /\ UNCHANGED <<env, starts>>

\* ConnectionStageChanged( KDataTransferTemporarilyBlocked ): Suspended
LinkBlocked ==
    /\ "suspend" \in Events /\ Served /\ dl.link = "up"
    /\ dl' = LET r == [dl EXCEPT !.link = "blocked"]
             IN IF r.held /\ r.state = "progress"
                  THEN SetDownloadStatus(r, "suspended", "progress") ELSE r
    /\ UNCHANGED <<env, starts>>

\* ConnectionStageChanged( KConnectionUninitialised ): Disconnected, and ShutDown,
\* which pauses as well; ShutDown after a minute of blocking.
LinkDown ==
    /\ Free \/ (Served /\ ~dl.held)
    /\ dl.link \in {"up", "blocked"}
    /\ dl' \in LET r == [dl EXCEPT !.link = "down"] IN IF r.held THEN PauseL(r) ELSE {r}
    /\ UNCHANGED <<env, starts>>

-----------------------------------------------------------------------------
(* The transaction: MHFRunL *)

Asked == Free /\ dl.trans.st = "asked"
Same == dl.trans.ver \in {0, version}

\* 200: everything from the start.
FullContent ==
    /\ Asked
    /\ \/ dl.trans.pos = 0 \/ "norange" \in Events
       \/ action = "ifexpired" /\ (~Same \/ (dl.trans.ver = 0 /\ dl.trans.pos = Length))
    /\ dl' \in UNION {LET h == [q EXCEPT !.hdr = version] IN
                      IF card
                        THEN {SetDownloadStatus(
                                [CreateDestinationFileL(h) EXCEPT
                                    !.trans = [st |-> "body", ver |-> version, pos |-> 1]],
                                "header", "progress")}
                        ELSE OnError(h, "other") :
                      q \in ReInitializeDownload(dl)}
    /\ UNCHANGED <<env, starts>>

\* 206: the rest, if it is still the same content.
PartialContent ==
    /\ Asked /\ dl.trans.pos > 0 /\ dl.trans.pos < Length /\ Same
    /\ dl' \in LET h == [dl EXCEPT !.hdr = version] IN
               IF card
                 THEN {SetDownloadStatus(
                         [CreateDestinationFileL(h) EXCEPT
                             !.trans = [st |-> "body", ver |-> version, pos |-> dl.trans.pos + 1]],
                         "header", "progress")}
                 ELSE OnError(h, "other")
    /\ UNCHANGED <<env, starts>>

\* OnCompletedL up to the end of the storage: the state is set and reported first.
OnCompletedL(r) ==
    [Disconnect([SetDownloadStatus(r, "none", "completed") EXCEPT !.active = FALSE])
       EXCEPT !.wait = "complete"]

\* 304: nothing new.
NotModified ==
    /\ Asked /\ action = "ifexpired" /\ dl.trans.pos = Length /\ dl.trans.ver = version
    /\ dl' \in IF card THEN {OnCompletedL(CreateDestinationFileL(dl))} ELSE OnError(dl, "other")
    /\ UNCHANGED <<env, starts>>

\* 412, 416: the content is another one, or is all there.
PreconditionFailed ==
    /\ Asked /\ (~Same \/ (dl.trans.pos = Length /\ action # "ifexpired"))
    /\ dl' \in IF action # "noifcompleted"
                 THEN {SetDownloadStatus(q, "started", "progress") :
                         q \in ReInitializeDownload(CancelTransaction(dl))}
                 ELSE OnError(dl, "other")
    /\ UNCHANGED <<env, starts>>

\* Mutant: a full buffer is written while the other one still is.
FullMutant(r) == {[r EXCEPT !.flight = r.buf, !.buf = <<>>]}

\* DoBufferingWriteL with a full buffer: wait for the write of the other one; leave
\* with its error (MHFRunError); else write this one.
Full(r) ==
    IF r.flight # <<>> THEN {[r EXCEPT !.wait = "part"]}
    ELSE IF r.werr THEN OnError([r EXCEPT !.werr = FALSE, !.wait = "none"], "other")
    ELSE {[r EXCEPT !.flight = r.buf, !.buf = <<>>, !.wait = "none"]}

\* ResponseBodyReceivedL: the first block is written at once, the others buffered.
ResponseBodyReceivedL ==
    /\ Free /\ dl.trans.st = "body" /\ dl.trans.pos <= Length
    /\ LET block == <<dl.trans.ver, dl.trans.pos>>
           r == [dl EXCEPT !.trans.pos = @ + 1, !.enabled = TRUE]
           b == [r EXCEPT !.buf = Append(@, block)]
       IN dl' \in IF ~dl.enabled /\ dl.size = 0
                    THEN Writes(r, <<block>>)
                         \cup (IF Fails(r) THEN OnError(r, "other") ELSE {})
                    ELSE IF Len(b.buf) < BufferSize THEN {b} ELSE Full(b)
    /\ UNCHANGED <<env, starts>>

\* CBuffStorage::RunL; whoever waits for it goes on.
WriteDone ==
    /\ On /\ dl.flight # <<>> /\ dl.wait # "complete"
    /\ dl' \in IF dl.wait = "part" THEN UNION {Full(q) : q \in FinishWrite(dl)} ELSE FinishWrite(dl)
    /\ UNCHANGED <<env, starts>>

\* ESucceeded: DownloadSucceededL
Succeeded ==
    /\ Free /\ dl.trans.st = "body" /\ dl.trans.pos > Length
    /\ dl' = OnCompletedL(dl)
    /\ UNCHANGED <<env, starts>>

\* The end of OnCompletedL: flush, close, close the transaction, store.
Completed ==
    /\ On /\ dl.wait = "complete"
    /\ dl' \in {StoreDownloadInfoL([CancelTransaction(q) EXCEPT !.wait = "none"]) :
                  q \in CloseDestinationFile(dl)}
    /\ UNCHANGED <<env, starts>>

\* A negative event, or a response with an error: MHFRunError, OnError.
TransactionFailed(error) ==
    /\ Free /\ dl.trans # NoTrans
    /\ error = "partial" => dl.trans.st = "body" /\ dl.trans.pos <= Length
    /\ dl' \in OnError(dl, error)
    /\ UNCHANGED <<env, starts>>

\* EFailed, EMoreDataReceivedThanExpected, EUnrecoverableError, ETooMuchRequestData.
TransactionClosed ==
    /\ "efailed" \in Events /\ Free /\ dl.trans # NoTrans
    /\ dl' = CancelTransaction(dl)
    /\ UNCHANGED <<env, starts>>

-----------------------------------------------------------------------------
(* The card, the content, the process *)

\* The card is pulled out or put back; open handles to it do not survive that.
CardChanges ==
    /\ "media" \in Events
    /\ card' = ~card
    /\ dl' = [dl EXCEPT !.open = IF @ = "good" THEN "bad" ELSE @]
    /\ UNCHANGED <<told, version, starts, pausable, action, off>>

\* MMCModeChanged, MediaRemoved, MediaInserted.  Without a card its id is
\* KErrNotFound, and so is the one of a download that has no filename yet.
MMCModeChanged ==
    /\ told # card /\ (Free \/ (Served /\ card))
    /\ told' = card
    /\ dl' \in CASE card -> {IF dl.named THEN [dl EXCEPT !.noMedia = FALSE] ELSE dl}
                 [] ~card /\ dl.noMedia -> {dl}
                 [] OTHER -> {StoreDownloadInfoL(q) : q \in
                                UNION {IF p.state = "progress" THEN OnError(p, "media") ELSE {p} :
                                       p \in InternalPauseL([dl EXCEPT !.noMedia = TRUE])}}
    /\ UNCHANGED <<card, version, starts, pausable, action, off>>

ContentChanges ==
    /\ version < MaxVersion
    /\ version' = version + 1
    /\ UNCHANGED <<dl, card, told, starts, pausable, action, off>>

\* The process dies; a write in flight may or may not get to the file.
Crash ==
    /\ "crash" \in Events /\ On
    /\ \E file \in {dl.file} \cup {q.file : q \in Writes(dl, dl.flight)} :
         dl' = [Object(file, dl.info) EXCEPT !.mode = "off"]
    /\ UNCHANGED <<env, starts>>

\* Mutant: the size in the info file is believed.
CheckContentFileIntegrityMutant(r) == {[r EXCEPT !.noMedia = r.named /\ ~card]}

\* CheckContentFileIntegrityL: the size is that of the file; after a removed card
\* the file is cut to the size in the info file.
CheckContentFileIntegrityL(r) ==
    IF ~r.named THEN {[r EXCEPT !.noMedia = FALSE]}
    ELSE IF ~card THEN {IF r.noMedia THEN r ELSE StoreDownloadInfoL([r EXCEPT !.noMedia = TRUE])}
    ELSE LET q == IF r.noMedia
                    THEN [r EXCEPT !.file = SubSeq(@, 1, r.size), !.noMedia = FALSE]
                    ELSE [r EXCEPT !.size = Len(r.file)]
             whole == q.size = Length
         IN IF q.hdr = 0 \/ (IF q.state = "completed" THEN q.prog = "moved" \/ whole ELSE ~whole)
              THEN {q} ELSE OnError(q, "other")

\* ConstructL on an info file: LoadDownloadInfoL; what was in progress is paused.
\* The server is started without the card only with "absent".
Restart ==
    /\ dl.mode \in {"off", "panic"}
    /\ card \/ "absent" \in Events
    /\ LET i == dl.info
           loaded == [Object(dl.file, i) EXCEPT !.state = i.state, !.prog = i.prog, !.size = i.size,
                                              !.hdr = i.hdr, !.named = i.named,
                                              !.noMedia = i.noMedia]
           paused == IF i.state = "progress" THEN PauseL(loaded) ELSE {loaded}
       IN dl' \in UNION {CheckContentFileIntegrityL(q) : q \in paused}
    /\ told' = card
    /\ UNCHANGED <<card, version, starts, pausable, action, off>>

-----------------------------------------------------------------------------

Next ==
    \/ StartL \/ Pause \/ Reset \/ MoveL \/ Reenter
    \/ RunL \/ (\E ok \in BOOLEAN : MoveDone(ok))
    \/ ConnectL \/ LinkUp \/ ConnectionFailed \/ LinkBlocked \/ LinkDown
    \/ FullContent \/ PartialContent \/ NotModified \/ PreconditionFailed
    \/ ResponseBodyReceivedL \/ WriteDone \/ Succeeded \/ Completed
    \/ (\E error \in {"other", "partial"} : TransactionFailed(error)) \/ TransactionClosed
    \/ CardChanges \/ MMCModeChanged \/ ContentChanges \/ Crash \/ Restart

Spec == Init /\ [][Next]_vars

-----------------------------------------------------------------------------
(* Properties *)

(* Every variable has its type.                                                      *)
TypeOK ==
    /\ dl.mode \in {"on", "off", "panic"} /\ dl.wait \in {"none", "part", "complete"}
    /\ dl.state \in {"created", "progress", "paused", "completed", "failed"}
    /\ dl.prog \in {"none", "started", "connecting", "connected", "submitted", "header",
                    "suspended", "moving", "moved"}
    /\ dl.link \in {"down", "opening", "up", "blocked"} /\ dl.open \in {"no", "good", "bad"}
    /\ dl.trans.st \in {"none", "asked", "body"}
    /\ \A s \in {dl.file, dl.buf, dl.flight} : s \in Seq(Block)
    /\ Len(dl.file) <= Length /\ Len(dl.buf) <= BufferSize /\ Len(dl.flight) <= BufferSize
    /\ dl.size \in 0 .. Length /\ dl.hdr \in 0 .. MaxVersion
    /\ card \in BOOLEAN /\ told \in BOOLEAN /\ pausable \in BOOLEAN
    /\ action \in Actions /\ off \in Settings
    /\ version \in 1 .. MaxVersion /\ starts \in 0 .. MaxStarts

Prefix(s) == \E v \in 1 .. MaxVersion : \A i \in DOMAIN s : s[i] = <<v, i>>

(* The content file is always a beginning of one version of the content, blocks in   *)
(* order and none twice, and so is what has arrived but is still in the buffers:      *)
(* however often the download is paused, loses its connection or card, is killed and  *)
(* resumed with a Range request (CBuffStorage, CreateDestinationFileL,                *)
(* CheckContentFileIntegrityL).  It rests on writes that do not fail, on a server      *)
(* started with the card in, and on headers with something that tells the versions    *)
(* apart (SetExpireToFieldL); without any of these it does not hold.                  *)
FileIsPrefix ==
    /\ TypeOK
    /\ Prefix(dl.file)
    /\ On /\ dl.trans.st = "body" /\ dl.open = "good" =>
         /\ Prefix(dl.file \o dl.flight \o dl.buf)
         /\ Len(dl.file \o dl.flight \o dl.buf) = dl.trans.pos - 1

(* What counts as downloaded is what the file holds, whenever the next Range request  *)
(* may be made from it: no byte is asked for twice or skipped.                        *)
SizeIsFile == On /\ card /\ dl.open = "no" /\ dl.named => dl.size = Len(dl.file)

(* A download that is not in progress is quiet: no transaction that could still bring *)
(* data, no open file, no write under way, and its active object runs only to move    *)
(* the file.  It keeps the connection handler only where the client has asked for it: *)
(* over a pause with DisconnectOnPause off (PauseL), over a reset with               *)
(* DisconnectOnReset off (DoReset), and from there into a start without the card; a   *)
(* completed one never does.                                                          *)
QuietUnlessInProgress ==
    Free /\ dl.state # "progress" =>
        /\ dl.trans = NoTrans /\ dl.open = "no" /\ dl.flight = <<>>
        /\ dl.active => dl.moving
        /\ dl.held => \/ "DisconnectOnPause" \in off /\ dl.state \in {"paused", "failed"}
                      \/ "DisconnectOnReset" \in off /\ dl.state \in {"created", "failed"}

-----------------------------------------------------------------------------
(* Claims that do not hold *)

(* "completed event fired only when the last chunk is persisted" (DownloadSucceededL) *)
CompletedIsPersisted == On /\ dl.state = "completed" => Len(dl.file) = Length

(* "Keep progress states consistent with SetDownloadStatus()" (RunL): RunL meets only  *)
(* the progress states it knows.                                                      *)
RunLExpected == Free /\ dl.active => dl.prog \in {"started", "connected", "moving"}

(* A download in progress waits for something that will happen.                       *)
InProgressGoesOn ==
    Free /\ dl.state = "progress" => dl.active \/ dl.trans # NoTrans \/ dl.prog = "connecting"

(* A download is taken for one without its card only as long as the card is out.      *)
CardComesBack == Free /\ card /\ told => ~dl.noMedia

(* "KErrNotReady - if download is not completed yet" (MoveL): asking too early does    *)
(* not keep the download from being moved later.                                      *)
CanBeMoved == Free /\ dl.state = "completed" /\ dl.prog = "none" => ~dl.moving

(* "KErrInUse" while the file is moved (MoveL): a move that is under way ends.          *)
MoveGoesOn == Free /\ dl.prog = "moving" => dl.active
=============================================================================
