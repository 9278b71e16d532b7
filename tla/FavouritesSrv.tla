---------------------------- MODULE FavouritesSrv ----------------------------
(***************************************************************************)
(* Life of the Favourites server process and of its sessions                *)
(* (browserutilities/favouritesengine/ClientServer): RFavouritesSession::   *)
(* Connect starts the server on demand, CFavouritesSrv leaves when its last *)
(* session has been closed for ten seconds or when a backup starts, and     *)
(* CFavouritesSrvDbNotifier keeps a client's request until the database     *)
(* changes.                                                                 *)
(*                                                                         *)
(* Each client may start a server process; the name "!FAVENGSRV" admits one *)
(* of them.  A server is one thread with an active scheduler: the exit      *)
(* timer, the backup observer, the server itself and the notifiers are its  *)
(* active objects, and any of them that is ready may run next.  The kernel, *)
(* the property of the backup and the database notifications are external.  *)
(***************************************************************************)
EXTENDS Naturals

CONSTANTS
    Clients,
    MaxConnects,  \* bound: how often each client calls Connect
    MaxPublish,   \* bound: how often the backup property is published
    Events        \* which of the optional events may happen

ASSUME SrvConstants == MaxConnects \in Nat /\ MaxPublish \in Nat

VARIABLES
    proc,      \* proc[c]: the server process c started
    timer,     \* timer[c]: the exit timer of that process
    observer,  \* observer[c]: the backup observer of that process
    pc,        \* pc[c]: where client c is in Connect
    calls,     \* calls[c]: number of Connect calls so far
    sessions,  \* sessions[c]: clients with a session in that process
    notifier,  \* notifier[c]: the notifier of c's session
    answers,   \* answers[c]: completions of c's last notify request (1 if none)
    backup,    \* the published property: a backup is in progress
    published  \* number of publications so far

client == <<pc, calls>>
server == <<proc, timer, observer, sessions>>
request == <<notifier, answers>>
external == <<backup, published>>
vars == <<proc, timer, observer, pc, calls, sessions, notifier, answers, backup, published>>

Procs == {"none", "created", "checked", "running", "stopping"}

\* The process that has the server name.
Named == {p \in Clients : proc[p] \in {"running", "stopping"}}
Served(c) == \E p \in Named : c \in sessions[p]

Init ==
    /\ proc = [c \in Clients |-> "none"]
    /\ timer = [c \in Clients |-> "none"]
    /\ observer = [c \in Clients |-> "none"]
    /\ pc = [c \in Clients |-> "out"]
    /\ calls = [c \in Clients |-> 0]
    /\ sessions = [c \in Clients |-> {}]
    /\ notifier = [c \in Clients |-> "none"]
    /\ answers = [c \in Clients |-> 1]
    /\ backup \in BOOLEAN
    /\ published = 0

-----------------------------------------------------------------------------
(* The client *)

Goto(c, label) == pc' = [pc EXCEPT ![c] = label]

Connect(c) ==
    /\ pc[c] \in {"out", "failed"} /\ calls[c] < MaxConnects
    /\ ~Served(c)
    /\ calls' = [calls EXCEPT ![c] = @ + 1]
    /\ Goto(c, "first")
    /\ UNCHANGED <<server, request, external>>

\* Mutant: whoever finds no server starts one, however often.
DoConnectMutant(c) ==
    /\ pc[c] \in {"first", "again"}
    /\ Goto(c, IF Named # {} THEN "waiting" ELSE "start")
    /\ UNCHANGED <<calls, server, request, external>>

\* DoConnect: without a server of that name KErrNotFound, which only the first
\* attempt answers by starting one.  Otherwise the message waits at the server.
DoConnect(c) ==
    /\ pc[c] \in {"first", "again"}
    /\ Goto(c, CASE Named # {} -> "waiting"
                 [] Named = {} /\ pc[c] = "first" -> "start"
                 [] OTHER -> "failed")
    /\ UNCHANGED <<calls, server, request, external>>

\* FavouritesSrv::Start: create the process and wait for its rendezvous.
Start(c) ==
    /\ pc[c] = "start" /\ proc[c] = "none"
    /\ proc' = [proc EXCEPT ![c] = "created"]
    /\ Goto(c, "rendezvous")
    /\ UNCHANGED <<timer, observer, sessions, calls, request, external>>

\* The client closes its session, or dies: the kernel tells the server.
Leave(c) ==
    /\ pc[c] = "in"
    /\ Goto(c, "leaving")
    /\ UNCHANGED <<calls, server, request, external>>

-----------------------------------------------------------------------------
(* Start of the process: FavouritesSrv::Run *)

\* CreateServer: not while a backup is in progress.
CheckBackup(p) ==
    /\ proc[p] = "created"
    /\ IF backup
         THEN /\ proc' = [proc EXCEPT ![p] = "none"]
              /\ Goto(p, "failed")
         ELSE proc' = [proc EXCEPT ![p] = "checked"] /\ UNCHANGED pc
    /\ UNCHANGED <<timer, observer, sessions, calls, request, external>>

\* CFavouritesSrv::NewL starts the exit timer and subscribes to the property;
\* then CServer2::Start, KErrAlreadyExists if the name is taken; Rendezvous.
\* Either way the client tries to connect again.
Launch(p) ==
    /\ proc[p] = "checked"
    /\ IF Named = {}
         THEN /\ proc' = [proc EXCEPT ![p] = "running"]
              /\ timer' = [timer EXCEPT ![p] = "on"]
              /\ observer' = [observer EXCEPT ![p] = "subscribed"]
         ELSE /\ proc' = [proc EXCEPT ![p] = "none"]
              /\ UNCHANGED <<timer, observer>>
    /\ Goto(p, "again")
    /\ UNCHANGED <<sessions, calls, request, external>>

-----------------------------------------------------------------------------
(* The sessions *)

\* Mutant: the exit is called off first, whether or not there will be a session.
NewSessionEarlyMutant(p, c) ==
    /\ proc[p] = "running" /\ pc[c] = "waiting"
    /\ timer' = [timer EXCEPT ![p] = "off"]
    /\ \/ sessions' = [sessions EXCEPT ![p] = @ \cup {c}] /\ Goto(c, "in")
       \/ "refuse" \in Events /\ Goto(c, "failed") /\ UNCHANGED sessions
    /\ UNCHANGED <<proc, observer, calls, request, external>>

\* Mutant: the exit is not called off.
NewSessionMutant(p, c) ==
    /\ proc[p] = "running" /\ pc[c] = "waiting"
    /\ sessions' = [sessions EXCEPT ![p] = @ \cup {c}] /\ Goto(c, "in")
    /\ UNCHANGED <<proc, timer, observer, calls, request, external>>

\* NewSessionL: a session, and the exit is called off.  It may leave instead.
NewSession(p, c) ==
    /\ proc[p] = "running" /\ pc[c] = "waiting"
    /\ \/ /\ sessions' = [sessions EXCEPT ![p] = @ \cup {c}]
          /\ timer' = [timer EXCEPT ![p] = "off"]
          /\ Goto(c, "in")
       \/ /\ "refuse" \in Events
          /\ Goto(c, "failed")
          /\ UNCHANGED <<sessions, timer>>
    /\ UNCHANGED <<proc, observer, calls, request, external>>

\* Mutant: the closing session counts as one that is left.
SessionClosedMutant(t, left) == t

\* SessionClosed: the closing session is still in the queue; if it is the only
\* one, the timer starts anew.
SessionClosed(t, left) ==
    IF left # {} THEN t
    ELSE IF t = "deleted" THEN "used when deleted" ELSE "on"

\* Mutant: a request whose notification has come is not completed.
CancelledMutant(c) == IF notifier[c] = "armed" THEN answers[c] + 1 ELSE answers[c]

\* The completion of the request of an active notifier (DoCancel).
Cancelled(c) == IF notifier[c] \in {"armed", "fired"} THEN answers[c] + 1 ELSE answers[c]

\* ~CFavouritesSession releases the notifier, then tells the server.
CloseSession(p, c) ==
    /\ proc[p] = "running" /\ pc[c] = "leaving" /\ c \in sessions[p]
    /\ answers' = [answers EXCEPT ![c] = Cancelled(c)]
    /\ notifier' = [notifier EXCEPT ![c] = "none"]
    /\ timer' = [timer EXCEPT ![p] = SessionClosed(@, sessions[p] \ {c})]
    /\ sessions' = [sessions EXCEPT ![p] = @ \ {c}]
    /\ Goto(c, "out")
    /\ UNCHANGED <<proc, observer, calls, external>>

-----------------------------------------------------------------------------
(* The notifier of a session *)

CanRequest(p, c) == proc[p] = "running" /\ c \in sessions[p] /\ pc[c] = "in"

\* EFavengOpenNotifier
OpenNotifier(p, c) ==
    /\ CanRequest(p, c) /\ notifier[c] = "none"
    /\ notifier' = [notifier EXCEPT ![c] = "idle"]
    /\ UNCHANGED <<server, client, answers, external>>

\* EFavengNotifyChange, EFavengNotifyAllEvents: the message is kept; a second
\* request on an active notifier panics the client.
Notify(p, c) ==
    /\ CanRequest(p, c) /\ notifier[c] # "none"
    /\ IF notifier[c] = "idle"
         THEN /\ notifier' = [notifier EXCEPT ![c] = "armed"]
              /\ answers' = [answers EXCEPT ![c] = 0]
              /\ UNCHANGED pc
         ELSE Goto(c, "leaving") /\ UNCHANGED request
    /\ UNCHANGED <<calls, server, external>>

\* EFavengNotifyCancel
NotifyCancel(p, c) ==
    /\ CanRequest(p, c) /\ notifier[c] \in {"armed", "fired"}
    /\ notifier' = [notifier EXCEPT ![c] = "idle"]
    /\ answers' = [answers EXCEPT ![c] = Cancelled(c)]
    /\ UNCHANGED <<server, client, external>>

\* The database server completes the notification.
Changed(c) ==
    /\ notifier[c] = "armed"
    /\ notifier' = [notifier EXCEPT ![c] = "fired"]
    /\ UNCHANGED <<server, client, answers, external>>

\* CFavouritesSrvDbNotifier::RunL
NotifierRunL(p, c) ==
    /\ proc[p] = "running" /\ c \in sessions[p] /\ notifier[c] = "fired"
    /\ notifier' = [notifier EXCEPT ![c] = "idle"]
    /\ answers' = [answers EXCEPT ![c] = @ + 1]
    /\ UNCHANGED <<server, client, external>>

-----------------------------------------------------------------------------
(* The end of the process *)

\* The exit timer fires: StopScheduler.
TimerRunL(p) ==
    /\ proc[p] = "running" /\ timer[p] = "on"
    /\ proc' = [proc EXCEPT ![p] = "stopping"]
    /\ timer' = [timer EXCEPT ![p] = "off"]
    /\ UNCHANGED <<observer, sessions, client, request, external>>

\* CBackupObserver::RunL: stop for a backup.  It does not subscribe again.
ObserverRunL(p) ==
    /\ proc[p] = "running" /\ observer[p] = "fired"
    /\ observer' = [observer EXCEPT ![p] = "spent"]
    /\ proc' = [proc EXCEPT ![p] = IF backup THEN "stopping" ELSE @]
    /\ UNCHANGED <<timer, sessions, client, request, external>>

\* After the scheduler stopped: Install( NULL ), then the destructors: the exit
\* timer, then the sessions that are left, which tell the server only if there is
\* still a scheduler.  Whoever waits at the server gets KErrServerTerminated.
SchedulerInstalled(p) == proc[p] # "stopping"
Teardown(p) ==
    /\ proc[p] = "stopping"
    /\ LET left == sessions[p]
           closed == IF SchedulerInstalled(p) /\ left # {}
                       THEN SessionClosed("deleted", {}) ELSE "none"
       IN /\ timer' = [timer EXCEPT ![p] = closed]
          /\ answers' = [c \in Clients |-> IF c \in left THEN Cancelled(c) ELSE answers[c]]
          /\ notifier' = [c \in Clients |-> IF c \in left THEN "none" ELSE notifier[c]]
          /\ pc' = [c \in Clients |-> CASE c \in left -> "out"
                                        [] pc[c] = "waiting" -> "failed"
                                        [] OTHER -> pc[c]]
    /\ sessions' = [sessions EXCEPT ![p] = {}]
    /\ observer' = [observer EXCEPT ![p] = "none"]
    /\ proc' = [proc EXCEPT ![p] = "none"]
    /\ UNCHANGED <<calls, external>>

\* Somebody publishes the backup property, with the same value or another.
Publish ==
    /\ published < MaxPublish
    /\ published' = published + 1
    /\ backup' \in BOOLEAN
    /\ observer' = [p \in Clients |-> IF observer[p] = "subscribed" THEN "fired" ELSE observer[p]]
    /\ UNCHANGED <<proc, timer, sessions, client, request>>

\* Every client is done for good.
Done ==
    /\ \A c \in Clients : pc[c] \in {"out", "failed"} /\ calls[c] = MaxConnects
    /\ UNCHANGED vars

-----------------------------------------------------------------------------

ClientStep(c) == DoConnect(c) \/ Start(c)
ProcessStep(p) ==
    \/ CheckBackup(p) \/ Launch(p) \/ Teardown(p)
    \/ TimerRunL(p) \/ ObserverRunL(p)
    \/ \E c \in Clients : NewSession(p, c) \/ CloseSession(p, c) \/ NotifierRunL(p, c)

Next ==
    \/ \E c \in Clients : Connect(c) \/ ClientStep(c) \/ Leave(c) \/ Changed(c)
    \/ \E p \in Clients : ProcessStep(p)
    \/ \E p, c \in Clients : OpenNotifier(p, c) \/ Notify(p, c) \/ NotifyCancel(p, c)
    \/ Publish \/ Done

Spec == Init /\ [][Next]_vars

\* A client runs on inside Connect; a process that is ready is scheduled, and its
\* scheduler neglects no active object that stays ready.
Fairness ==
    /\ \A c \in Clients : WF_vars(ClientStep(c))
    /\ \A p \in Clients :
         /\ WF_vars(CheckBackup(p)) /\ WF_vars(Launch(p)) /\ WF_vars(Teardown(p))
         /\ WF_vars(TimerRunL(p)) /\ WF_vars(ObserverRunL(p))
         /\ \A c \in Clients : /\ WF_vars(NewSession(p, c)) /\ WF_vars(CloseSession(p, c))
                               /\ WF_vars(NotifierRunL(p, c))
FairSpec == Spec /\ Fairness

-----------------------------------------------------------------------------
(* Properties *)

(* Every variable has its type; sessions exist only in the process that has the      *)
(* server's name, and only one has it.                                              *)
TypeOK ==
    /\ proc \in [Clients -> Procs]
    /\ timer \in [Clients -> {"none", "on", "off", "deleted", "used when deleted"}]
    /\ observer \in [Clients -> {"none", "subscribed", "fired", "spent"}]
    /\ pc \in [Clients -> {"out", "first", "start", "rendezvous", "again", "waiting", "in",
                           "leaving", "failed"}]
    /\ calls \in [Clients -> 0 .. MaxConnects]
    /\ sessions \in [Clients -> SUBSET Clients]
    /\ notifier \in [Clients -> {"none", "idle", "armed", "fired"}]
    /\ answers \in [Clients -> Nat]
    /\ backup \in BOOLEAN /\ published \in 0 .. MaxPublish
    /\ \A p \in Clients : sessions[p] # {} => p \in Named
    /\ \A p, q \in Named : p = q

(* A server without sessions is about to leave: its exit timer runs, whatever order  *)
(* sessions were opened, refused and closed in (NewSessionL, SessionClosed).  The     *)
(* sessions that outlive the scheduler find no timer and start none                  *)
(* (~CFavouritesSession asks for CActiveScheduler::Current()).                       *)
ExitScheduled ==
    /\ TypeOK
    /\ \A p \in Clients : /\ proc[p] = "running" => (timer[p] = "on" <=> sessions[p] = {})
                          /\ timer[p] # "used when deleted"

(* Only a backup takes the server from under a session: the exit timer of a server   *)
(* that has one never fires, though it may have expired when the session came.       *)
StopsUnused ==
    [][\A p \in Clients : proc[p] = "running" /\ proc'[p] = "stopping"
                              => sessions[p] = {} \/ backup]_vars

(* A notify request is answered once: never twice, and as long as it is not, a       *)
(* notifier holds it that will.  A change, a cancellation, the end of the session    *)
(* and the end of the server do not drop it, in any order.                           *)
OneAnswer ==
    \A c \in Clients :
        /\ answers[c] <= 1
        /\ answers[c] = 0 <=> notifier[c] \in {"armed", "fired"}
        /\ answers[c] = 0 => Served(c)
        /\ Served(c) => pc[c] \in {"in", "leaving"}

(* Connect returns: no client waits for ever at a server that is on its way out, or  *)
(* for a process that never reports.                                                 *)
ConnectReturns ==
    \A c \in Clients :
        pc[c] \in {"first", "start", "rendezvous", "again", "waiting"}
            ~> pc[c] \in {"in", "failed"}

(* A server that nobody uses any more goes away.                                     *)
ServerLeaves ==
    \A p \in Clients :
        [](\A c \in Clients : pc[c] \in {"out", "failed"}) ~> proc[p] = "none"

-----------------------------------------------------------------------------
(* Claims that do not hold *)

(* "Deal with race conditions" (RFavouritesSession::Connect): without a backup and    *)
(* without an error of the server, Connect succeeds.                                 *)
ConnectSucceeds == \A c \in Clients : pc[c] = "failed" => backup \/ published > 0

(* "Backup is in progress, stopping server" (CBackupObserver::RunL): a server does   *)
(* not stay up through a backup.                                                     *)
BackupStopsServer ==
    \A p \in Clients : (proc[p] = "running" /\ backup) ~> (proc[p] = "none" \/ ~backup)
=============================================================================
