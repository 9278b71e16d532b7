------------------------ MODULE FavouritesSrvProofs ------------------------
(***************************************************************************)
(* Proofs about the life of the Favourites server: for any number of        *)
(* clients, connections and backups, and in any order of the active          *)
(* objects, a server without sessions is about to leave, one with sessions   *)
(* stops for a backup only, and a notify request is answered once.           *)
(***************************************************************************)
EXTENDS FavouritesSrv, TLAPS

(* TypeOK by variable, so that a step of the proof can expand the ones it needs. *)
Labels == {"out", "first", "start", "rendezvous", "again", "waiting", "in", "leaving", "failed"}
ProcType == proc \in [Clients -> Procs]
TimerType == timer \in [Clients -> {"none", "on", "off", "deleted", "used when deleted"}]
ObserverType == observer \in [Clients -> {"none", "subscribed", "fired", "spent"}]
PcType == pc \in [Clients -> Labels]
CallsType == calls \in [Clients -> 0 .. MaxConnects]
SessionsType == sessions \in [Clients -> SUBSET Clients]
NotifierType == notifier \in [Clients -> {"none", "idle", "armed", "fired"}]
AnswersType == answers \in [Clients -> Nat]
BackupType == backup \in BOOLEAN /\ published \in 0 .. MaxPublish
VarTypes == ProcType /\ TimerType /\ ObserverType /\ PcType /\ CallsType /\ SessionsType
                /\ NotifierType /\ AnswersType /\ BackupType

(* One process has the server's name, and only that one has sessions. *)
OneServer ==
    /\ \A p \in Clients : sessions[p] # {} => p \in Named
    /\ \A p, q \in Named : p = q

(* ExitScheduled without the types.  No timer is deleted before the scheduler is gone. *)
Scheduled ==
    \A p \in Clients :
        /\ proc[p] = "running" => (timer[p] = "on" <=> sessions[p] = {})
        /\ timer[p] \notin {"deleted", "used when deleted"}

(* A client whose process is being started waits for its rendezvous: it has no
   session yet, so that the end of the start cannot take it out of one. *)
StartAwaited == \A p \in Clients : proc[p] \in {"created", "checked"} => pc[p] = "rendezvous"

(* The inductive invariant. *)
IInv == VarTypes /\ OneServer /\ Scheduled /\ StartAwaited /\ OneAnswer

-----------------------------------------------------------------------------
(* What the steps share                                                     *)

LEMMA InitLemma == Init => IInv
<1>. SUFFICES ASSUME Init PROVE IInv
  OBVIOUS
<1>1. VarTypes
  BY SrvConstants DEF SrvConstants, Init, VarTypes, ProcType, TimerType, ObserverType, PcType, CallsType,
     SessionsType, NotifierType, AnswersType, BackupType, Procs, Labels
<1>2. OneServer /\ Scheduled /\ StartAwaited /\ OneAnswer
  BY DEF Init, OneServer, Scheduled, StartAwaited, OneAnswer, Named, Served
<1>. QED
  BY <1>1, <1>2 DEF IInv

(* The completion of a request that is not answered yet is its first. *)
LEMMA CancelledLemma ==
  ASSUME AnswersType, OneAnswer, NEW c \in Clients
  PROVE  Cancelled(c) = 1
BY DEF AnswersType, OneAnswer, Cancelled

(* The server a client has a session with is the only one that serves it. *)
LEMMA ServedLemma ==
  ASSUME IInv, NEW p \in Clients, NEW c \in Clients, c \in sessions[p]
  PROVE  /\ p \in Named /\ Named = {p} /\ Served(c)
         /\ \A q \in Clients \ {p} : sessions[q] = {}
BY DEF IInv, OneServer, Served, Named

(* A client moves on and nothing else changes. *)
LEMMA MoveLemma ==
  ASSUME IInv, NEW c \in Clients, NEW label \in Labels, Goto(c, label),
         UNCHANGED <<server, request, external>>, CallsType',
         Served(c) => label \in {"in", "leaving"},
         proc[c] \in {"created", "checked"} => label = "rendezvous"
  PROVE  IInv'
<1>. USE DEF IInv, Goto, server, request, external
<1>1. VarTypes'
  BY DEF VarTypes, ProcType, TimerType, ObserverType, PcType, SessionsType,
     NotifierType, AnswersType, BackupType
<1>2. OneServer' /\ Scheduled'
  BY DEF OneServer, Scheduled, Named
<1>3. StartAwaited'
  BY DEF VarTypes, PcType, StartAwaited
<1>4. \A d \in Clients : Served(d)' = Served(d)
  BY DEF Served, Named
<1>5. OneAnswer'
  BY <1>4 DEF VarTypes, PcType, OneAnswer
<1>. QED
  BY <1>1, <1>2, <1>3, <1>5

-----------------------------------------------------------------------------
(* The client                                                               *)

LEMMA ConnectLemma == ASSUME IInv, NEW c \in Clients, Connect(c) PROVE IInv'
<1>1. calls[c] + 1 \in 0 .. MaxConnects
  BY SrvConstants DEF SrvConstants, Connect, IInv, VarTypes, CallsType
<1>2. CallsType'
  BY <1>1 DEF Connect, IInv, VarTypes, CallsType
<1>3. proc[c] \notin {"created", "checked"}
  BY DEF Connect, IInv, StartAwaited
<1>. QED
  BY <1>2, <1>3, MoveLemma DEF Connect, Labels

LEMMA DoConnectLemma == ASSUME IInv, NEW c \in Clients, DoConnect(c) PROVE IInv'
<1>1. CallsType'
  BY DEF DoConnect, IInv, VarTypes, CallsType
<1>2. proc[c] \notin {"created", "checked"}
  BY DEF DoConnect, IInv, StartAwaited
<1>3. ~Served(c)
  BY DEF DoConnect, IInv, OneAnswer
<1>4. PICK label \in Labels : Goto(c, label)
  BY DEF DoConnect, Labels
<1>. QED
  BY <1>1, <1>2, <1>3, <1>4, MoveLemma DEF DoConnect

LEMMA LeaveLemma == ASSUME IInv, NEW c \in Clients, Leave(c) PROVE IInv'
<1>1. CallsType'
  BY DEF Leave, IInv, VarTypes, CallsType
<1>2. proc[c] \notin {"created", "checked"}
  BY DEF Leave, IInv, StartAwaited
<1>. QED
  BY <1>1, <1>2, MoveLemma DEF Leave, Labels

LEMMA StartLemma == ASSUME IInv, NEW c \in Clients, Start(c) PROVE IInv'
<1>. USE DEF IInv, Start, Goto, request, external
<1>1. VarTypes'
  BY DEF VarTypes, ProcType, TimerType, ObserverType, PcType, CallsType, SessionsType,
     NotifierType, AnswersType, BackupType, Procs, Labels
<1>2. Named' = Named
  BY DEF VarTypes, ProcType, Named
<1>3. OneServer' /\ Scheduled'
  BY <1>2 DEF VarTypes, ProcType, OneServer, Scheduled
<1>4. StartAwaited'
  BY DEF VarTypes, ProcType, PcType, StartAwaited
<1>5. ~Served(c) /\ \A d \in Clients : Served(d)' = Served(d)
  BY <1>2 DEF Served, OneAnswer
<1>6. OneAnswer'
  BY <1>5 DEF VarTypes, PcType, OneAnswer
<1>. QED
  BY <1>1, <1>3, <1>4, <1>6

-----------------------------------------------------------------------------
(* The start of a process                                                   *)

(* A process that is being started has no name yet and its client no session. *)
LEMMA StartingLemma ==
  ASSUME IInv, NEW p \in Clients, proc[p] \in {"created", "checked"}
  PROVE  p \notin Named /\ pc[p] = "rendezvous" /\ ~Served(p)
BY DEF IInv, StartAwaited, Named, OneAnswer

LEMMA CheckBackupLemma == ASSUME IInv, NEW p \in Clients, CheckBackup(p) PROVE IInv'
<1>. USE DEF IInv, CheckBackup, Goto, request, external
<1>1. VarTypes'
  BY DEF VarTypes, ProcType, TimerType, ObserverType, PcType, CallsType, SessionsType,
     NotifierType, AnswersType, BackupType, Procs, Labels
<1>2. p \notin Named /\ pc[p] = "rendezvous" /\ ~Served(p)
  BY StartingLemma
<1>3. Named' = Named
  BY DEF VarTypes, ProcType, Named
<1>4. OneServer' /\ Scheduled'
  BY <1>3 DEF VarTypes, ProcType, OneServer, Scheduled
<1>5. StartAwaited'
  BY <1>2 DEF VarTypes, ProcType, PcType, StartAwaited
<1>6. \A d \in Clients : Served(d)' = Served(d)
  BY <1>3 DEF Served
<1>7. OneAnswer'
  BY <1>2, <1>6 DEF VarTypes, PcType, OneAnswer
<1>. QED
  BY <1>1, <1>4, <1>5, <1>7

(* The new server has no sessions and a timer that runs. *)
LEMMA LaunchLemma == ASSUME IInv, NEW p \in Clients, Launch(p) PROVE IInv'
<1>. USE DEF IInv, Launch, Goto, request, external
<1>1. VarTypes'
  BY DEF VarTypes, ProcType, TimerType, ObserverType, PcType, CallsType, SessionsType,
     NotifierType, AnswersType, BackupType, Procs, Labels
<1>2. p \notin Named /\ pc[p] = "rendezvous" /\ ~Served(p) /\ sessions[p] = {}
  BY StartingLemma DEF OneServer
<1>3. OneServer'
  BY DEF VarTypes, ProcType, OneServer, Named
<1>4. Scheduled'
  BY <1>2 DEF VarTypes, ProcType, TimerType, Scheduled
<1>5. StartAwaited'
  BY DEF VarTypes, ProcType, PcType, StartAwaited
<1>6. \A d \in Clients : Served(d)' = Served(d)
  BY <1>2 DEF VarTypes, ProcType, Served, Named
<1>7. OneAnswer'
  BY <1>2, <1>6 DEF VarTypes, PcType, OneAnswer
<1>. QED
  BY <1>1, <1>3, <1>4, <1>5, <1>7

-----------------------------------------------------------------------------
(* The sessions                                                             *)

LEMMA NewSessionLemma ==
  ASSUME IInv, NEW p \in Clients, NEW c \in Clients, NewSession(p, c)
  PROVE  IInv'
<1>1. ~Served(c) /\ proc[c] \notin {"created", "checked"}
  BY DEF NewSession, IInv, OneAnswer, StartAwaited
<1>2. CASE Goto(c, "failed") /\ UNCHANGED <<sessions, timer>>
  <2>1. CallsType'
    BY DEF NewSession, IInv, VarTypes, CallsType
  <2>. QED
    BY <1>1, <1>2, <2>1, MoveLemma DEF NewSession, Labels, server
<1>3. CASE /\ sessions' = [sessions EXCEPT ![p] = @ \cup {c}]
           /\ timer' = [timer EXCEPT ![p] = "off"]
           /\ Goto(c, "in")
  <2>. USE <1>3 DEF IInv, Goto, request, external
  <2>1. proc[p] = "running" /\ pc[c] = "waiting" /\ UNCHANGED <<proc, observer, calls, request, external>>
    BY DEF NewSession
  <2>2. VarTypes'
    BY <2>1 DEF VarTypes, ProcType, TimerType, ObserverType, PcType, CallsType, SessionsType,
       NotifierType, AnswersType, BackupType, Labels
  <2>3. Named' = Named /\ p \in Named
    BY <2>1 DEF Named
  <2>4. OneServer'
    BY <2>3 DEF VarTypes, SessionsType, OneServer
  <2>5. Scheduled'
    BY <2>1 DEF VarTypes, SessionsType, TimerType, Scheduled
  <2>6. StartAwaited'
    BY <2>1, <1>1 DEF VarTypes, PcType, StartAwaited
  <2>7. Served(c)' /\ \A d \in Clients \ {c} : Served(d)' = Served(d)
    BY <2>3 DEF VarTypes, SessionsType, Served
  <2>8. OneAnswer'
    BY <2>1, <2>7 DEF VarTypes, PcType, OneAnswer
  <2>. QED
    BY <2>2, <2>4, <2>5, <2>6, <2>8
<1>. QED
  BY <1>2, <1>3 DEF NewSession

(* The request of the session is answered, and the last session starts the timer. *)
LEMMA CloseSessionLemma ==
  ASSUME IInv, NEW p \in Clients, NEW c \in Clients, CloseSession(p, c)
  PROVE  IInv'
<1>. USE DEF IInv, CloseSession, Goto, external
<1>1. Cancelled(c) = 1
  BY CancelledLemma DEF VarTypes
<1>2. Named = {p} /\ (\A q \in Clients \ {p} : sessions[q] = {}) /\ Named' = Named
  BY ServedLemma DEF Named
<1>3. /\ timer[p] # "deleted"
      /\ SessionClosed(timer[p], sessions[p] \ {c})
            = IF sessions[p] \ {c} = {} THEN "on" ELSE timer[p]
  BY DEF Scheduled, SessionClosed
<1>4. timer' = [timer EXCEPT ![p] = IF sessions[p] \ {c} = {} THEN "on" ELSE timer[p]]
  BY <1>3
<1>5. VarTypes'
  <2>1. TimerType'
    BY <1>4 DEF VarTypes, TimerType
  <2>2. AnswersType'
    BY <1>1 DEF VarTypes, AnswersType
  <2>3. SessionsType' /\ NotifierType' /\ PcType'
    BY DEF VarTypes, SessionsType, NotifierType, PcType, Labels
  <2>4. ProcType' /\ ObserverType' /\ CallsType' /\ BackupType'
    BY DEF VarTypes, ProcType, ObserverType, CallsType, BackupType
  <2>. QED
    BY <2>1, <2>2, <2>3, <2>4 DEF VarTypes
<1>6. OneServer'
  BY <1>2 DEF VarTypes, SessionsType, OneServer
<1>7. Scheduled'
  BY <1>4 DEF VarTypes, SessionsType, TimerType, Scheduled
<1>8. StartAwaited'
  BY DEF VarTypes, PcType, StartAwaited
<1>9. ~Served(c)' /\ \A d \in Clients \ {c} : Served(d)' = Served(d)
  BY <1>2 DEF VarTypes, SessionsType, Served
<1>10. OneAnswer'
  <2>. SUFFICES ASSUME NEW d \in Clients
                PROVE  /\ answers'[d] <= 1
                       /\ answers'[d] = 0 <=> notifier'[d] \in {"armed", "fired"}
                       /\ answers'[d] = 0 => Served(d)'
                       /\ Served(d)' => pc'[d] \in {"in", "leaving"}
    BY DEF OneAnswer
  <2>1. CASE d = c
    BY <2>1, <1>1, <1>9 DEF VarTypes, AnswersType, NotifierType
  <2>2. CASE d # c
    BY <2>2, <1>9 DEF VarTypes, AnswersType, NotifierType, PcType, OneAnswer
  <2>. QED
    BY <2>1, <2>2
<1>. QED
  BY <1>5, <1>6, <1>7, <1>8, <1>10

-----------------------------------------------------------------------------
(* The notifiers                                                            *)

(* A step of one client's notifier: the request it leaves open is one that the
   client's session holds. *)
LEMMA NotifierLemma ==
  ASSUME IInv, NEW p \in Clients, NEW c \in Clients, c \in sessions[p],
         NEW n \in {"idle", "armed", "fired"}, NEW a \in {0, 1}, IF n = "idle" THEN a = 1 ELSE a = 0,
         notifier' = [notifier EXCEPT ![c] = n], answers' = [answers EXCEPT ![c] = a],
         UNCHANGED <<server, client, external>>
  PROVE  IInv'
<1>. USE DEF IInv, server, client, external
<1>1. VarTypes'
  <2>1. NotifierType'
    BY DEF VarTypes, NotifierType
  <2>2. AnswersType'
    BY DEF VarTypes, AnswersType
  <2>3. ProcType' /\ TimerType' /\ ObserverType' /\ PcType' /\ CallsType' /\ SessionsType'
            /\ BackupType'
    BY DEF VarTypes, ProcType, TimerType, ObserverType, PcType, CallsType, SessionsType, BackupType
  <2>. QED
    BY <2>1, <2>2, <2>3 DEF VarTypes
<1>2. OneServer' /\ Scheduled' /\ StartAwaited'
  BY DEF OneServer, Scheduled, StartAwaited, Named
<1>3. Served(c) /\ \A d \in Clients : Served(d)' = Served(d)
  BY ServedLemma DEF Served, Named
<1>4. OneAnswer'
  BY <1>3 DEF VarTypes, NotifierType, AnswersType, OneAnswer
<1>. QED
  BY <1>1, <1>2, <1>4

LEMMA OpenNotifierLemma ==
  ASSUME IInv, NEW p \in Clients, NEW c \in Clients, OpenNotifier(p, c)
  PROVE  IInv'
<1>1. answers[c] = 1
  BY DEF OpenNotifier, IInv, VarTypes, AnswersType, OneAnswer
<1>2. answers' = [answers EXCEPT ![c] = 1]
  BY <1>1 DEF OpenNotifier, IInv, VarTypes, AnswersType
<1>3. c \in sessions[p] /\ notifier' = [notifier EXCEPT ![c] = "idle"]
         /\ UNCHANGED <<server, client, external>>
  BY DEF OpenNotifier, CanRequest
<1>. QED
  BY <1>2, <1>3, NotifierLemma

(* A second request takes the client, not its first request, down. *)
LEMMA NotifyLemma ==
  ASSUME IInv, NEW p \in Clients, NEW c \in Clients, Notify(p, c)
  PROVE  IInv'
<1>1. CASE notifier[c] = "idle"
  <2>1. /\ c \in sessions[p] /\ UNCHANGED <<server, client, external>>
        /\ notifier' = [notifier EXCEPT ![c] = "armed"]
        /\ answers' = [answers EXCEPT ![c] = 0]
    BY <1>1 DEF Notify, CanRequest, client
  <2>. QED
    BY <2>1, NotifierLemma
<1>2. CASE notifier[c] # "idle"
  <2>1. CallsType'
    BY DEF Notify, IInv, VarTypes, CallsType
  <2>2. proc[c] \notin {"created", "checked"}
    BY DEF Notify, CanRequest, IInv, StartAwaited
  <2>. QED
    BY <1>2, <2>1, <2>2, MoveLemma DEF Notify, Labels
<1>. QED
  BY <1>1, <1>2

LEMMA NotifyCancelLemma ==
  ASSUME IInv, NEW p \in Clients, NEW c \in Clients, NotifyCancel(p, c)
  PROVE  IInv'
<1>1. Cancelled(c) = 1
  BY CancelledLemma DEF IInv, VarTypes
<1>2. /\ c \in sessions[p] /\ UNCHANGED <<server, client, external>>
      /\ notifier' = [notifier EXCEPT ![c] = "idle"]
      /\ answers' = [answers EXCEPT ![c] = 1]
  BY <1>1 DEF NotifyCancel, CanRequest
<1>. QED
  BY <1>2, NotifierLemma

(* The database server completes a notification only for a session that waits. *)
LEMMA ChangedLemma == ASSUME IInv, NEW c \in Clients, Changed(c) PROVE IInv'
<1>1. answers[c] = 0
  BY DEF Changed, IInv, OneAnswer
<1>2. PICK p \in Clients : c \in sessions[p]
  BY <1>1 DEF IInv, OneAnswer, Served, Named
<1>3. answers' = [answers EXCEPT ![c] = 0]
  BY <1>1 DEF Changed, IInv, VarTypes, AnswersType
<1>4. notifier' = [notifier EXCEPT ![c] = "fired"] /\ UNCHANGED <<server, client, external>>
  BY DEF Changed
<1>. QED
  BY <1>2, <1>3, <1>4, NotifierLemma

LEMMA NotifierRunLLemma ==
  ASSUME IInv, NEW p \in Clients, NEW c \in Clients, NotifierRunL(p, c)
  PROVE  IInv'
<1>1. answers[c] = 0
  BY DEF NotifierRunL, IInv, OneAnswer
<1>2. /\ c \in sessions[p] /\ UNCHANGED <<server, client, external>>
      /\ notifier' = [notifier EXCEPT ![c] = "idle"]
      /\ answers' = [answers EXCEPT ![c] = 1]
  BY <1>1 DEF NotifierRunL
<1>. QED
  BY <1>2, NotifierLemma

-----------------------------------------------------------------------------
(* The end of a process                                                     *)

LEMMA TimerRunLLemma == ASSUME IInv, NEW p \in Clients, TimerRunL(p) PROVE IInv'
<1>. USE DEF IInv, TimerRunL, client, request, external
<1>1. VarTypes'
  BY DEF VarTypes, ProcType, TimerType, ObserverType, PcType, CallsType, SessionsType,
     NotifierType, AnswersType, BackupType, Procs
<1>2. Named' = Named
  BY DEF VarTypes, ProcType, Named
<1>3. OneServer' /\ Scheduled' /\ StartAwaited'
  BY <1>2 DEF VarTypes, ProcType, TimerType, OneServer, Scheduled, StartAwaited
<1>4. OneAnswer'
  BY <1>2 DEF OneAnswer, Served
<1>. QED
  BY <1>1, <1>3, <1>4

LEMMA ObserverRunLLemma == ASSUME IInv, NEW p \in Clients, ObserverRunL(p) PROVE IInv'
<1>. USE DEF IInv, ObserverRunL, client, request, external
<1>1. VarTypes'
  BY DEF VarTypes, ProcType, TimerType, ObserverType, PcType, CallsType, SessionsType,
     NotifierType, AnswersType, BackupType, Procs
<1>2. Named' = Named
  BY DEF VarTypes, ProcType, Named
<1>3. OneServer' /\ Scheduled' /\ StartAwaited'
  BY <1>2 DEF VarTypes, ProcType, OneServer, Scheduled, StartAwaited
<1>4. OneAnswer'
  BY <1>2 DEF OneAnswer, Served
<1>. QED
  BY <1>1, <1>3, <1>4

(* The sessions that are left are the only ones there are: their requests are
   answered, and nobody else has one open. *)
LEMMA TeardownLemma == ASSUME IInv, NEW p \in Clients, Teardown(p) PROVE IInv'
<1>. USE DEF IInv
<1>1. /\ timer' = [timer EXCEPT ![p] = "none"]
      /\ answers' = [c \in Clients |-> IF c \in sessions[p] THEN Cancelled(c) ELSE answers[c]]
      /\ notifier' = [c \in Clients |-> IF c \in sessions[p] THEN "none" ELSE notifier[c]]
      /\ pc' = [c \in Clients |-> IF c \in sessions[p] THEN "out"
                                    ELSE IF pc[c] = "waiting" THEN "failed" ELSE pc[c]]
      /\ sessions' = [sessions EXCEPT ![p] = {}]
      /\ observer' = [observer EXCEPT ![p] = "none"]
      /\ proc[p] = "stopping" /\ proc' = [proc EXCEPT ![p] = "none"]
      /\ UNCHANGED <<calls, backup, published>>
  <2>1. \A c \in sessions[p] : pc[c] # "waiting"
    BY ServedLemma DEF VarTypes, SessionsType, OneAnswer
  <2>2. timer' = [timer EXCEPT ![p] = "none"]
    BY DEF Teardown, SchedulerInstalled
  <2>3. \A c \in Clients : pc'[c] = IF c \in sessions[p] THEN "out"
                                    ELSE IF pc[c] = "waiting" THEN "failed" ELSE pc[c]
    BY <2>1 DEF Teardown
  <2>4. pc' = [c \in Clients |-> pc'[c]]
    BY DEF Teardown
  <2>. QED
    BY <2>2, <2>3, <2>4 DEF Teardown, external
<1>2. \A c \in Clients : Cancelled(c) = 1
  BY CancelledLemma DEF VarTypes
<1>3. VarTypes'
  <2>1. AnswersType'
    BY <1>1, <1>2 DEF VarTypes, AnswersType
  <2>2. PcType' /\ NotifierType'
    BY <1>1 DEF VarTypes, PcType, NotifierType, Labels
  <2>3. SessionsType' /\ ObserverType' /\ TimerType' /\ ProcType'
    BY <1>1 DEF VarTypes, SessionsType, ObserverType, TimerType, ProcType, Procs
  <2>4. CallsType' /\ BackupType'
    BY <1>1 DEF VarTypes, CallsType, BackupType
  <2>. QED
    BY <2>1, <2>2, <2>3, <2>4 DEF VarTypes
<1>4. Named' = {} /\ \A q \in Clients : sessions'[q] = {}
  BY <1>1 DEF VarTypes, ProcType, SessionsType, OneServer, Named
<1>5. \A c \in Clients : Served(c) <=> c \in sessions[p]
  BY <1>1 DEF OneServer, Served, Named
<1>6. OneServer'
  BY <1>4 DEF OneServer
<1>7. Scheduled'
  BY <1>1 DEF VarTypes, ProcType, TimerType, SessionsType, Scheduled
<1>8. StartAwaited'
  BY <1>1, <1>5 DEF VarTypes, ProcType, StartAwaited, OneAnswer
<1>9. \A c \in Clients : ~Served(c)'
  BY <1>4 DEF Served
<1>10. \A c \in Clients : answers'[c] = 1 /\ notifier'[c] \in {"none", "idle"}
  BY <1>1, <1>2, <1>5 DEF VarTypes, AnswersType, NotifierType, OneAnswer
<1>11. OneAnswer'
  BY <1>9, <1>10 DEF OneAnswer
<1>. QED
  BY <1>3, <1>6, <1>7, <1>8, <1>11

LEMMA PublishLemma == ASSUME IInv, Publish PROVE IInv'
<1>. USE DEF IInv, Publish, client, request
<1>1. published + 1 \in 0 .. MaxPublish
  BY SrvConstants DEF SrvConstants, VarTypes, BackupType
<1>2. VarTypes'
  BY <1>1 DEF VarTypes, ProcType, TimerType, ObserverType, PcType, CallsType, SessionsType,
     NotifierType, AnswersType, BackupType
<1>3. OneServer' /\ Scheduled' /\ StartAwaited'
  BY ZenonT(60) DEF OneServer, Scheduled, StartAwaited, Named
<1>4. OneAnswer'
  BY DEF OneAnswer, Served, Named
<1>. QED
  BY <1>2, <1>3, <1>4

LEMMA StutterLemma == ASSUME IInv, UNCHANGED vars PROVE IInv'
<1>. USE DEF IInv, vars
<1>1. VarTypes'
  BY DEF VarTypes, ProcType, TimerType, ObserverType, PcType, CallsType, SessionsType,
     NotifierType, AnswersType, BackupType
<1>2. OneServer' /\ Scheduled' /\ StartAwaited'
  BY ZenonT(60) DEF OneServer, Scheduled, StartAwaited, Named
<1>3. OneAnswer'
  BY DEF OneAnswer, Served, Named
<1>. QED
  BY <1>1, <1>2, <1>3

-----------------------------------------------------------------------------
(* The theorems                                                             *)

LEMMA NextLemma == ASSUME IInv, [Next]_vars PROVE IInv'
<1>1. ASSUME NEW c \in Clients,
             Connect(c) \/ DoConnect(c) \/ Start(c) \/ Leave(c) \/ Changed(c)
      PROVE  IInv'
  BY <1>1, ConnectLemma, DoConnectLemma, StartLemma, LeaveLemma, ChangedLemma
<1>2. ASSUME NEW p \in Clients,
             \/ CheckBackup(p) \/ Launch(p) \/ Teardown(p) \/ TimerRunL(p) \/ ObserverRunL(p)
      PROVE  IInv'
  BY <1>2, CheckBackupLemma, LaunchLemma, TeardownLemma, TimerRunLLemma, ObserverRunLLemma
<1>3. ASSUME NEW p \in Clients, NEW c \in Clients,
             NewSession(p, c) \/ CloseSession(p, c) \/ NotifierRunL(p, c)
      PROVE  IInv'
  BY <1>3, NewSessionLemma, CloseSessionLemma, NotifierRunLLemma
<1>4. ASSUME NEW p \in Clients, NEW c \in Clients,
             OpenNotifier(p, c) \/ Notify(p, c) \/ NotifyCancel(p, c)
      PROVE  IInv'
  BY <1>4, OpenNotifierLemma, NotifyLemma, NotifyCancelLemma
<1>5. CASE Done
  BY <1>5, StutterLemma DEF Done
<1>. QED
  BY <1>1, <1>2, <1>3, <1>4, <1>5, PublishLemma, StutterLemma DEF Next, ClientStep, ProcessStep

LEMMA Inductive == Spec => []IInv
<1>. QED
  BY InitLemma, NextLemma, PTL DEF Spec

(* A running server without sessions has its exit timer on, and only one without     *)
(* sessions has (NewSessionL, SessionClosed); no timer is used after its deletion.    *)
THEOREM ExitIsScheduled == Spec => []ExitScheduled
<1>1. IInv => ExitScheduled
  BY DEF IInv, VarTypes, ProcType, TimerType, ObserverType, PcType, CallsType, SessionsType,
     NotifierType, AnswersType, BackupType, Labels, OneServer, Scheduled, ExitScheduled, TypeOK
<1>. QED
  BY <1>1, Inductive, PTL

(* Every request to be notified is completed once, or is still held by the notifier   *)
(* of a session that is served (CFavouritesSrvDbNotifier).                            *)
THEOREM AnsweredOnce == Spec => []OneAnswer
<1>1. IInv => OneAnswer
  BY DEF IInv
<1>. QED
  BY <1>1, Inductive, PTL

(* A server is not stopped under a session except for a backup: when its exit timer   *)
(* fires nobody has a session (CTimeout::RunL, CBackupObserver::RunL).                *)
THEOREM NotStoppedInUse == Spec => StopsUnused
<1>. DEFINE Stops(p) == proc[p] = "running" /\ proc'[p] = "stopping"
                            => sessions[p] = {} \/ backup
<1>1. ASSUME IInv, [Next]_vars, NEW p \in Clients PROVE Stops(p)
  <2>1. ASSUME NEW c \in Clients, ClientStep(c) PROVE Stops(p)
    BY <1>1, <2>1 DEF ClientStep, DoConnect, Start, server, IInv, VarTypes, ProcType
  <2>2. ASSUME NEW q \in Clients, CheckBackup(q) \/ Launch(q) \/ Teardown(q) PROVE Stops(p)
    BY <1>1, <2>2 DEF CheckBackup, Launch, Teardown, IInv, VarTypes, ProcType
  <2>3. ASSUME NEW q \in Clients, TimerRunL(q) PROVE Stops(p)
    BY <1>1, <2>3 DEF TimerRunL, IInv, VarTypes, ProcType, Scheduled
  <2>4. ASSUME NEW q \in Clients, ObserverRunL(q) PROVE Stops(p)
    BY <1>1, <2>4 DEF ObserverRunL, IInv, VarTypes, ProcType
  <2>5. ASSUME NEW q \in Clients, NEW c \in Clients,
               NewSession(q, c) \/ CloseSession(q, c) \/ NotifierRunL(q, c)
        PROVE  Stops(p)
    BY <2>5 DEF NewSession, CloseSession, NotifierRunL, server
  <2>6. ASSUME NEW q \in Clients, NEW c \in Clients,
               OpenNotifier(q, c) \/ Notify(q, c) \/ NotifyCancel(q, c)
        PROVE  Stops(p)
    BY <2>6 DEF OpenNotifier, Notify, NotifyCancel, server
  <2>7. ASSUME NEW c \in Clients, Connect(c) \/ Leave(c) \/ Changed(c) PROVE Stops(p)
    BY <2>7 DEF Connect, Leave, Changed, server
  <2>8. CASE Publish \/ Done \/ UNCHANGED vars
    BY <2>8 DEF Publish, Done, vars
  <2>. QED
    BY <1>1, <2>1, <2>2, <2>3, <2>4, <2>5, <2>6, <2>7, <2>8 DEF Next, ProcessStep
<1>2. ASSUME IInv, [Next]_vars PROVE \A p \in Clients : Stops(p)
  BY <1>1, <1>2
<1>. QED
  BY <1>2, Inductive, PTL DEF Spec, StopsUnused
=============================================================================
