----------------------------- MODULE PowerSystem -----------------------------
(***************************************************************************)
(* The power reference application and the TCU activity server together:   *)
(* EventManager is the master of PowerManagerServiceImpl.  A request of    *)
(* the one is a handler of the other; the consolidated acks of a cycle     *)
(* come back as an ack indication.  Slaves connect, answer or stay silent  *)
(* meanwhile.                                                              *)
(*                                                                         *)
(* A handler of the server and the return of the call that it serves are   *)
(* one step: the caller waits for nothing else in between.                 *)
(***************************************************************************)
EXTENDS PowerManagerService

CONSTANTS MaxEvents, Triggers

\* A machine suspended alone takes SendActivityState through another branch, whose
\* RESUME does not halt a suspend: the system is composed for all machines.
ASSUME SystemAssumption ==
    MaxEvents \in Nat /\ Triggers \subseteq [st : States, mach : {"ALL"}]

VARIABLES eventQueue_, status, service, sending, thenRelease, callbacks, expected,
          ackStatus, releases, wakeLock, answers, latest, lastSent, lost,
          eventOf      \* the event that each cycle of the server serves

EM == INSTANCE PowerRefEventManager

emVars == <<eventQueue_, status, service, sending, thenRelease, callbacks, expected,
            ackStatus, releases, wakeLock, answers, latest, lastSent, lost>>
sysVars == <<vars, emVars, eventOf>>

SysInit == Init /\ EM!EMInit /\ eventOf = [c \in 1 .. MaxRequests |-> EM!NoEvent]

-----------------------------------------------------------------------------
(* The event manager's own steps.                                           *)

Local ==
    /\ \/ \E e \in EM!Event : /\ master_    \* init() has registered the master
                              /\ EM!PushBehind(e) \/ EM!PushFirst(e)
       \/ \E c \in callbacks : EM!Callback(c)
       \/ \E a \in ackStatus : EM!onSlaveAckStatusUpdate(a)
       \/ EM!ReleaseWakeLock
    /\ UNCHANGED <<vars, eventOf>>

-----------------------------------------------------------------------------
(* The request: PowerGrpcClient::sendActivityStateCommand and the handler.  *)

st == sending.st
mach == sending.mach
Sending == sending # EM!NoEvent

Accepted == EM!RequestAccepted /\ eventOf' = [eventOf EXCEPT ![requests'] = sending]

RequestDown == Sending /\ st \in Down /\ SendDown(st, mach) /\ Accepted

RequestResume ==
    /\ Sending /\ st = "RESUME"
    /\ SendResumeLater(mach)
    /\ Accepted

\* INCOMPATIBLE_STATE: the machine is there already.  (Mutant: answered SUCCESS.)
RequestSameAccepted ==
    /\ Sending /\ st \in Down /\ st = Current(mach)
    /\ EM!RequestAccepted
    /\ UNCHANGED <<vars, eventOf>>

RequestSame ==
    /\ Sending /\ st \in Down /\ st = Current(mach)
    /\ EM!RequestRefused
    /\ UNCHANGED <<vars, eventOf>>

RequestHalt ==
    /\ Sending /\ st = "RESUME" /\ SendResumeUp(mach)
    /\ UNCHANGED <<emVars, eventOf>>

\* Mutant: the answer is SUCCESS outside the timeout as well.
RequestHaltAlwaysAccepted ==
    /\ ResumeUnderLock
    /\ EM!RequestAccepted
    /\ UNCHANGED eventOf

RequestHaltEnd ==
    /\ ResumeUnderLock
    /\ IF withinSuspendTimeout_ THEN EM!RequestAccepted ELSE EM!RequestRefused
    /\ UNCHANGED eventOf

-----------------------------------------------------------------------------
(* The server's own steps.                                                  *)

\* notifyMasterOnSlaveAck and TcuActivityManagerImpl::onSlaveAckStatusUpdate.
Verdict == IF nackClients_ # {} \/ noackClients_' # {} THEN "FAILED_TCU_ACTIVITY"
           ELSE "SUCCEED"

\* Mutant: the cycle may be reported a second time.
CollectAgain(g) ==
    /\ ExecCollect(g)
    /\ ackStatus' = ackStatus \cup {[e |-> eventOf[etask[g].c], st |-> Verdict]}
    /\ UNCHANGED <<eventQueue_, status, service, sending, thenRelease, callbacks, expected,
                   releases, wakeLock, answers, latest, lastSent, lost, eventOf>>

Collect(g) ==
    /\ ExecCollect(g)
    /\ EM!AckIndication(eventOf[etask[g].c], Verdict)
    /\ UNCHANGED eventOf

\* The steps of an executor the event manager does not notice.
Execute(g) ==
    /\ ExecTake(g) \/ ExecResume(g) \/ ExecDecide(g) \/ ExecHalt(g) \/ ExecTimeout(g)
       \/ ExecCommit(g)
    /\ UNCHANGED <<emVars, eventOf>>

SlaveStep == Slave /\ UNCHANGED <<emVars, eventOf>>

\* The suspends that are waiting in the queue which a new client's InitService
\* throws away.
Dropped == {eventOf[c] : c \in UNION {{taskQ_[g][i].c : i \in {i \in 1 .. Len(taskQ_[g]) :
                                           taskQ_[g][i].op \in Down}} : g \in Gens}}

ConnectStep ==
    /\ InitServiceMaster \/ \E s \in Slaves : InitServiceSlave(s)
    /\ EM!AcksLost(Dropped)
    /\ UNCHANGED eventOf

DisconnectStep ==
    /\ \E s \in Slaves : DeregisterSlave(s)
    /\ UNCHANGED <<emVars, eventOf>>

-----------------------------------------------------------------------------
ServerStep == \/ RequestDown \/ RequestResume \/ RequestSame \/ RequestHalt \/ RequestHaltEnd
SysNext == \/ Local \/ ServerStep \/ SlaveStep \/ ConnectStep \/ DisconnectStep
           \/ \E g \in Gens : Collect(g) \/ Execute(g)

\* Calls are served, sleeps and timeouts end, callbacks and indications arrive.
SysSpec == SysInit /\ [][SysNext]_sysVars
SysFairSpec ==
    /\ SysSpec
    /\ WF_sysVars(ServerStep)
    /\ WF_sysVars((\E c \in callbacks : EM!Callback(c)) /\ UNCHANGED <<vars, eventOf>>)
    /\ WF_sysVars((\E a \in ackStatus : EM!onSlaveAckStatusUpdate(a)) /\ UNCHANGED <<vars, eventOf>>)
    /\ WF_sysVars(EM!ReleaseWakeLock /\ UNCHANGED <<vars, eventOf>>)
    /\ \A g \in Gens : WF_sysVars(Collect(g) \/ Execute(g))

-----------------------------------------------------------------------------
\* The event manager, served by this server, does nothing that its specification
\* with an open environment does not: at most one answer is due at any time, an ack
\* indication follows exactly the suspends that were accepted, and only a client
\* that connects makes one go missing.
ImplementsEventManager == EM!EMSpec

Quiet == Idle /\ eventQueue_ = <<>> /\ callbacks = {} /\ expected = {} /\ ackStatus = {}

\* What listeners are told is true: when everything has come to rest, the local
\* machine is in the state that the latest event wanted, unless that event was
\* reported as failed or a client connected while requests were under way.
SucceededMeansDone ==
    Quiet /\ cyc.replaced = {} =>
        \A i \in EM!Ids :
            (/\ status[i] \notin {"NONE", "FAILED_TCU_ACTIVITY"}
             /\ \A j \in EM!Ids : status[j] # "NONE" => j <= i) => localMachState_ = latest

\* Every event is answered although it takes both sides, the slaves' silence and
\* two timeouts to get there; only a client that connects can leave the event
\* manager waiting, by throwing away the queue with the suspend in it.
AnsweredUnlessReplaced ==
    \A i \in EM!Ids : status[i] # "NONE" ~> answers[i] = 1 \/ cyc.replaced # {}
==============================================================================
