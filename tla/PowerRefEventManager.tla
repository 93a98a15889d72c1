------------------------ MODULE PowerRefEventManager ------------------------
(***************************************************************************)
(* EventManager of the power reference application: a queue of events      *)
(* (SMS, CAN and NAOIP triggers), each asking for an activity state of a   *)
(* machine.  The head is being carried out by the TCU activity manager,    *)
(* the others wait; an event that the latest one contradicts is overridden.*)
(*                                                                         *)
(* Triggers, command callbacks and ack indications come on threads of      *)
(* their own.  eventQueueUpdate_ is held across the synchronous request of *)
(* setActivityState, here while sending # NoEvent.  A command callback     *)
(* carries its event; the ack indication carries none and is taken to be   *)
(* the head's (the model remembers whose it is, as history).  The answer   *)
(* of the server is left open: accepted, refused (an error code), or       *)
(* failed, when no callback comes.                                         *)
(***************************************************************************)
EXTENDS Integers, Sequences, SequencesExt

CONSTANTS
    MaxEvents,        \* bound: events triggered
    Triggers          \* what they may ask for: [st, mach], of a valid machine

DownStates == {"SUSPEND", "SHUTDOWN"}
TcuStates  == DownStates \cup {"RESUME"}

ASSUME EventAssumption ==
    /\ MaxEvents \in Nat
    /\ Triggers \subseteq [st : TcuStates, mach : {"LOCAL", "ALL"}]

VARIABLES
    eventQueue_,      \* events [id, st, mach], the head in progress
    status,           \* EventStatus of each event
    service,          \* getServiceStatus() = SERVICE_AVAILABLE
    sending,          \* the event whose request is out, eventQueueUpdate_ held
    thenRelease,      \* the sender is a RESUME callback, which releases afterwards
    callbacks,        \* command callbacks to come: [e, ok]
    expected, ackStatus,  \* accepted suspends; their ack indications on the way
    releases,         \* RESUME callbacks about to release the wake lock
    wakeLock,
    answers,          \* history: number of notifications for each event
    latest, lastSent, \* history: state last accepted by pushEvent, last asked for
    lost              \* history: events whose request failed or went unanswered

queue   == <<eventQueue_, status, answers, latest>>
request == <<sending, thenRelease, lastSent>>
emVars  == <<queue, request, service, callbacks, expected, ackStatus, releases,
             wakeLock, lost>>

Ids     == 1 .. MaxEvents
Event   == {[id |-> i, st |-> t.st, mach |-> t.mach] : i \in Ids, t \in Triggers}
NoEvent == [id |-> 0, st |-> "RESUME", mach |-> "ALL"]
Final   == {"SUCCEED", "FAILED_TCU_ACTIVITY", "FAILED_TCU_ACTIVITY_TIMEOUT",
            "REJECTED_EVENT_OVERRIDDEN", "REJECTED_INVALID_MACHINE_NAME"}
EventStatus == {"NONE", "INITIALIZED", "IN_QUEUE", "IN_PROGRESS_TCU_ACTIVITY"} \cup Final

EMInit ==
    /\ eventQueue_ = <<>> /\ status = [i \in Ids |-> "NONE"] /\ service = TRUE
    /\ sending = NoEvent /\ thenRelease = FALSE
    /\ callbacks = {} /\ expected = {} /\ ackStatus = {}
    /\ releases = 0 /\ wakeLock = FALSE
    /\ answers = [i \in Ids |-> 0] /\ latest = "RESUME" /\ lastSent = "RESUME"
    /\ lost = {}

Unlocked == sending = NoEvent
IsFirst(e) == eventQueue_ # <<>> /\ Head(eventQueue_) = e
IdsOf(s) == {e.id : e \in ToSet(s)}

-----------------------------------------------------------------------------
(* Notifications: every listener is told once per call; the status is set.  *)

Notify(ids, st) ==
    /\ answers' = [i \in Ids |-> IF i \in ids THEN answers[i] + 1 ELSE answers[i]]
    /\ status' = [i \in Ids |-> IF i \in ids THEN st ELSE status[i]]

\* setActivityState, up to the request being out.
StartRequest(e, release) ==
    /\ sending' = e /\ thenRelease' = release /\ lastSent' = e.st

-----------------------------------------------------------------------------
(* pushEvent.                                                               *)

\* The event a trigger creates: the next id, any state, a machine.
NewEvent(e) ==
    /\ Unlocked
    /\ status[e.id] = "NONE" /\ \A i \in 1 .. e.id - 1 : status[i] # "NONE"

\* The machine is not one of getAllMachineNames().
PushInvalidMachine(e) ==
    /\ NewEvent(e)
    /\ Notify({e.id}, "REJECTED_INVALID_MACHINE_NAME")
    /\ UNCHANGED <<eventQueue_, latest, request, service, callbacks, expected, ackStatus,
                   releases, wakeLock, lost>>

\* Mutant: the event in progress is overridden like the ones that wait.
OverridesHead(q, new) == {e.id : e \in {e \in ToSet(q) : e.st # new}}

\* Events that neither the new event nor the one in progress agrees with.
Overridden(q, new) ==
    {e.id : e \in {e \in ToSet(q) : e.st # new /\ e.st # Head(q).st}}

\* Mutant: an overridden event is rejected and stays in the queue.
KeptAll(q, out) == q

\* The loop that erases the events with ids in out, kept[k] after the k-th event.
Kept(q, out) ==
    LET kept[k \in 0 .. Len(q)] ==
            IF k = 0 THEN <<>>
            ELSE IF q[k].id \in out THEN kept[k - 1] ELSE Append(kept[k - 1], q[k])
    IN  kept[Len(q)]

PushBehind(e) ==
    /\ NewEvent(e)
    /\ eventQueue_ # <<>>
    /\ LET out == Overridden(eventQueue_, e.st)
       IN /\ eventQueue_' = Append(Kept(eventQueue_, out), e)
          /\ answers' = [i \in Ids |-> IF i \in out THEN answers[i] + 1 ELSE answers[i]]
          /\ status' = [i \in Ids |-> CASE i \in out -> "REJECTED_EVENT_OVERRIDDEN"
                                        [] i = e.id -> "IN_QUEUE"
                                        [] OTHER -> status[i]]
    /\ latest' = e.st
    /\ UNCHANGED <<request, service, callbacks, expected, ackStatus, releases, wakeLock, lost>>

\* The TCU activity manager is down.
PushServiceDown(e) ==
    /\ NewEvent(e)
    /\ eventQueue_ = <<>> /\ ~service
    /\ Notify({e.id}, "FAILED_TCU_ACTIVITY")
    /\ UNCHANGED <<eventQueue_, latest, request, service, callbacks, expected, ackStatus,
                   releases, wakeLock, lost>>

PushFirst(e) ==
    /\ NewEvent(e)
    /\ eventQueue_ = <<>> /\ service
    /\ wakeLock' = TRUE
    /\ eventQueue_' = <<e>>
    /\ status' = [status EXCEPT ![e.id] = "INITIALIZED"]
    /\ latest' = e.st
    /\ StartRequest(e, FALSE)
    /\ UNCHANGED <<answers, service, callbacks, expected, ackStatus, releases, lost>>

-----------------------------------------------------------------------------
(* The request returns: PowerGrpcClient::sendActivityStateCommand.  Whoever *)
(* made it goes on, a RESUME callback to releaseWakeLock.                   *)

RequestDone ==
    /\ sending # NoEvent
    /\ sending' = NoEvent /\ thenRelease' = FALSE
    /\ releases' = IF thenRelease THEN releases + 1 ELSE releases
    /\ UNCHANGED <<queue, lastSent, service, ackStatus, wakeLock>>

\* The command was taken on; a suspend will be followed by an ack indication.
RequestAccepted ==
    /\ RequestDone
    /\ callbacks' = callbacks \cup {[e |-> sending, ok |-> TRUE]}
    /\ expected' = IF sending.st \in DownStates THEN expected \cup {sending} ELSE expected
    /\ UNCHANGED lost

RequestRefused ==
    /\ RequestDone
    /\ callbacks' = callbacks \cup {[e |-> sending, ok |-> FALSE]}
    /\ UNCHANGED <<expected, lost>>

\* The call fails or its status is not SUCCESS: no callback is made, and the
\* status returned is not looked at.
RequestFailed ==
    /\ RequestDone
    /\ lost' = lost \cup {sending.id}
    /\ UNCHANGED <<callbacks, expected>>

\* The same, although the server has taken the suspend on and will acknowledge it.
RequestFailedTakenOn ==
    /\ RequestDone
    /\ sending.st \in DownStates
    /\ expected' = expected \cup {sending}
    /\ UNCHANGED <<callbacks, lost>>

-----------------------------------------------------------------------------
(* processedEventHandler.                                                   *)

\* Mutant: the search for duplicates does not stop at another event.
DuplicatesAll(q) == Len(q)

\* The leading events that ask for the state of the processed one.
Duplicates(q) ==
    LET other == SelectInSeq(q, LAMBDA e : e.st # Head(q).st)
    IN IF other = 0 THEN Len(q) ELSE other - 1

\* Mutant: the next event is forgotten.
ContinueForgets(rest, release) ==
    /\ releases' = IF release THEN releases + 1 ELSE releases
    /\ wakeLock' = FALSE
    /\ UNCHANGED request

\* Mutant: the wake lock is not given back.
ContinueKeepsLock(rest, release) ==
    /\ IF rest # <<>> THEN StartRequest(Head(rest), release) ELSE UNCHANGED request
    /\ UNCHANGED <<releases, wakeLock>>

\* What is left in the queue goes on; the wake lock is given back when nothing is.
Continue(rest, release) ==
    IF rest # <<>>
    THEN StartRequest(Head(rest), release) /\ UNCHANGED <<releases, wakeLock>>
    ELSE /\ wakeLock' = FALSE
         /\ releases' = IF release THEN releases + 1 ELSE releases
         /\ UNCHANGED request

\* Overridden, if the latest event disagrees, whatever the outcome was.
Outcome(q, st) == IF Last(q).st # Head(q).st THEN "REJECTED_EVENT_OVERRIDDEN" ELSE st

processedEventHandler(st, release) ==
    /\ Unlocked
    /\ IF eventQueue_ = <<>>
       THEN /\ releases' = IF release THEN releases + 1 ELSE releases
            /\ UNCHANGED <<eventQueue_, answers, status, wakeLock, request>>
       ELSE LET n == Duplicates(eventQueue_)
                done == SubSeq(eventQueue_, 1, n)
            IN /\ Notify(IdsOf(done), Outcome(eventQueue_, st))
               /\ eventQueue_' = SubSeq(eventQueue_, n + 1, Len(eventQueue_))
               /\ Continue(eventQueue_', release)
    /\ UNCHANGED latest

\* The command callback of setActivityState.
CallbackError(c) ==
    /\ c \in callbacks /\ ~c.ok
    /\ processedEventHandler("FAILED_TCU_ACTIVITY", FALSE)
    /\ callbacks' = callbacks \ {c}
    /\ UNCHANGED <<service, expected, ackStatus, lost>>

\* "Acknowledgment message is not expected for resume."
CallbackResumed(c) ==
    /\ c \in callbacks /\ c.ok /\ c.e.st = "RESUME"
    /\ processedEventHandler("SUCCEED", TRUE)
    /\ callbacks' = callbacks \ {c}
    /\ UNCHANGED <<service, expected, ackStatus, lost>>

\* The suspend has begun; without eventQueueUpdate_, however late.
CallbackStarted(c) ==
    /\ c \in callbacks /\ c.ok /\ c.e.st # "RESUME"
    /\ status' = [status EXCEPT ![c.e.id] = "IN_PROGRESS_TCU_ACTIVITY"]
    /\ callbacks' = callbacks \ {c}
    /\ UNCHANGED <<eventQueue_, answers, latest, request, service, expected, ackStatus,
                   releases, wakeLock, lost>>

\* After processedEventHandler(SUCCEED) of a RESUME.
ReleaseWakeLock ==
    /\ releases > 0
    /\ releases' = releases - 1
    /\ wakeLock' = FALSE
    /\ UNCHANGED <<queue, request, service, callbacks, expected, ackStatus, lost>>

onSlaveAckStatusUpdate(a) ==
    /\ a \in ackStatus
    /\ processedEventHandler(a.st, FALSE)
    /\ ackStatus' = ackStatus \ {a}
    /\ UNCHANGED <<service, callbacks, expected, lost>>

-----------------------------------------------------------------------------
(* The TCU activity server, as far as the event manager can tell.           *)

AckStatus == {"SUCCEED", "FAILED_TCU_ACTIVITY", "FAILED_TCU_ACTIVITY_TIMEOUT"}

AckIndication(e, st) ==
    /\ e \in expected
    /\ expected' = expected \ {e}
    /\ ackStatus' = ackStatus \cup {[e |-> e, st |-> st]}
    /\ UNCHANGED <<queue, request, service, callbacks, releases, wakeLock, lost>>

\* The server drops accepted suspends, or goes away with them.
AcksLost(es) ==
    /\ es \subseteq expected
    /\ expected' = expected \ es
    /\ lost' = lost \cup {e.id : e \in es}
    /\ UNCHANGED <<queue, request, service, callbacks, ackStatus, releases, wakeLock>>

ServiceStatusChange ==
    /\ service' = ~service
    /\ UNCHANGED <<queue, request, callbacks, expected, ackStatus, releases, wakeLock, lost>>

-----------------------------------------------------------------------------
Push(e) == PushInvalidMachine(e) \/ PushBehind(e) \/ PushServiceDown(e) \/ PushFirst(e)
Reply   == RequestAccepted \/ RequestRefused \/ RequestFailed \/ RequestFailedTakenOn
Callback(c) == CallbackError(c) \/ CallbackResumed(c) \/ CallbackStarted(c)
Server == \/ \E e \in expected : (\E st \in AckStatus : AckIndication(e, st)) \/ AcksLost({e})
          \/ ServiceStatusChange

EMNext == \/ \E e \in Event : Push(e)
          \/ Reply
          \/ \E c \in callbacks : Callback(c)
          \/ \E a \in ackStatus : onSlaveAckStatusUpdate(a)
          \/ ReleaseWakeLock
          \/ Server

EMSpec == EMInit /\ [][EMNext]_emVars

\* Calls return, callback threads run, and what the server accepted it
\* acknowledges or loses.
EMFairSpec ==
    /\ EMSpec
    /\ WF_emVars(Reply) /\ WF_emVars(ReleaseWakeLock)
    /\ WF_emVars(\E c \in callbacks : Callback(c))
    /\ WF_emVars(\E a \in ackStatus : onSlaveAckStatusUpdate(a))
    /\ WF_emVars(\E e \in expected : (\E st \in AckStatus : AckIndication(e, st))
                                     \/ AcksLost({e}))

-----------------------------------------------------------------------------
EMTypeOK ==
    /\ eventQueue_ \in Seq(Event) /\ status \in [Ids -> EventStatus]
    /\ service \in BOOLEAN /\ wakeLock \in BOOLEAN /\ thenRelease \in BOOLEAN
    /\ sending \in Event \cup {NoEvent}
    /\ callbacks \subseteq [e : Event, ok : BOOLEAN]
    /\ expected \subseteq Event /\ ackStatus \subseteq [e : Event, st : AckStatus]
    /\ releases \in Nat
    /\ answers \in [Ids -> 0 .. 2] /\ latest \in TcuStates /\ lastSent \in TcuStates
    /\ lost \subseteq Ids

\* What will make processedEventHandler pop the queue: a request that is out, an
\* error or a RESUME callback, an ack indication, due or on its way.
Pending == ({sending} \ {NoEvent})
           \cup {c.e : c \in {c \in callbacks : ~c.ok \/ c.e.st = "RESUME"}}
           \cup expected \cup {a.e : a \in ackStatus}

\* The ack indication names no event, and the error callback's event is not looked
\* at: processedEventHandler takes the head.  That is right: at any time at most one
\* event has an answer to come, and it is the head.
AnswerIsForHead == \A e \in Pending : IsFirst(e)

\* Each event handed to pushEvent is waiting in the queue, once, or its listeners
\* have been told, once, what became of it.
AnsweredOnce ==
    \A i \in Ids : status[i] # "NONE" =>
        \/ answers[i] = 0 /\ \E k \in 1 .. Len(eventQueue_) :
               \A j \in 1 .. Len(eventQueue_) : eventQueue_[j].id = i <=> j = k
        \/ answers[i] = 1 /\ i \notin IdsOf(eventQueue_)

\* Overriding never loses the user's last word: when the queue has run empty, the
\* state last asked of the server is the one the latest event wanted.
LatestWins == eventQueue_ = <<>> => lastSent = latest

\* No path, refusals and overridden events included, leaves the device awake with
\* an empty queue.
LockGivenBack == eventQueue_ = <<>> => ~wakeLock

\* Every event that is pushed is processed or rejected, unless a request failed
\* without a callback or an ack indication was lost.
EventAnswered == \A i \in Ids : status[i] # "NONE" ~> answers[i] = 1 \/ lost # {}
=============================================================================
