------------------------- MODULE PowerManagerService -------------------------
(***************************************************************************)
(* PowerManagerServiceImpl: the simulation server's TCU activity manager.  *)
(*                                                                         *)
(* A master asks for SUSPEND, SHUTDOWN or RESUME of the local machine or   *)
(* of all machines; slaves are told and acknowledge.  Requests and acks    *)
(* are gRPC handlers, each on a thread of its own; suspends, and resumes   *)
(* from another state, run on the executor thread of taskQ_.  InitService  *)
(* replaces taskQ_, so the executor of an older queue may still be busy    *)
(* while the new one works: there is one executor per generation.          *)
(*                                                                         *)
(* ackMutex_ is held by the executor that is past collecting the acks;     *)
(* susMutex_ only inside a step.  Time is abstract: a sleep or a timed     *)
(* wait may end at any moment.  Lists of names are sets; an ack carries    *)
(* the cycle it answers, which the code does not know (history).           *)
(***************************************************************************)
EXTENDS Integers, Sequences

CONSTANTS
    Slaves,         \* slave clients
    Machine,        \* the machine each registers for: "LOCAL" or "ALL"
    MaxRequests,    \* bound: SendActivityState calls
    MaxQueues       \* bound: times taskQ_ is created

ASSUME PowerAssumption ==
    /\ Machine \in [Slaves -> {"LOCAL", "ALL"}]
    /\ MaxRequests \in Nat /\ MaxQueues \in Nat

VARIABLES
    localMachState_, allMachState_,
    master_, slaves_,          \* a master is registered; the slaves that are
    considerAck_, ackClients_, nackClients_, noackClients_,
    withinSuspendTimeout_, resumeReceivedWithinTimeout_,
    gen, taskQ_,               \* current queue; the pending tasks of each
    epc, etask,                \* the executor of each queue: pc and task
    mpc, mmach,                \* a RESUME handler before susMutex_
    owed,                      \* acks on their way from the slaves
    requests,                  \* SendActivityState calls so far
    told,                      \* last state notified to each kind of slave
    cyc                        \* history of cycles: halted, or under way when
                               \* taskQ_ was replaced

states  == <<localMachState_, allMachState_>>
clients == <<master_, slaves_>>
acks    == <<considerAck_, ackClients_, nackClients_, noackClients_>>
window  == <<withinSuspendTimeout_, resumeReceivedWithinTimeout_>>
queues  == <<gen, taskQ_>>
execs   == <<epc, etask>>
handler == <<mpc, mmach>>
vars == <<states, clients, acks, window, queues, execs, handler, owed, requests,
          told, cyc>>

Down     == {"SUSPEND", "SHUTDOWN"}
States   == Down \cup {"RESUME"}
Machines == {"LOCAL", "ALL"}
Gens     == 1 .. MaxQueues
Task     == [op : States, mach : Machines, c : 0 .. MaxRequests]
NoTask   == [op |-> "RESUME", mach |-> "LOCAL", c |-> 0]
Cycles   == [halted : SUBSET (0 .. MaxRequests), replaced : SUBSET (0 .. MaxRequests)]
Ack      == [s : Slaves, c : 1 .. MaxRequests]

\* Mutant: ackMutex_ is taken before the first sleep as well.
AckMutexHeldInSleep == \E g \in Gens : epc[g] \in {"sleep", "collected", "t2", "commit"}

AckMutexHeld == \E g \in Gens : epc[g] \in {"collected", "t2", "commit"}

Init ==
    /\ localMachState_ = "RESUME" /\ allMachState_ = "RESUME"
    /\ master_ = FALSE /\ slaves_ = {}
    /\ considerAck_ = TRUE /\ ackClients_ = {} /\ nackClients_ = {} /\ noackClients_ = {}
    /\ withinSuspendTimeout_ = FALSE /\ resumeReceivedWithinTimeout_ = FALSE
    /\ gen = 0 /\ taskQ_ = [g \in Gens |-> <<>>]
    /\ epc = [g \in Gens |-> "idle"] /\ etask = [g \in Gens |-> NoTask]
    /\ mpc = "idle" /\ mmach = "LOCAL"
    /\ owed = {} /\ requests = 0
    /\ told = [k \in Machines |-> "RESUME"]
    /\ cyc = [halted |-> {}, replaced |-> {}]

-----------------------------------------------------------------------------
(* InitService and DeregisterFromServer.                                    *)

\* The cycles that are queued or being executed.
UnderWay == {etask[g].c : g \in {g \in Gens : epc[g] # "idle"}}
            \cup UNION {{taskQ_[g][i].c : i \in 1 .. Len(taskQ_[g])} : g \in Gens}

\* A new queue; the destructor of the old one drops what is pending and waits
\* for the running task.
NewTaskQ ==
    /\ gen < MaxQueues
    /\ gen' = gen + 1
    /\ taskQ_' = [g \in Gens |-> <<>>]
    /\ cyc' = [cyc EXCEPT !.replaced = @ \cup UnderWay]

InitServiceMaster ==
    /\ ~master_          \* "Master already present": SERVICE_FAILED, no change
    /\ master_' = TRUE
    /\ NewTaskQ
    /\ UNCHANGED <<states, slaves_, acks, window, execs, handler, owed, requests,
                   told>>

InitServiceSlave(s) ==
    /\ s \notin slaves_
    /\ slaves_' = slaves_ \cup {s}
    /\ NewTaskQ
    /\ UNCHANGED <<states, master_, acks, window, execs, handler, owed, requests,
                   told>>

DeregisterMaster ==
    /\ master_ /\ mpc = "idle"
    /\ master_' = FALSE
    /\ UNCHANGED <<states, slaves_, acks, window, queues, execs, handler, owed,
                   requests, told, cyc>>

DeregisterSlave(s) ==
    /\ s \in slaves_
    /\ slaves_' = slaves_ \ {s}
    /\ UNCHANGED <<states, master_, acks, window, queues, execs, handler, owed,
                   requests, told, cyc>>

-----------------------------------------------------------------------------
(* SendActivityState.                                                       *)

Current(mach) == IF mach = "LOCAL" THEN localMachState_ ELSE allMachState_

\* Mutant: local slaves hear of the local machine only.
ToldOwnMachine(st, mach) == [k \in Machines |-> IF k = mach THEN st ELSE told[k]]

\* notifySlavesOnStateUpdate: local slaves always, the others for all machines.
Told(st, mach) == [k \in Machines |-> IF k = "LOCAL" \/ mach = "ALL" THEN st ELSE told[k]]

\* doResume()
DoResume(mach) ==
    /\ told' = Told("RESUME", mach)
    /\ localMachState_' = "RESUME"
    /\ allMachState_' = IF mach = "ALL" THEN "RESUME" ELSE allMachState_

Enqueue(op, mach) ==
    taskQ_' = [taskQ_ EXCEPT ![gen] = Append(@, [op |-> op, mach |-> mach, c |-> requests'])]

Request ==
    /\ master_ /\ mpc = "idle" /\ requests < MaxRequests
    /\ requests' = requests + 1

\* The cycles that are inside the timeout t2 right now.
InWindow == {etask[g].c : g \in {g \in Gens : epc[g] = "t2"}}

\* SUSPEND or SHUTDOWN, not the current state: a new cycle begins.
SendDown(st, mach) ==
    /\ Request
    /\ st # Current(mach)
    /\ considerAck_' = TRUE
    /\ ackClients_' = {} /\ nackClients_' = {} /\ noackClients_' = {}
    /\ told' = Told(st, mach)
    /\ owed' = owed \cup {[s |-> s, c |-> requests'] :
                              s \in {s \in slaves_ : Machine[s] = "LOCAL" \/ mach = "ALL"}}
    /\ Enqueue(st, mach)
    /\ UNCHANGED <<states, clients, window, gen, execs, handler, cyc>>

\* RESUME of a machine that is down: done by the executor, in its turn.
SendResumeLater(mach) ==
    /\ Request
    /\ Current(mach) # "RESUME"
    /\ Enqueue("RESUME", mach)
    /\ UNCHANGED <<states, clients, acks, window, gen, execs, handler, owed, told, cyc>>

\* RESUME of all machines when only the local one is down: done at once.
SendResumeLocalDown(mach) ==
    /\ Request
    /\ Current(mach) = "RESUME" /\ localMachState_ # "RESUME"
    /\ DoResume(mach)
    /\ UNCHANGED <<clients, acks, window, queues, execs, handler, owed, cyc>>

\* RESUME of what is up: it may be meant to stop a suspend.  The handler goes on
\* to susMutex_.
SendResumeUp(mach) ==
    /\ Request
    /\ Current(mach) = "RESUME" /\ localMachState_ = "RESUME"
    /\ mpc' = "lock" /\ mmach' = mach
    /\ UNCHANGED <<states, clients, acks, window, queues, execs, owed, told, cyc>>

\* With susMutex_: inside the timeout the suspend is halted, otherwise the answer
\* is INCOMPATIBLE_STATE (and cv_.notify_all() wakes a thread whose predicate is
\* false).
ResumeUnderLock ==
    /\ mpc = "lock"
    /\ mpc' = "idle" /\ mmach' = "LOCAL"
    /\ IF withinSuspendTimeout_
       THEN /\ resumeReceivedWithinTimeout_' = TRUE
            /\ DoResume(mmach)
            /\ cyc' = [cyc EXCEPT !.halted = @ \cup InWindow]
       ELSE UNCHANGED <<resumeReceivedWithinTimeout_, states, told, cyc>>
    /\ UNCHANGED <<clients, acks, withinSuspendTimeout_, queues, execs, owed,
                   requests>>

\* SendActivityStateAck, under ackMutex_; the ack may have been on its way for
\* long.
SendActivityStateAck(a) ==
    /\ a \in owed /\ ~AckMutexHeld
    /\ owed' = owed \ {a}
    /\ IF considerAck_
       THEN \/ ackClients_' = ackClients_ \cup {a} /\ UNCHANGED nackClients_
            \/ nackClients_' = nackClients_ \cup {a} /\ UNCHANGED ackClients_
       ELSE UNCHANGED <<ackClients_, nackClients_>>
    /\ UNCHANGED <<states, clients, considerAck_, noackClients_, window, queues,
                   execs, handler, requests, told, cyc>>

\* A slave that never answers.
AckLost(a) ==
    /\ a \in owed
    /\ owed' = owed \ {a}
    /\ UNCHANGED <<states, clients, acks, window, queues, execs, handler,
                   requests, told, cyc>>

-----------------------------------------------------------------------------
(* The executors: AsyncTaskQueue::executeTask, initiateSuspend, doResume.   *)

ExecTake(g) ==
    /\ epc[g] = "idle" /\ taskQ_[g] # <<>>
    /\ etask' = [etask EXCEPT ![g] = Head(taskQ_[g])]
    /\ taskQ_' = [taskQ_ EXCEPT ![g] = Tail(@)]
    /\ epc' = [epc EXCEPT ![g] = IF Head(taskQ_[g]).op = "RESUME" THEN "resume" ELSE "sleep"]
    /\ UNCHANGED <<states, clients, acks, window, gen, handler, owed, requests, told, cyc>>

\* f.get() returns.
ExecDone(g) ==
    /\ epc' = [epc EXCEPT ![g] = "idle"]
    /\ etask' = [etask EXCEPT ![g] = NoTask]

ExecResume(g) ==
    /\ epc[g] = "resume"
    /\ DoResume(etask[g].mach)
    /\ ExecDone(g)
    /\ UNCHANGED <<clients, acks, window, queues, handler, owed, requests, cyc>>

Answered == {a.s : a \in ackClients_ \cup nackClients_}
Expected(mach) == {s \in slaves_ : ~(mach = "LOCAL" /\ Machine[s] = "ALL")}

\* After the first sleep, with ackMutex_: close the acks, find who is missing and
\* tell the master.
ExecCollect(g) ==
    /\ epc[g] = "sleep" /\ ~AckMutexHeld
    /\ considerAck_' = FALSE
    /\ noackClients_' = noackClients_ \cup (Expected(etask[g].mach) \ Answered)
    /\ epc' = [epc EXCEPT ![g] = "collected"]
    /\ UNCHANGED <<states, clients, ackClients_, nackClients_, window, queues, etask,
                   handler, owed, requests, told, cyc>>

\* Wait for a RESUME if somebody refused or is missing.  The master knows by now,
\* and the lists are read again: its next request, which does not take ackMutex_,
\* may have cleared them.
ExecDecide(g) ==
    /\ epc[g] = "collected"
    /\ IF noackClients_ # {} \/ nackClients_ # {}
       THEN withinSuspendTimeout_' = TRUE /\ epc' = [epc EXCEPT ![g] = "t2"]
       ELSE UNCHANGED withinSuspendTimeout_ /\ epc' = [epc EXCEPT ![g] = "commit"]
    /\ UNCHANGED <<states, clients, acks, resumeReceivedWithinTimeout_, queues, etask,
                   handler, owed, requests, told, cyc>>

\* Mutant: "Reset for next suspend/shutdown" is forgotten.
ExecHaltKeepsFlag(g) ==
    /\ epc[g] = "t2" /\ resumeReceivedWithinTimeout_
    /\ withinSuspendTimeout_' = FALSE
    /\ ExecDone(g)
    /\ UNCHANGED <<states, clients, acks, resumeReceivedWithinTimeout_, queues,
                   handler, owed, requests, told, cyc>>

\* The timed wait is over, or its predicate holds; susMutex_ is held.
ExecHalt(g) ==
    /\ epc[g] = "t2" /\ resumeReceivedWithinTimeout_
    /\ resumeReceivedWithinTimeout_' = FALSE
    /\ withinSuspendTimeout_' = FALSE
    /\ ExecDone(g)
    /\ UNCHANGED <<states, clients, acks, queues, handler, owed, requests, told, cyc>>

\* Mutant: the suspend does not look at the flag after the timeout.
ExecTimeoutAnyway(g) ==
    /\ epc[g] = "t2"
    /\ withinSuspendTimeout_' = FALSE /\ resumeReceivedWithinTimeout_' = FALSE
    /\ epc' = [epc EXCEPT ![g] = "commit"]
    /\ UNCHANGED <<states, clients, acks, queues, etask, handler, owed, requests,
                   told, cyc>>

ExecTimeout(g) ==
    /\ epc[g] = "t2" /\ ~resumeReceivedWithinTimeout_
    /\ withinSuspendTimeout_' = FALSE
    /\ epc' = [epc EXCEPT ![g] = "commit"]
    /\ UNCHANGED <<states, clients, acks, resumeReceivedWithinTimeout_, queues,
                   etask, handler, owed, requests, told, cyc>>

\* The machine goes down; ackMutex_ is released.
ExecCommit(g) ==
    /\ epc[g] = "commit"
    /\ localMachState_' = etask[g].op
    /\ allMachState_' = IF etask[g].mach = "ALL" THEN etask[g].op ELSE allMachState_
    /\ ExecDone(g)
    /\ UNCHANGED <<clients, acks, window, queues, handler, owed, requests, told, cyc>>

-----------------------------------------------------------------------------
Executor == \E g \in Gens : \/ ExecTake(g) \/ ExecResume(g) \/ ExecCollect(g)
                            \/ ExecDecide(g) \/ ExecHalt(g) \/ ExecTimeout(g)
                            \/ ExecCommit(g)
Master == \/ \E mach \in Machines : \/ \E st \in Down : SendDown(st, mach)
                                    \/ SendResumeLater(mach)
                                    \/ SendResumeLocalDown(mach)
                                    \/ SendResumeUp(mach)
          \/ ResumeUnderLock
Slave == \E a \in owed : SendActivityStateAck(a) \/ AckLost(a)
Connect == \/ InitServiceMaster \/ DeregisterMaster
           \/ \E s \in Slaves : InitServiceSlave(s) \/ DeregisterSlave(s)

Next == Executor \/ Master \/ Slave \/ Connect
Spec == Init /\ [][Next]_vars

\* Executor threads keep running and sleeps end; a handler gets its mutex.
FairSpec == Spec /\ WF_vars(ResumeUnderLock)
                 /\ \A g \in Gens : WF_vars(\/ ExecTake(g) \/ ExecResume(g)
                                            \/ ExecCollect(g) \/ ExecDecide(g)
                                            \/ ExecHalt(g) \/ ExecTimeout(g)
                                            \/ ExecCommit(g))

-----------------------------------------------------------------------------
TypeOK ==
    /\ localMachState_ \in States /\ allMachState_ \in States
    /\ master_ \in BOOLEAN /\ slaves_ \subseteq Slaves
    /\ considerAck_ \in BOOLEAN
    /\ ackClients_ \subseteq Ack /\ nackClients_ \subseteq Ack /\ noackClients_ \subseteq Slaves
    /\ withinSuspendTimeout_ \in BOOLEAN /\ resumeReceivedWithinTimeout_ \in BOOLEAN
    /\ gen \in 0 .. MaxQueues /\ taskQ_ \in [Gens -> Seq(Task)]
    /\ epc \in [Gens -> {"idle", "resume", "sleep", "collected", "t2", "commit"}]
    /\ etask \in [Gens -> Task]
    /\ mpc \in {"idle", "lock"} /\ mmach \in Machines
    /\ owed \subseteq Ack /\ requests \in 0 .. MaxRequests
    /\ told \in [Machines -> States]
    /\ cyc \in Cycles

\* A RESUME that halts a suspend halts that one only: the flag is up only inside
\* the timeout of the suspend it was sent for, there is one such suspend at a time
\* although two executors may be alive, and nothing leaks into the next cycle.
FlagInWindow ==
    /\ resumeReceivedWithinTimeout_ => withinSuspendTimeout_
    /\ withinSuspendTimeout_ <=> \E g \in Gens : epc[g] = "t2"
    /\ \A g, h \in Gens : epc[g] = "t2" /\ epc[h] = "t2" => g = h

\* A suspend whose halting the master was told of (SUCCESS) does not go through.
HaltedStaysUp ==
    [][\A g \in Gens : epc[g] = "commit" /\ epc'[g] = "idle" => etask[g].c \notin cyc.halted]_vars

Idle == mpc = "idle" /\ \A g \in Gens : epc[g] = "idle" /\ taskQ_[g] = <<>>

\* Slaves are told of a suspend when it is asked for, long before it happens.  When
\* nothing is under way, a local slave that was last told SUSPEND or SHUTDOWN is on
\* a machine in that state: a suspend that was halted or overtaken has been taken
\* back, unless a client connected (and replaced taskQ_) while it was under way.
DownAsTold ==
    Idle /\ cyc.replaced = {} /\ told["LOCAL"] # "RESUME" => localMachState_ = told["LOCAL"]

\* Every request taken over from its queue comes to an end: the executor is free
\* again, whatever the slaves answer and whoever connects meanwhile.
TaskEnds == \A g \in Gens : epc[g] # "idle" ~> epc[g] = "idle"
==============================================================================
