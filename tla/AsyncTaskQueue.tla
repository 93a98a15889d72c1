---------------------------- MODULE AsyncTaskQueue ----------------------------
(***************************************************************************)
(* telux::common::AsyncTaskQueue: an ordered queue of deferred tasks run   *)
(* by one executor thread, and a list of futures of tasks that std::async  *)
(* already runs on threads of their own.  shutdown(), also called by the   *)
(* destructor, retires both.                                               *)
(*                                                                         *)
(* A task is added by a thread of its own or, as the event manager and the *)
(* event service do, by the body of another task (Adder).                  *)
(* orderedTasksMutex_ and the executor's wait are modelled step by step;   *)
(* shuttingDown_ is an atomic that shutdown() sets without the mutex.      *)
(* tasksMutex_ is held across steps only by shutdown(): erasing the last   *)
(* reference to a future blocks until its task has finished, which a task  *)
(* that is about to add an async one never does.                           *)
(***************************************************************************)
EXTENDS Integers, Sequences, FiniteSets

CONSTANTS
    Deferred, Async,    \* the tasks, by launch policy
    Adder               \* the task whose body adds each, NoTask for another thread

Tasks  == Deferred \cup Async
NoTask == "no task"

ASSUME TasksAssumption ==
    /\ Deferred \cap Async = {}
    /\ {"executor", "free", NoTask} \cap Tasks = {}
    /\ Adder \in [Tasks -> Tasks \cup {NoTask}]

VARIABLES
    orderedTasksQueue_, tasksQueue_, shuttingDown_,
    omx,          \* holder of orderedTasksMutex_: a task's adder, "executor", "free"
    tmx,          \* TRUE iff shutdown() holds tasksMutex_
    apc,          \* the add() call of each task
    run,          \* each task: "new", "running", "done"
    xpc, xtask,   \* executor thread and its task
    spc,          \* the thread in shutdown()
    accepted,     \* history: deferred tasks that were queued, in order
    executed      \* history: deferred tasks that were started, in order

vars == <<orderedTasksQueue_, tasksQueue_, shuttingDown_, omx, tmx, apc, run,
          xpc, xtask, spc, accepted, executed>>

Init ==
    /\ orderedTasksQueue_ = <<>> /\ tasksQueue_ = <<>> /\ shuttingDown_ = FALSE
    /\ omx = "free" /\ tmx = FALSE
    /\ apc = [t \in Tasks |-> "new"] /\ run = [t \in Tasks |-> "new"]
    /\ xpc = "none" /\ xtask = NoTask
    /\ spc = "idle"
    /\ accepted = <<>> /\ executed = <<>>

-----------------------------------------------------------------------------
(* add()                                                                    *)

\* The body that adds t has got there.
Calls(t) == Adder[t] # NoTask => run[Adder[t]] = "running"

\* Mutant: shuttingDown_ is looked at before the mutex is taken.
AddCheckThenLock(t) ==
    /\ t \in Deferred /\ apc[t] = "new" /\ Calls(t)
    /\ apc' = [apc EXCEPT ![t] = IF shuttingDown_ THEN "refused" ELSE "locked"]
    /\ UNCHANGED <<orderedTasksQueue_, tasksQueue_, shuttingDown_, omx, tmx, run, xpc,
                   xtask, spc, accepted, executed>>

\* A deferred task: take the mutex and look at shuttingDown_.
AddLock(t) ==
    /\ t \in Deferred /\ apc[t] = "new" /\ Calls(t) /\ omx = "free"
    /\ IF shuttingDown_
       THEN apc' = [apc EXCEPT ![t] = "refused"] /\ UNCHANGED omx
       ELSE apc' = [apc EXCEPT ![t] = "locked"]  /\ omx' = t
    /\ UNCHANGED <<orderedTasksQueue_, tasksQueue_, shuttingDown_, tmx, run, xpc,
                   xtask, spc, accepted, executed>>

\* Mutant: the executor is not notified.
AddPushSilently(t) ==
    /\ apc[t] = "locked"
    /\ orderedTasksQueue_' = Append(orderedTasksQueue_, t)
    /\ accepted' = Append(accepted, t)
    /\ xpc' = IF xpc = "none" THEN "lock" ELSE xpc
    /\ apc' = [apc EXCEPT ![t] = "queued"] /\ omx' = "free"
    /\ UNCHANGED <<tasksQueue_, shuttingDown_, tmx, run, xtask, spc, executed>>

\* Mutant: the task is put at the front.
AddPushFront(t) ==
    /\ apc[t] = "locked"
    /\ orderedTasksQueue_' = <<t>> \o orderedTasksQueue_
    /\ accepted' = Append(accepted, t)
    /\ xpc' = CASE xpc = "none"   -> "lock"
                [] xpc = "asleep" -> "awake"
                [] OTHER          -> xpc
    /\ apc' = [apc EXCEPT ![t] = "queued"] /\ omx' = "free"
    /\ UNCHANGED <<tasksQueue_, shuttingDown_, tmx, run, xtask, spc, executed>>

\* Queue it, create the executor if there is none, notify it, unlock.
AddPush(t) ==
    /\ apc[t] = "locked"
    /\ orderedTasksQueue_' = Append(orderedTasksQueue_, t)
    /\ accepted' = Append(accepted, t)
    /\ xpc' = CASE xpc = "none"   -> "lock"
                [] xpc = "asleep" -> "awake"
                [] OTHER          -> xpc
    /\ apc' = [apc EXCEPT ![t] = "queued"] /\ omx' = "free"
    /\ UNCHANGED <<tasksQueue_, shuttingDown_, tmx, run, xtask, spc, executed>>

\* An async task has been launched before it is added.
Launch(t) ==
    /\ t \in Async /\ run[t] = "new" /\ apc[t] = "new" /\ Calls(t)
    /\ run' = [run EXCEPT ![t] = "running"]
    /\ UNCHANGED <<orderedTasksQueue_, tasksQueue_, shuttingDown_, omx, tmx, apc,
                   xpc, xtask, spc, accepted, executed>>

\* The futures left when the completed ones at the front are gone.
purgeCompleted(s) ==
    LET busy == {i \in 1 .. Len(s) : run[s[i]] # "done"}
    IN  IF busy = {} THEN <<>>
        ELSE SubSeq(s, CHOOSE i \in busy : \A j \in busy : i <= j, Len(s))

AddAsync(t) ==
    /\ t \in Async /\ apc[t] = "new" /\ run[t] # "new" /\ ~tmx
    /\ IF shuttingDown_
       THEN apc' = [apc EXCEPT ![t] = "refused"] /\ UNCHANGED tasksQueue_
       ELSE /\ apc' = [apc EXCEPT ![t] = "queued"]
            /\ tasksQueue_' = Append(purgeCompleted(tasksQueue_), t)
    /\ UNCHANGED <<orderedTasksQueue_, shuttingDown_, omx, tmx, run, xpc, xtask,
                   spc, accepted, executed>>

\* The other overload, for a function: it is launched with tasksMutex_ held, and
\* not at all if the queue is shutting down.
AddFunction(t) ==
    /\ t \in Async /\ apc[t] = "new" /\ run[t] = "new" /\ Calls(t) /\ ~tmx
    /\ IF shuttingDown_
       THEN apc' = [apc EXCEPT ![t] = "refused"] /\ UNCHANGED <<tasksQueue_, run>>
       ELSE /\ apc' = [apc EXCEPT ![t] = "queued"]
            /\ run' = [run EXCEPT ![t] = "running"]
            /\ tasksQueue_' = Append(purgeCompleted(tasksQueue_), t)
    /\ UNCHANGED <<orderedTasksQueue_, shuttingDown_, omx, tmx, xpc, xtask, spc,
                   accepted, executed>>

\* The body of t has added what it adds; where a future was refused, its own
\* reference was the last and it has waited for the task.
HasAdded(t) ==
    \A u \in Tasks : Adder[u] = t =>
        \/ apc[u] = "queued"
        \/ apc[u] = "refused" /\ run[u] # "running"

AsyncFinishes(t) ==
    /\ t \in Async /\ run[t] = "running" /\ HasAdded(t)
    /\ run' = [run EXCEPT ![t] = "done"]
    /\ UNCHANGED <<orderedTasksQueue_, tasksQueue_, shuttingDown_, omx, tmx, apc,
                   xpc, xtask, spc, accepted, executed>>

-----------------------------------------------------------------------------
(* executeTask()                                                            *)

\* With the mutex: leave, take the front task, or get ready to block.
ExecWait ==
    /\ xpc \in {"lock", "awake"} /\ omx = "free"
    /\ \/ /\ shuttingDown_
          /\ xpc' = "exited"
          /\ UNCHANGED <<orderedTasksQueue_, omx, run, xtask, executed>>
       \/ /\ ~shuttingDown_ /\ orderedTasksQueue_ # <<>>
          /\ xtask' = Head(orderedTasksQueue_)
          /\ orderedTasksQueue_' = Tail(orderedTasksQueue_)
          /\ executed' = Append(executed, Head(orderedTasksQueue_))
          /\ run' = [run EXCEPT ![Head(orderedTasksQueue_)] = "running"]
          /\ xpc' = "run"
          /\ UNCHANGED omx
       \/ /\ ~shuttingDown_ /\ orderedTasksQueue_ = <<>>
          /\ xpc' = "block" /\ omx' = "executor"
          /\ UNCHANGED <<orderedTasksQueue_, run, xtask, executed>>
    /\ UNCHANGED <<tasksQueue_, shuttingDown_, tmx, apc, spc, accepted>>

ExecBlock ==
    /\ xpc = "block"
    /\ xpc' = "asleep" /\ omx' = "free"
    /\ UNCHANGED <<orderedTasksQueue_, tasksQueue_, shuttingDown_, tmx, apc, run,
                   xtask, spc, accepted, executed>>

\* f.get() returns.
ExecFinish ==
    /\ xpc = "run" /\ HasAdded(xtask)
    /\ run' = [run EXCEPT ![xtask] = "done"]
    /\ xtask' = NoTask /\ xpc' = "lock"
    /\ UNCHANGED <<orderedTasksQueue_, tasksQueue_, shuttingDown_, omx, tmx, apc,
                   spc, accepted, executed>>

-----------------------------------------------------------------------------
(* shutdown()                                                               *)

ShutdownFlag ==
    /\ spc = "idle" /\ ~shuttingDown_
    /\ shuttingDown_' = TRUE
    /\ spc' = "notify"
    /\ UNCHANGED <<orderedTasksQueue_, tasksQueue_, omx, tmx, apc, run, xpc, xtask,
                   accepted, executed>>

\* Mutant: the notification is given without the mutex.
ShutdownNotifyUnlocked ==
    /\ spc = "notify"
    /\ xpc' = IF xpc = "asleep" THEN "awake" ELSE xpc
    /\ spc' = "join"
    /\ UNCHANGED <<orderedTasksQueue_, tasksQueue_, shuttingDown_, omx, tmx, apc,
                   run, xtask, accepted, executed>>

\* Lock, notify_all, unlock.
ShutdownNotify ==
    /\ spc = "notify" /\ omx = "free"
    /\ xpc' = IF xpc = "asleep" THEN "awake" ELSE xpc
    /\ spc' = "join"
    /\ UNCHANGED <<orderedTasksQueue_, tasksQueue_, shuttingDown_, omx, tmx, apc,
                   run, xtask, accepted, executed>>

ShutdownJoin ==
    /\ spc = "join" /\ xpc \in {"none", "exited"}
    /\ xpc' = "none"
    /\ spc' = "async"
    /\ UNCHANGED <<orderedTasksQueue_, tasksQueue_, shuttingDown_, omx, tmx, apc,
                   run, xtask, accepted, executed>>

\* With tasksMutex_: purge, and leave if no future is left; otherwise erase the
\* first, which blocks with the mutex as long as its task runs.
ShutdownPurge ==
    /\ spc = "async"
    /\ tasksQueue_' = purgeCompleted(tasksQueue_)
    /\ IF tasksQueue_' = <<>> THEN spc' = "done"  /\ UNCHANGED tmx
                              ELSE spc' = "erase" /\ tmx' = TRUE
    /\ UNCHANGED <<orderedTasksQueue_, shuttingDown_, omx, apc, run, xpc, xtask,
                   accepted, executed>>

ShutdownErase ==
    /\ spc = "erase" /\ run[Head(tasksQueue_)] = "done"
    /\ tasksQueue_' = Tail(tasksQueue_)
    /\ tmx' = FALSE
    /\ spc' = "wait"
    /\ UNCHANGED <<orderedTasksQueue_, shuttingDown_, omx, apc, run, xpc, xtask,
                   accepted, executed>>

\* Then wait() through the iterator that was just erased: it returns, as the task
\* has finished, or it does whatever it does to the thread ("lost").
ShutdownWait ==
    /\ spc = "wait"
    /\ spc' \in {"async", "lost"}
    /\ UNCHANGED <<orderedTasksQueue_, tasksQueue_, shuttingDown_, omx, tmx, apc, run,
                   xpc, xtask, accepted, executed>>

\* shutdown() holds tasksMutex_ and waits for a task that cannot finish before it
\* has had the mutex.
Stuck == spc = "erase" /\ \E u \in Async : Adder[u] = Head(tasksQueue_) /\ apc[u] = "new"

Deadlocked == Stuck /\ UNCHANGED vars

\* Everything was added and has run, or was refused or dropped: nothing is left.
Finished ==
    /\ spc \in {"done", "lost"}
    /\ \A t \in Tasks : apc[t] # "locked" /\ (apc[t] = "new" => ~Calls(t))
    /\ \A t \in Async : run[t] # "running"
    /\ UNCHANGED vars

-----------------------------------------------------------------------------
Executor == ExecWait \/ ExecBlock \/ ExecFinish
Shutdown == ShutdownNotify \/ ShutdownJoin \/ ShutdownPurge \/ ShutdownErase \/ ShutdownWait
Next == \/ \E t \in Tasks : AddLock(t) \/ AddPush(t) \/ Launch(t) \/ AddAsync(t)
                            \/ AddFunction(t) \/ AsyncFinishes(t)
        \/ Executor \/ ShutdownFlag \/ Shutdown \/ Deadlocked \/ Finished

Spec == Init /\ [][Next]_vars

\* Threads run, a task adds what it adds and ends, and a mutex that is free again
\* and again is had.
FairSpec ==
    /\ Spec
    /\ WF_vars(ExecBlock) /\ WF_vars(ExecFinish) /\ SF_vars(ExecWait)
    /\ SF_vars(ShutdownNotify) /\ WF_vars(Shutdown)
    /\ \A t \in Tasks : WF_vars(AddPush(t)) /\ WF_vars(AsyncFinishes(t))
    /\ \A t \in {u \in Tasks : Adder[u] # NoTask} :
         SF_vars(AddLock(t)) /\ SF_vars(Launch(t) \/ AddAsync(t))

-----------------------------------------------------------------------------
TypeOK ==
    /\ orderedTasksQueue_ \in Seq(Deferred) /\ tasksQueue_ \in Seq(Async)
    /\ shuttingDown_ \in BOOLEAN /\ tmx \in BOOLEAN
    /\ omx \in Deferred \cup {"executor", "free"}
    /\ apc \in [Tasks -> {"new", "locked", "queued", "refused"}]
    /\ run \in [Tasks -> {"new", "running", "done"}]
    /\ xpc \in {"none", "lock", "awake", "block", "asleep", "run", "exited"}
    /\ xtask \in Deferred \cup {NoTask}
    /\ spc \in {"idle", "notify", "join", "async", "erase", "wait", "done", "lost"}
    /\ accepted \in Seq(Deferred) /\ executed \in Seq(Deferred)

\* Deferred tasks are started one at a time in the order in which add() took them,
\* and what shutdown() drops is the tail of that order.
StartedInOrder ==
    /\ executed \o orderedTasksQueue_ = accepted
    /\ \A t, u \in Deferred : run[t] = "running" /\ run[u] = "running" => t = u

\* When shutdown() has returned no task the queue took is running and none will
\* start, although add() may have looked at shuttingDown_ just before it was set:
\* the owner may be destroyed.
QuietAfterShutdown ==
    spc = "done" => /\ xpc = "none"
                    /\ \A t \in Deferred : run[t] # "running" /\ apc[t] # "locked"
                    /\ \A t \in Async : apc[t] = "queued" => run[t] = "done"

\* shutdown() returns: the flag is set without the mutex, but the notification is
\* given with it, so the executor cannot miss both; and a task that is refused its
\* own tasks still ends.  Only the wait through the erased iterator, and a task that
\* is about to add an async one when its future is erased, are in the way.
ShutdownReturns == shuttingDown_ ~> spc \in {"done", "lost"} \/ Stuck

\* An accepted deferred task is started, unless the queue is shut down.
TaskStarts ==
    \A t \in Deferred : apc[t] = "queued" ~> run[t] # "new" \/ shuttingDown_
===============================================================================
