------------------------- MODULE AsyncTaskQueueProofs -------------------------
(***************************************************************************)
(* Proofs about AsyncTaskQueue, for any sets of tasks.                     *)
(*                                                                         *)
(* QuietAfterShutdown looks at the last state only.  What makes it true is *)
(* built up over the steps of shutdown(): once it has held                 *)
(* orderedTasksMutex_, nobody is inside the locked part of add()           *)
(* (StagesOfShutdown), so the executor it joins is the last one; and a     *)
(* future whose task may still run is in tasksQueue_ (FuturesKept), so the *)
(* queue is empty only when every task has finished.                       *)
(***************************************************************************)
EXTENDS AsyncTaskQueue, WellFoundedInduction, TLAPS

\* orderedTasksMutex_ is held by the adder in its locked part, or by the executor
\* that is about to block.
MutexHolder ==
    /\ \A t \in Tasks : apc[t] = "locked" => omx = t
    /\ omx = "executor" <=> xpc = "block"
    /\ omx \in Deferred => apc[omx] = "locked"

\* The deferred task that runs is the executor's.
OnlyExecutorRuns ==
    /\ xpc = "run" => xtask \in Deferred
    /\ \A t \in Deferred : run[t] = "running" => xpc = "run" /\ xtask = t

\* What shutdown() has made sure of by the time it gets to each of its stages.
StagesOfShutdown ==
    /\ spc # "idle" => shuttingDown_
    /\ spc \notin {"idle", "notify"} => \A t \in Tasks : apc[t] # "locked"
    /\ spc \in {"async", "erase", "wait", "done", "lost"} => xpc = "none"
    /\ spc = "done" => tasksQueue_ = <<>>

Holds(s, t) == \E k \in 1 .. Len(s) : s[k] = t

\* The future of an async task that was taken and has not finished is in the list.
FuturesKept ==
    \A t \in Async : apc[t] = "queued" /\ run[t] # "done" => Holds(tasksQueue_, t)

\* The list that shutdown() erases from has a front.
EraseHasFront == spc = "erase" => tasksQueue_ # <<>>

QueueInv ==
    /\ TypeOK /\ MutexHolder /\ OnlyExecutorRuns /\ StagesOfShutdown /\ FuturesKept
    /\ EraseHasFront /\ executed \o orderedTasksQueue_ = accepted

-----------------------------------------------------------------------------
\* Every set of natural numbers that is not empty has a least element.
LEMMA LeastNumber ==
    ASSUME NEW T, T \subseteq Nat, T # {}
    PROVE  \E x \in T : \A y \in T : x <= y
<1> DEFINE R == OpToRel(<, Nat)
<1>1. ASSUME NEW x \in Nat, NEW y \in Nat, y < x PROVE <<y, x>> \in R
  BY <1>1 DEF OpToRel
<1>2. IsWellFoundedOn(R, Nat)
  BY NatLessThanWellFounded
<1> HIDE DEF R
<1>3. PICK x \in T : \A y \in T : ~ (<<y, x>> \in R)
  BY <1>2, WFMin, Zenon
<1>4. ASSUME NEW y \in T PROVE x <= y
  <2>1. ~(y < x)
    BY <1>1, <1>3
  <2> QED BY <2>1
<1> QED BY <1>4

\* purgeCompleted() drops futures of finished tasks only.
LEMMA PurgeKeepsBusy ==
    ASSUME NEW s \in Seq(Async)
    PROVE  /\ purgeCompleted(s) \in Seq(Async)
           /\ \A t \in Async : run[t] # "done" /\ Holds(s, t) => Holds(purgeCompleted(s), t)
<1> DEFINE busy == {i \in 1 .. Len(s) : run[s[i]] # "done"}
<1>1. CASE busy = {}
  <2>1. purgeCompleted(s) = <<>>
    BY <1>1 DEF purgeCompleted
  <2>2. \A t \in Async : run[t] # "done" => ~Holds(s, t)
    BY <1>1 DEF Holds
  <2> QED BY <2>1, <2>2
<1>2. CASE busy # {}
  <2> DEFINE first == CHOOSE i \in busy : \A j \in busy : i <= j
  <2>1. first \in busy /\ \A j \in busy : first <= j
    <3>1. busy \subseteq Nat
      OBVIOUS
    <3> HIDE DEF busy
    <3>2. \E i \in busy : \A j \in busy : i <= j
      BY <1>2, <3>1, LeastNumber
    <3> QED BY <3>2
  <2>2. purgeCompleted(s) = SubSeq(s, first, Len(s))
    BY <1>2 DEF purgeCompleted
  <2> HIDE DEF first
  <2>3. first \in 1 .. Len(s) /\ Len(s) \in Nat
    BY <2>1
  <2>4. /\ SubSeq(s, first, Len(s)) \in Seq(Async)
        /\ Len(SubSeq(s, first, Len(s))) = Len(s) - first + 1
        /\ \A k \in 1 .. Len(s) - first + 1 : SubSeq(s, first, Len(s))[k] = s[first + k - 1]
    BY <2>3
  <2>5. ASSUME NEW t \in Async, run[t] # "done", NEW k \in 1 .. Len(s), s[k] = t
        PROVE  Holds(purgeCompleted(s), t)
    <3>1. first <= k
      BY <2>1, <2>5
    <3>2. k - first + 1 \in 1 .. Len(s) - first + 1 /\ first + (k - first + 1) - 1 = k
      BY <3>1, <2>3
    <3>3. SubSeq(s, first, Len(s))[k - first + 1] = s[k]
      BY <3>2, <2>4
    <3> QED BY <3>2, <3>3, <2>4, <2>2, <2>5 DEF Holds
  <2> QED BY <2>2, <2>4, <2>5 DEF Holds
<1> QED BY <1>1, <1>2

\* Queueing a future keeps those that are there.
LEMMA AppendHolds ==
    ASSUME NEW s \in Seq(Async), NEW t \in Async
    PROVE  /\ Append(s, t) \in Seq(Async) /\ Holds(Append(s, t), t)
           /\ \A u \in Async : Holds(s, u) => Holds(Append(s, t), u)
<1>1. /\ Append(s, t) \in Seq(Async) /\ Len(Append(s, t)) = Len(s) + 1 /\ Len(s) \in Nat
      /\ Append(s, t)[Len(s) + 1] = t /\ \A k \in 1 .. Len(s) : Append(s, t)[k] = s[k]
  OBVIOUS
<1> QED BY <1>1 DEF Holds

\* Erasing the first future drops no other task's.
LEMMA TailHolds ==
    ASSUME NEW s \in Seq(Async), s # <<>>, NEW u \in Async, Holds(s, u), u # Head(s)
    PROVE  Holds(Tail(s), u)
<1>1. PICK k \in 1 .. Len(s) : s[k] = u
  BY DEF Holds
<1>2. Head(s) = s[1] /\ Len(Tail(s)) = Len(s) - 1 /\ Len(s) \in Nat
      /\ \A j \in 1 .. Len(s) - 1 : Tail(s)[j] = s[j + 1]
  OBVIOUS
<1>3. k - 1 \in 1 .. Len(s) - 1 /\ Tail(s)[k - 1] = s[k]
  BY <1>1, <1>2
<1> QED BY <1>1, <1>2, <1>3 DEF Holds

\* The front task moves from what is queued to what was started, the rest stays.
LEMMA TakeFront ==
    ASSUME NEW done \in Seq(Deferred), NEW q \in Seq(Deferred), q # <<>>
    PROVE  /\ Append(done, Head(q)) \o Tail(q) = done \o q
           /\ Head(q) \in Deferred /\ Tail(q) \in Seq(Deferred)
           /\ Append(done, Head(q)) \in Seq(Deferred)
  OBVIOUS

\* A task that is queued comes behind those already taken.
LEMMA PutLast ==
    ASSUME NEW done \in Seq(Deferred), NEW q \in Seq(Deferred), NEW t \in Deferred
    PROVE  done \o Append(q, t) = Append(done \o q, t)
  OBVIOUS

-----------------------------------------------------------------------------
\* The three facts that make QueueInv an invariant of add(), the executor and
\* shutdown().
LEMMA QueueInit == Init => QueueInv
<1> SUFFICES ASSUME Init PROVE QueueInv
  OBVIOUS
<1>1. TypeOK
  <2>1. <<>> \in Seq(Deferred) /\ <<>> \in Seq(Async)
    OBVIOUS
  <2> QED BY <2>1, Zenon DEF Init, TypeOK
<1>2. MutexHolder /\ OnlyExecutorRuns /\ StagesOfShutdown /\ FuturesKept /\ EraseHasFront
  BY TasksAssumption DEF Init, Tasks, MutexHolder, OnlyExecutorRuns, StagesOfShutdown,
     FuturesKept, EraseHasFront
<1>3. executed \o orderedTasksQueue_ = accepted
  BY DEF Init
<1> QED BY <1>1, <1>2, <1>3 DEF QueueInv

LEMMA QueueNext == QueueInv /\ [Next]_vars => QueueInv'
<1> SUFFICES ASSUME QueueInv, [Next]_vars PROVE QueueInv'
  OBVIOUS
<1> USE TasksAssumption DEF QueueInv, Tasks
<1>1. ASSUME NEW t \in Tasks, AddLock(t) PROVE QueueInv'
  <2>1. TypeOK'
    BY <1>1 DEF AddLock, TypeOK
  <2>2. MutexHolder'
    BY <1>1 DEF AddLock, TypeOK, MutexHolder
  <2>3. OnlyExecutorRuns' /\ EraseHasFront' /\ (executed \o orderedTasksQueue_ = accepted)'
    BY <1>1 DEF AddLock, OnlyExecutorRuns, EraseHasFront
  <2>4. StagesOfShutdown'
    BY <1>1 DEF AddLock, TypeOK, StagesOfShutdown
  <2>5. FuturesKept'
    BY <1>1 DEF AddLock, TypeOK, FuturesKept
  <2> QED BY <2>1, <2>2, <2>3, <2>4, <2>5
<1>2. ASSUME NEW t \in Tasks, AddPush(t) PROVE QueueInv'
  <2>1. omx = t /\ t \in Deferred /\ spc \in {"idle", "notify"}
    BY <1>2 DEF AddPush, TypeOK, MutexHolder, StagesOfShutdown
  <2>2. TypeOK'
    BY <1>2, <2>1 DEF AddPush, TypeOK
  <2>3. MutexHolder'
    BY <1>2, <2>1 DEF AddPush, TypeOK, MutexHolder
  <2>4. OnlyExecutorRuns' /\ EraseHasFront' /\ StagesOfShutdown'
    BY <1>2, <2>1 DEF AddPush, TypeOK, OnlyExecutorRuns, EraseHasFront, StagesOfShutdown
  <2>5. (executed \o orderedTasksQueue_ = accepted)'
    BY <1>2, <2>1, PutLast DEF AddPush, TypeOK
  <2>6. FuturesKept'
    BY <1>2, <2>1 DEF AddPush, TypeOK, FuturesKept
  <2> QED BY <2>2, <2>3, <2>4, <2>5, <2>6
<1>3. ASSUME NEW t \in Tasks, Launch(t) PROVE QueueInv'
  BY <1>3 DEF Launch, TypeOK, MutexHolder, OnlyExecutorRuns, StagesOfShutdown, FuturesKept,
     EraseHasFront
<1>4. ASSUME NEW t \in Tasks, AddAsync(t) PROVE QueueInv'
  <2>1. CASE shuttingDown_
    BY <1>4, <2>1, ZenonT(60) DEF AddAsync, TypeOK, MutexHolder, OnlyExecutorRuns, StagesOfShutdown, FuturesKept,
       EraseHasFront
  <2>2. CASE ~shuttingDown_
    <3> DEFINE left == purgeCompleted(tasksQueue_)
    <3>0. left \in Seq(Async) /\ t \in Async /\ spc = "idle"
      BY <1>4, <2>2, PurgeKeepsBusy DEF AddAsync, TypeOK, StagesOfShutdown
    <3>1. /\ tasksQueue_' = Append(left, t) /\ tasksQueue_' \in Seq(Async)
          /\ Holds(tasksQueue_', t) /\ \A u \in Async : Holds(left, u) => Holds(tasksQueue_', u)
      BY <1>4, <2>2, <3>0, AppendHolds DEF AddAsync
    <3>2. \A u \in Async : run[u] # "done" /\ Holds(tasksQueue_, u) => Holds(left, u)
      BY PurgeKeepsBusy DEF TypeOK
    <3> HIDE DEF left
    <3>3. TypeOK'
      BY <1>4, <2>2, <3>1 DEF AddAsync, TypeOK
    <3>4. MutexHolder' /\ OnlyExecutorRuns' /\ EraseHasFront' /\ StagesOfShutdown'
      BY <1>4, <2>2, <3>0 DEF AddAsync, TypeOK, MutexHolder, OnlyExecutorRuns, EraseHasFront,
         StagesOfShutdown
    <3>5. FuturesKept'
      BY <1>4, <2>2, <3>1, <3>2 DEF AddAsync, TypeOK, FuturesKept
    <3>6. (executed \o orderedTasksQueue_ = accepted)'
      BY <1>4 DEF AddAsync
    <3> QED BY <3>3, <3>4, <3>5, <3>6
  <2> QED BY <2>1, <2>2
<1>5. ASSUME NEW t \in Tasks, AsyncFinishes(t) PROVE QueueInv'
  BY <1>5 DEF AsyncFinishes, TypeOK, MutexHolder, OnlyExecutorRuns, StagesOfShutdown, FuturesKept,
     EraseHasFront
<1>6. CASE ExecWait
  <2>0. xpc \notin {"run", "block", "none"} /\ \A t \in Deferred : run[t] # "running"
    BY <1>6 DEF ExecWait, OnlyExecutorRuns
  <2>1. CASE shuttingDown_
    BY <1>6, <2>0, <2>1 DEF ExecWait, TypeOK, MutexHolder, OnlyExecutorRuns, StagesOfShutdown,
       FuturesKept, EraseHasFront
  <2>2. CASE ~shuttingDown_ /\ orderedTasksQueue_ # <<>>
    <3> DEFINE front == Head(orderedTasksQueue_)
    <3>1. /\ front \in Deferred /\ orderedTasksQueue_' \in Seq(Deferred)
          /\ executed' \in Seq(Deferred) /\ executed' \o orderedTasksQueue_' = accepted
      BY <1>6, <2>2, TakeFront, ZenonT(60) DEF ExecWait, TypeOK
    <3>2. /\ xtask' = front /\ run' = [run EXCEPT ![front] = "running"] /\ xpc' = "run"
          /\ UNCHANGED <<omx, tasksQueue_, shuttingDown_, tmx, apc, spc, accepted>>
      BY <1>6, <2>2 DEF ExecWait
    <3> HIDE DEF front
    <3>3. TypeOK'
      BY <3>1, <3>2 DEF TypeOK
    <3>4. MutexHolder' /\ OnlyExecutorRuns' /\ StagesOfShutdown' /\ EraseHasFront'
      BY <2>0, <2>2, <3>1, <3>2 DEF TypeOK, MutexHolder, OnlyExecutorRuns, StagesOfShutdown, EraseHasFront
    <3>5. FuturesKept'
      BY <3>1, <3>2 DEF TypeOK, FuturesKept
    <3> QED BY <3>1, <3>2, <3>3, <3>4, <3>5
  <2>3. CASE ~shuttingDown_ /\ orderedTasksQueue_ = <<>>
    BY <1>6, <2>0, <2>3 DEF ExecWait, TypeOK, MutexHolder, OnlyExecutorRuns, StagesOfShutdown,
       FuturesKept, EraseHasFront
  <2> QED BY <2>1, <2>2, <2>3
<1>7. CASE ExecBlock
  BY <1>7 DEF ExecBlock, TypeOK, MutexHolder, OnlyExecutorRuns, StagesOfShutdown, FuturesKept,
     EraseHasFront
<1>8. CASE ExecFinish
  BY <1>8 DEF ExecFinish, TypeOK, MutexHolder, OnlyExecutorRuns, StagesOfShutdown, FuturesKept,
     EraseHasFront
<1>9. CASE ShutdownFlag
  BY <1>9 DEF ShutdownFlag, TypeOK, MutexHolder, OnlyExecutorRuns, StagesOfShutdown, FuturesKept,
     EraseHasFront
<1>10. CASE ShutdownNotify
  BY <1>10 DEF ShutdownNotify, TypeOK, MutexHolder, OnlyExecutorRuns, StagesOfShutdown, FuturesKept,
     EraseHasFront
<1>11. CASE ShutdownJoin
  BY <1>11 DEF ShutdownJoin, TypeOK, MutexHolder, OnlyExecutorRuns, StagesOfShutdown, FuturesKept,
     EraseHasFront
<1>12. CASE ShutdownPurge
  <2>1. /\ tasksQueue_' \in Seq(Async)
        /\ \A u \in Async : run[u] # "done" /\ Holds(tasksQueue_, u) => Holds(tasksQueue_', u)
    BY <1>12, PurgeKeepsBusy DEF ShutdownPurge, TypeOK
  <2>2. /\ UNCHANGED <<orderedTasksQueue_, shuttingDown_, omx, apc, run, xpc, xtask, accepted, executed>>
        /\ spc = "async"
        /\ \/ tasksQueue_' = <<>> /\ spc' = "done" /\ tmx' = tmx
           \/ tasksQueue_' # <<>> /\ spc' = "erase" /\ tmx' = TRUE
    BY <1>12 DEF ShutdownPurge
  <2> QED BY <2>1, <2>2 DEF TypeOK, MutexHolder, OnlyExecutorRuns, StagesOfShutdown, FuturesKept,
             EraseHasFront
<1>13. CASE ShutdownErase
  <2>1. /\ tasksQueue_ # <<>> /\ tasksQueue_' \in Seq(Async)
        /\ \A u \in Async : run[u] # "done" /\ Holds(tasksQueue_, u) => Holds(tasksQueue_', u)
    BY <1>13, TailHolds DEF ShutdownErase, TypeOK, EraseHasFront
  <2> QED BY <1>13, <2>1 DEF ShutdownErase, TypeOK, MutexHolder, OnlyExecutorRuns, StagesOfShutdown,
             FuturesKept, EraseHasFront
<1>14. CASE ShutdownWait
  BY <1>14 DEF ShutdownWait, TypeOK, MutexHolder, OnlyExecutorRuns, StagesOfShutdown, FuturesKept,
     EraseHasFront
<1>15. ASSUME NEW t \in Tasks, AddFunction(t) PROVE QueueInv'
  <2>1. CASE shuttingDown_
    BY <1>15, <2>1, ZenonT(60) DEF AddFunction, TypeOK, MutexHolder, OnlyExecutorRuns, StagesOfShutdown,
       FuturesKept, EraseHasFront
  <2>2. CASE ~shuttingDown_
    <3> DEFINE left == purgeCompleted(tasksQueue_)
    <3>0. left \in Seq(Async) /\ t \in Async /\ spc = "idle"
      BY <1>15, <2>2, PurgeKeepsBusy DEF AddFunction, TypeOK, StagesOfShutdown
    <3>1. /\ tasksQueue_' = Append(left, t) /\ tasksQueue_' \in Seq(Async)
          /\ Holds(tasksQueue_', t) /\ \A u \in Async : Holds(left, u) => Holds(tasksQueue_', u)
      BY <1>15, <2>2, <3>0, AppendHolds DEF AddFunction
    <3>2. \A u \in Async : run[u] # "done" /\ Holds(tasksQueue_, u) => Holds(left, u)
      BY PurgeKeepsBusy DEF TypeOK
    <3> HIDE DEF left
    <3>3. TypeOK'
      BY <1>15, <2>2, <3>1 DEF AddFunction, TypeOK
    <3>4. MutexHolder' /\ OnlyExecutorRuns' /\ EraseHasFront' /\ StagesOfShutdown'
      BY <1>15, <2>2, <3>0 DEF AddFunction, TypeOK, MutexHolder, OnlyExecutorRuns, EraseHasFront,
         StagesOfShutdown
    <3>5. FuturesKept'
      BY <1>15, <2>2, <3>1, <3>2 DEF AddFunction, TypeOK, FuturesKept
    <3>6. (executed \o orderedTasksQueue_ = accepted)'
      BY <1>15 DEF AddFunction
    <3> QED BY <3>3, <3>4, <3>5, <3>6
  <2> QED BY <2>1, <2>2
<1>16. CASE Deadlocked \/ Finished \/ UNCHANGED vars
  <2>1. UNCHANGED vars
    BY <1>16 DEF Deadlocked, Finished
  <2>2. TypeOK'
    BY <2>1 DEF vars, TypeOK
  <2>3. MutexHolder' /\ OnlyExecutorRuns' /\ StagesOfShutdown'
    BY <2>1 DEF vars, MutexHolder, OnlyExecutorRuns, StagesOfShutdown
  <2>4. FuturesKept' /\ EraseHasFront'
    BY <2>1 DEF vars, FuturesKept, EraseHasFront
  <2> QED BY <2>1, <2>2, <2>3, <2>4 DEF vars
<1> QED
  BY <1>1, <1>2, <1>3, <1>4, <1>5, <1>6, <1>7, <1>8, <1>9, <1>10, <1>11, <1>12, <1>13, <1>14,
     <1>15, <1>16
     DEF Next, Executor, Shutdown

LEMMA QueueInvariant == Spec => []QueueInv
  BY QueueInit, QueueNext, PTL DEF Spec

\* The variables of the queue keep their types.
THEOREM QueueTyped == Spec => []TypeOK
  BY QueueInvariant, PTL DEF QueueInv

\* The executor starts deferred tasks in the order in which add() took them, one at a
\* time, and what shutdown() leaves behind is the end of that order.
THEOREM TasksStartInOrder == Spec => []StartedInOrder
<1>1. QueueInv => StartedInOrder
  BY DEF QueueInv, OnlyExecutorRuns, StartedInOrder
<1> QED BY <1>1, QueueInvariant, PTL

\* After shutdown() no task that was taken runs and none will start, whatever calls
\* of add() it overtook.
THEOREM ShutdownLeavesQuiet == Spec => []QuietAfterShutdown
<1>1. QueueInv => QuietAfterShutdown
  <2> SUFFICES ASSUME QueueInv, spc = "done"
               PROVE  /\ xpc = "none"
                      /\ \A t \in Deferred : run[t] # "running" /\ apc[t] # "locked"
                      /\ \A t \in Async : apc[t] = "queued" => run[t] = "done"
    BY DEF QuietAfterShutdown
  <2>1. xpc = "none" /\ tasksQueue_ = <<>> /\ \A t \in Tasks : apc[t] # "locked"
    BY DEF QueueInv, StagesOfShutdown
  <2>2. \A t \in Deferred : run[t] # "running"
    BY <2>1 DEF QueueInv, OnlyExecutorRuns
  <2>3. \A t \in Async : ~Holds(tasksQueue_, t)
    BY <2>1 DEF Holds
  <2> QED BY <2>1, <2>2, <2>3 DEF QueueInv, FuturesKept, Tasks
<1> QED BY <1>1, QueueInvariant, PTL
===============================================================================
