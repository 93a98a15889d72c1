-------------------------- MODULE PowerSystemProofs --------------------------
(***************************************************************************)
(* Theorems about the activity server, and about its composition with the  *)
(* event manager.  For any slaves, events, requests and replaced queues.   *)
(*                                                                         *)
(* The server: the RESUME flag never outlives the suspend it halts, and a  *)
(* halted suspend does not go through; what a local slave was told of last *)
(* is what became of its machine; every variable keeps its type.  IInv is  *)
(* about the executors and the flags, CycleInv about the numbers of the    *)
(* cycles, DownInv about the last task before the executor.  Each is       *)
(* inductive relative to those before it.                                  *)
(*                                                                         *)
(* The composition: it implements the event manager's specification, whose *)
(* environment is open, and the server's; neither waits for the other      *)
(* where the code does not; and what listeners are told is true.  The      *)
(* proofs rest on the inductive invariants of the two parts (the event     *)
(* manager's comes from an instance of its proofs) and on two that relate  *)
(* them: WaitInv, that the one suspend waiting in the server is that of    *)
(* the event expecting an ack, and FateInv, that the server is on its way  *)
(* to what was last asked of it unless the latest event has failed.        *)
(***************************************************************************)
EXTENDS PowerSystem, TLAPS

-----------------------------------------------------------------------------
(* The activity server by itself.                                           *)

\* At most one executor is past collecting the acks: it holds ackMutex_.
AckMutexExclusive ==
    \A g, h \in Gens :
        /\ epc[g] \in {"collected", "t2", "commit"}
        /\ epc[h] \in {"collected", "t2", "commit"}
        => g = h

\* The types the argument needs.
ExecTypes ==
    /\ epc \in [Gens -> {"idle", "resume", "sleep", "collected", "t2", "commit"}]
    /\ withinSuspendTimeout_ \in BOOLEAN /\ resumeReceivedWithinTimeout_ \in BOOLEAN

IInv == ExecTypes /\ AckMutexExclusive /\ FlagInWindow

LEMMA InitInv == Init => IInv
BY DEF Init, IInv, ExecTypes, AckMutexExclusive, FlagInWindow

\* A step that leaves the executors and the flags alone.
LEMMA FrameInv ==
    ASSUME IInv, UNCHANGED epc, UNCHANGED window
    PROVE  IInv'
BY DEF IInv, ExecTypes, AckMutexExclusive, FlagInWindow, window

LEMMA NextInv == IInv /\ [Next]_vars => IInv'
<1> SUFFICES ASSUME IInv, [Next]_vars PROVE IInv'
  OBVIOUS
<1> USE DEF IInv, ExecTypes, AckMutexExclusive, FlagInWindow
<1>1. ASSUME NEW g \in Gens, ExecTake(g) PROVE IInv'
  BY <1>1 DEF ExecTake, window
<1>2. ASSUME NEW g \in Gens, ExecResume(g) PROVE IInv'
  BY <1>2 DEF ExecResume, ExecDone, window
<1>3. ASSUME NEW g \in Gens, ExecCollect(g) PROVE IInv'
  BY <1>3 DEF ExecCollect, AckMutexHeld, window
<1>3a. ASSUME NEW g \in Gens, ExecDecide(g) PROVE IInv'
  BY <1>3a, ZenonT(60) DEF ExecDecide
<1>4. ASSUME NEW g \in Gens, ExecHalt(g) PROVE IInv'
  BY <1>4 DEF ExecHalt, ExecDone
<1>5. ASSUME NEW g \in Gens, ExecTimeout(g) PROVE IInv'
  BY <1>5 DEF ExecTimeout
<1>6. ASSUME NEW g \in Gens, ExecCommit(g) PROVE IInv'
  BY <1>6 DEF ExecCommit, ExecDone, window
<1>7. CASE ResumeUnderLock
  BY <1>7 DEF ResumeUnderLock, execs
<1>8. CASE UNCHANGED vars
  BY <1>8, FrameInv DEF vars, execs
<1>9. ASSUME NEW mc \in Machines, NEW new \in Down, SendDown(new, mc) PROVE IInv'
  BY <1>9, FrameInv DEF SendDown, execs
<1>10. ASSUME NEW mc \in Machines,
              SendResumeLater(mc) \/ SendResumeLocalDown(mc) \/ SendResumeUp(mc)
       PROVE  IInv'
  BY <1>10, FrameInv DEF SendResumeLater, SendResumeLocalDown, SendResumeUp, execs
<1>11. CASE Slave
  BY <1>11, FrameInv DEF Slave, SendActivityStateAck, AckLost, execs
<1>12. CASE Connect
  BY <1>12, FrameInv DEF Connect, InitServiceMaster, InitServiceSlave,
                         DeregisterMaster, DeregisterSlave, execs
<1>13. QED
  BY <1>1, <1>2, <1>3, <1>3a, <1>4, <1>5, <1>6, <1>7, <1>8, <1>9, <1>10, <1>11, <1>12
     DEF Next, Executor, Master

\* The flag that halts a suspend is raised only while that suspend waits.
THEOREM FlagInWindowAlways == Spec => []FlagInWindow
<1>1. IInv => FlagInWindow
  BY DEF IInv
<1>2. QED
  BY <1>1, InitInv, NextInv, PTL DEF Spec

-----------------------------------------------------------------------------
(* A halted suspend does not go through: a second invariant, relative to    *)
(* IInv.  Cycle numbers are given once, so what is said of a cycle is said  *)
(* of one task.                                                             *)

Busy(g) == epc[g] # "idle"

CycleTypes ==
    /\ requests \in 0 .. MaxRequests /\ gen \in 0 .. MaxQueues
    /\ taskQ_ \in [Gens -> Seq(Task)] /\ etask \in [Gens -> Task]
    /\ cyc \in Cycles

\* Numbers in use were given out.
Numbered ==
    /\ \A g \in Gens : etask[g].c <= requests
    /\ \A g \in Gens : \A i \in 1 .. Len(taskQ_[g]) : taskQ_[g][i].c <= requests
    /\ \A c \in cyc.halted : c <= requests

\* No two tasks, queued or taken, have the same number.
Distinct ==
    /\ \A g, h \in Gens : Busy(g) /\ Busy(h) /\ etask[g].c = etask[h].c => g = h
    /\ \A g, h \in Gens : \A i \in 1 .. Len(taskQ_[h]) :
           Busy(g) => etask[g].c # taskQ_[h][i].c
    /\ \A g, h \in Gens : \A i \in 1 .. Len(taskQ_[g]) : \A j \in 1 .. Len(taskQ_[h]) :
           taskQ_[g][i].c = taskQ_[h][j].c => g = h /\ i = j

\* A halted cycle is inside its timeout, with the flag up, or over.
HaltedOver ==
    /\ \A g \in Gens : Busy(g) /\ etask[g].c \in cyc.halted
                      => epc[g] = "t2" /\ resumeReceivedWithinTimeout_
    /\ \A g \in Gens : \A i \in 1 .. Len(taskQ_[g]) : taskQ_[g][i].c \notin cyc.halted

CycleInv == CycleTypes /\ Numbered /\ Distinct /\ HaltedOver

LEMMA CycleInit == Init => CycleInv
BY PowerAssumption
   DEF Init, CycleInv, CycleTypes, Numbered, Distinct, HaltedOver, Busy, Task, NoTask,
       States, Down, Machines, Cycles

LEMMA CycleStep == IInv /\ CycleInv /\ [Next]_vars => CycleInv'
<1> SUFFICES ASSUME IInv, CycleInv, [Next]_vars PROVE CycleInv'
  OBVIOUS
<1> USE PowerAssumption DEF CycleInv, Busy
<1>0. /\ requests \in Nat /\ MaxRequests \in Nat
      /\ \A g \in Gens : etask[g].c \in 0 .. MaxRequests
      /\ \A g \in Gens : \A i \in 1 .. Len(taskQ_[g]) : taskQ_[g][i].c \in 0 .. MaxRequests
      /\ \A c \in cyc.halted : c \in 0 .. MaxRequests
  <2>1. \A g \in Gens : etask[g] \in Task /\ taskQ_[g] \in Seq(Task)
    BY DEF CycleTypes
  <2>2. \A g \in Gens : \A i \in 1 .. Len(taskQ_[g]) : taskQ_[g][i] \in Task
    BY <2>1
  <2>3. \A t \in Task : t.c \in 0 .. MaxRequests
    BY DEF Task
  <2>4. cyc.halted \subseteq 0 .. MaxRequests
    BY DEF CycleTypes, Cycles
  <2>5. QED
    BY <2>1, <2>2, <2>3, <2>4 DEF CycleTypes
<1>a. InWindow \subseteq 0 .. MaxRequests /\ UnderWay \subseteq 0 .. MaxRequests
  BY <1>0 DEF InWindow, UnderWay
<1>1. ASSUME NEW g \in Gens, ExecTake(g) PROVE CycleInv'
  <2> USE <1>1 DEF ExecTake, window
  <2>1. CycleTypes'
    BY DEF CycleTypes, IInv, ExecTypes
  <2>2. /\ taskQ_[g] # <<>> /\ Head(taskQ_[g]) = taskQ_[g][1]
        /\ Len(taskQ_[g]) \in Nat /\ 1 \in 1 .. Len(taskQ_[g])
        /\ taskQ_'[g] = Tail(taskQ_[g]) /\ Len(taskQ_'[g]) = Len(taskQ_[g]) - 1
        /\ \A i \in 1 .. Len(taskQ_'[g]) :
              i + 1 \in 1 .. Len(taskQ_[g]) /\ taskQ_'[g][i] = taskQ_[g][i + 1]
        /\ \A h \in Gens : h # g => taskQ_'[h] = taskQ_[h]
        /\ etask'[g] = taskQ_[g][1] /\ \A h \in Gens : h # g => etask'[h] = etask[h]
        /\ epc'[g] \in {"resume", "sleep"} /\ epc[g] = "idle"
        /\ \A h \in Gens : h # g => epc'[h] = epc[h]
    BY DEF CycleTypes, IInv, ExecTypes
  <2> HIDE DEF ExecTake
  <2>3. UNCHANGED <<requests, cyc, resumeReceivedWithinTimeout_>>
    BY DEF ExecTake
  <2> HIDE <1>1
  <2> DEFINE Src(h, i) == IF h = g THEN i + 1 ELSE i
  <2>4. ASSUME NEW h \in Gens, NEW i \in 1 .. Len(taskQ_'[h])
        PROVE  /\ Src(h, i) \in 1 .. Len(taskQ_[h])
               /\ taskQ_'[h][i] = taskQ_[h][Src(h, i)]
               /\ h = g => Src(h, i) # 1
    <3>1. CASE h # g
      BY <2>2, <3>1
    <3>2. CASE h = g
      <4>1. i \in 1 .. Len(taskQ_'[g])
        BY <3>2
      <4>2. i + 1 \in 1 .. Len(taskQ_[g]) /\ taskQ_'[g][i] = taskQ_[g][i + 1] /\ i + 1 # 1
        BY <2>2, <4>1
      <4>3. QED
        BY <3>2, <4>2
    <3>3. QED
      BY <3>1, <3>2
  <2>5. Numbered'
    <3>1. ASSUME NEW h \in Gens, NEW i \in 1 .. Len(taskQ_'[h])
          PROVE  taskQ_'[h][i].c <= requests
      BY <2>4 DEF Numbered
    <3>2. ASSUME NEW h \in Gens PROVE etask'[h].c <= requests
      BY <2>2 DEF Numbered
    <3>3. QED
      BY <2>3, <3>1, <3>2 DEF Numbered
  <2>6. Distinct'
    <3>1. ASSUME NEW h \in Gens, NEW k \in Gens, Busy(h)', Busy(k)', etask'[h].c = etask'[k].c
          PROVE  h = k
      BY <2>2, <3>1 DEF Distinct
    <3>2. ASSUME NEW h \in Gens, NEW k \in Gens, NEW i \in 1 .. Len(taskQ_'[k]), Busy(h)'
          PROVE  etask'[h].c # taskQ_'[k][i].c
      <4>1. /\ Src(k, i) \in 1 .. Len(taskQ_[k])
            /\ taskQ_'[k][i] = taskQ_[k][Src(k, i)]
            /\ k = g => Src(k, i) # 1
        BY <2>4
      <4> HIDE DEF Src
      <4>2. CASE h = g
        BY <2>2, <4>1, <4>2 DEF Distinct
      <4>3. CASE h # g
        BY <2>2, <3>2, <4>1, <4>3 DEF Distinct
      <4>4. QED
        BY <4>2, <4>3
    <3>3. ASSUME NEW h \in Gens, NEW k \in Gens, NEW i \in 1 .. Len(taskQ_'[h]),
                 NEW j \in 1 .. Len(taskQ_'[k]), taskQ_'[h][i].c = taskQ_'[k][j].c
          PROVE  h = k /\ i = j
      <4>1. /\ Src(h, i) \in 1 .. Len(taskQ_[h])
            /\ taskQ_'[h][i] = taskQ_[h][Src(h, i)]
        BY <2>4
      <4>2. /\ Src(k, j) \in 1 .. Len(taskQ_[k])
            /\ taskQ_'[k][j] = taskQ_[k][Src(k, j)]
        BY <2>4
      <4>3. h = k /\ Src(h, i) = Src(k, j)
        <5> HIDE DEF Src
        <5> QED
          BY <3>3, <4>1, <4>2 DEF Distinct
      <4>4. i \in Int /\ j \in Int
        OBVIOUS
      <4>5. QED
        BY <4>3, <4>4
    <3>4. QED
      BY <3>1, <3>2, <3>3 DEF Distinct
  <2>7. HaltedOver'
    <3>1. ASSUME NEW h \in Gens, NEW i \in 1 .. Len(taskQ_'[h])
          PROVE  taskQ_'[h][i].c \notin cyc.halted
      BY <2>4 DEF HaltedOver
    <3>2. ASSUME NEW h \in Gens, Busy(h)', etask'[h].c \in cyc.halted
          PROVE  epc'[h] = "t2" /\ resumeReceivedWithinTimeout_
      BY <2>2, <3>2 DEF HaltedOver
    <3>3. QED
      BY <2>3, <3>1, <3>2 DEF HaltedOver
  <2>8. QED
    BY <2>1, <2>5, <2>6, <2>7
<1>2. ASSUME NEW g \in Gens, ExecDone(g),
             UNCHANGED <<requests, gen, taskQ_, cyc>>,
             epc[g] = "t2" \/ UNCHANGED resumeReceivedWithinTimeout_
      PROVE  CycleInv'
  <2>1. /\ epc'[g] = "idle" /\ etask'[g] = NoTask /\ NoTask \in Task /\ NoTask.c = 0
        /\ \A h \in Gens : h # g => epc'[h] = epc[h] /\ etask'[h] = etask[h]
        /\ etask' \in [Gens -> Task]
    BY <1>2 DEF ExecDone, CycleTypes, IInv, ExecTypes, Task, NoTask, States, Down, Machines
  <2>2. CycleTypes'
    BY <1>2, <2>1 DEF CycleTypes
  <2>3. Numbered'
    BY <1>0, <1>2, <2>1 DEF Numbered
  <2>4. Distinct'
    BY <1>2, <2>1 DEF Distinct
  <2>5. HaltedOver'
    BY <1>2, <2>1 DEF HaltedOver, IInv, AckMutexExclusive
  <2>6. QED
    BY <2>2, <2>3, <2>4, <2>5
<1>3. ASSUME NEW g \in Gens, ExecCollect(g) PROVE CycleInv'
  <2>1. /\ UNCHANGED <<requests, gen, taskQ_, etask, resumeReceivedWithinTimeout_>>
        /\ epc[g] = "sleep" /\ epc'[g] = "collected"
        /\ \A h \in Gens : h # g => epc'[h] = epc[h]
    BY <1>3 DEF ExecCollect, queues, window, IInv, ExecTypes
  <2>2. cyc' \in Cycles /\ cyc'.halted = cyc.halted
    BY <1>3 DEF ExecCollect, CycleTypes, Cycles, Task
  <2>3. CycleTypes'
    BY <2>1, <2>2 DEF CycleTypes
  <2>4. Numbered'
    BY <2>1, <2>2 DEF Numbered
  <2>5. Distinct'
    <3>1. \A h \in Gens : Busy(h)' <=> Busy(h)
      BY <2>1
    <3>2. QED
      BY <2>1, <3>1 DEF Distinct
  <2>6. HaltedOver'
    BY <2>1, <2>2 DEF HaltedOver
  <2>7. QED
    BY <2>3, <2>4, <2>5, <2>6
<1>3a. ASSUME NEW g \in Gens, ExecDecide(g) PROVE CycleInv'
  <2>1. /\ UNCHANGED <<requests, gen, taskQ_, etask, cyc, resumeReceivedWithinTimeout_>>
        /\ epc[g] = "collected" /\ epc'[g] \in {"t2", "commit"}
        /\ \A h \in Gens : h # g => epc'[h] = epc[h]
    BY <1>3a DEF ExecDecide, queues, IInv, ExecTypes
  <2>2. CycleTypes' /\ Numbered'
    BY <2>1 DEF CycleTypes, Numbered
  <2>3. Distinct'
    BY <2>1 DEF Distinct
  <2>4. HaltedOver'
    BY <2>1 DEF HaltedOver
  <2>5. QED
    BY <2>2, <2>3, <2>4
<1>4. ASSUME NEW g \in Gens, ExecTimeout(g) PROVE CycleInv'
  <2>1. /\ UNCHANGED <<requests, gen, taskQ_, etask, cyc, resumeReceivedWithinTimeout_>>
        /\ epc[g] = "t2" /\ ~resumeReceivedWithinTimeout_ /\ epc'[g] = "commit"
        /\ \A h \in Gens : h # g => epc'[h] = epc[h]
    BY <1>4 DEF ExecTimeout, queues, IInv, ExecTypes
  <2>2. CycleTypes'
    BY <2>1 DEF CycleTypes
  <2>3. Numbered'
    BY <2>1 DEF Numbered
  <2>4. Distinct'
    BY <2>1 DEF Distinct
  <2>5. HaltedOver'
    BY <2>1 DEF HaltedOver
  <2>6. QED
    BY <2>2, <2>3, <2>4, <2>5
<1>5. CASE ResumeUnderLock
  <2>1. UNCHANGED <<requests, gen, taskQ_, epc, etask>>
    BY <1>5 DEF ResumeUnderLock, queues, execs
  <2>2. CASE ~withinSuspendTimeout_
    <3>1. UNCHANGED <<cyc, resumeReceivedWithinTimeout_>>
      BY <1>5, <2>2 DEF ResumeUnderLock
    <3>2. CycleTypes' /\ Numbered'
      BY <2>1, <3>1 DEF CycleTypes, Numbered
    <3>3. Distinct' /\ HaltedOver'
      BY <2>1, <3>1 DEF Distinct, HaltedOver
    <3>4. QED
      BY <3>2, <3>3
  <2>3. CASE withinSuspendTimeout_
    <3>1. /\ resumeReceivedWithinTimeout_' = TRUE
          /\ cyc' \in Cycles /\ cyc'.halted = cyc.halted \cup InWindow
      <4>1. cyc' = [cyc EXCEPT !.halted = @ \cup InWindow]
        BY <1>5, <2>3 DEF ResumeUnderLock
      <4>2. cyc \in Cycles
        BY DEF CycleTypes
      <4>3. resumeReceivedWithinTimeout_' = TRUE
        BY <1>5, <2>3 DEF ResumeUnderLock
      <4>4. QED
        BY <1>a, <4>1, <4>2, <4>3 DEF Cycles
    <3>2. \A c \in InWindow : \E g \in Gens : epc[g] = "t2" /\ c = etask[g].c
      BY DEF InWindow
    <3>3. CycleTypes' /\ Numbered' /\ Distinct'
      BY <2>1, <3>1, <3>2 DEF CycleTypes, Numbered, Distinct
    <3>4. HaltedOver'
      BY <2>1, <3>1, <3>2 DEF HaltedOver, Distinct
    <3>5. QED
      BY <3>3, <3>4
  <2>4. QED
    BY <2>2, <2>3
<1>6. ASSUME NEW mc \in Machines, NEW op \in States, Request, Enqueue(op, mc),
             UNCHANGED <<gen, epc, etask, resumeReceivedWithinTimeout_>>,
             cyc' \in Cycles, cyc'.halted = cyc.halted
      PROVE  CycleInv'
  <2> DEFINE t == [op |-> op, mach |-> mc, c |-> requests']
  <2>1. requests' = requests + 1 /\ requests' \in 0 .. MaxRequests
    BY <1>6 DEF Request, CycleTypes
  <2>2. t \in Task /\ t.c = requests'
    BY <2>1 DEF Task
  <2>3. taskQ_' = [taskQ_ EXCEPT ![gen] = Append(@, t)]
    BY <1>6 DEF Enqueue
  <2> HIDE DEF t
  <2>4. CycleTypes'
    <3>1. taskQ_' \in [Gens -> Seq(Task)]
      <4>1. taskQ_ \in [Gens -> Seq(Task)]
        BY DEF CycleTypes
      <4>2. \A g \in Gens : Append(taskQ_[g], t) \in Seq(Task)
        BY <2>2, <4>1
      <4>3. QED
        BY <2>3, <4>1, <4>2
    <3>2. QED
      BY <1>6, <2>1, <3>1 DEF CycleTypes
  <2>5. \A h \in Gens :
          /\ taskQ_[h] \in Seq(Task) /\ Len(taskQ_[h]) \in Nat
          /\ h # gen => taskQ_'[h] = taskQ_[h]
          /\ h = gen => /\ Len(taskQ_'[h]) = Len(taskQ_[h]) + 1
                        /\ taskQ_'[h][Len(taskQ_[h]) + 1] = t
                        /\ \A i \in 1 .. Len(taskQ_[h]) : taskQ_'[h][i] = taskQ_[h][i]
    BY <2>2, <2>3 DEF CycleTypes
  <2>6. ASSUME NEW h \in Gens, NEW i \in 1 .. Len(taskQ_'[h])
        PROVE  \/ i \in 1 .. Len(taskQ_[h]) /\ taskQ_'[h][i] = taskQ_[h][i]
               \/ h = gen /\ i = Len(taskQ_[h]) + 1 /\ taskQ_'[h][i].c = requests + 1
    BY <2>1, <2>2, <2>5
  <2>7. /\ \A g \in Gens : etask[g].c \in Nat /\ etask[g].c <= requests
        /\ \A g \in Gens : \A i \in 1 .. Len(taskQ_[g]) :
              taskQ_[g][i].c \in Nat /\ taskQ_[g][i].c <= requests
        /\ \A c \in cyc.halted : c \in Nat /\ c <= requests
        /\ requests \in Nat
    BY <1>0 DEF Numbered
  <2>8. Numbered'
    BY <1>6, <2>1, <2>6, <2>7, SMTT(30) DEF Numbered
  <2>9. Distinct'
    <3>1. ASSUME NEW h \in Gens, NEW k \in Gens, NEW i \in 1 .. Len(taskQ_'[k]), Busy(h)'
          PROVE  etask'[h].c # taskQ_'[k][i].c
      BY <1>6, <2>6, <2>7, <3>1 DEF Distinct
    <3>2. ASSUME NEW h \in Gens, NEW k \in Gens, NEW i \in 1 .. Len(taskQ_'[h]),
                 NEW j \in 1 .. Len(taskQ_'[k]), taskQ_'[h][i].c = taskQ_'[k][j].c
          PROVE  h = k /\ i = j
      <4> DEFINE OldI == i \in 1 .. Len(taskQ_[h]) /\ taskQ_'[h][i] = taskQ_[h][i]
                 NewI == h = gen /\ i = Len(taskQ_[h]) + 1 /\ taskQ_'[h][i].c = requests + 1
                 OldJ == j \in 1 .. Len(taskQ_[k]) /\ taskQ_'[k][j] = taskQ_[k][j]
                 NewJ == k = gen /\ j = Len(taskQ_[k]) + 1 /\ taskQ_'[k][j].c = requests + 1
      <4>1. (OldI \/ NewI) /\ (OldJ \/ NewJ)
        BY <2>6
      <4>2. CASE OldI /\ OldJ
        BY <3>2, <4>2 DEF Distinct
      <4>3. CASE NewI /\ NewJ
        BY <4>3
      <4>4. CASE OldI /\ NewJ
        BY <2>7, <3>2, <4>4
      <4>5. CASE NewI /\ OldJ
        BY <2>7, <3>2, <4>5
      <4>6. QED
        BY <4>1, <4>2, <4>3, <4>4, <4>5
    <3>3. QED
      BY <1>6, <3>1, <3>2 DEF Distinct
  <2>10. HaltedOver'
    BY <1>6, <2>6, <2>7 DEF HaltedOver
  <2>11. QED
    BY <2>4, <2>8, <2>9, <2>10
<1>7. ASSUME requests' \in {requests, requests + 1}, requests' <= MaxRequests,
             UNCHANGED <<gen, taskQ_, epc, etask, resumeReceivedWithinTimeout_>>,
             cyc' \in Cycles, cyc'.halted = cyc.halted
      PROVE  CycleInv'
  <2>1. CycleTypes'
    BY <1>7 DEF CycleTypes
  <2>2. Numbered'
    BY <1>0, <1>7 DEF Numbered
  <2>3. Distinct' /\ HaltedOver'
    BY <1>7 DEF Distinct, HaltedOver
  <2>4. QED
    BY <2>1, <2>2, <2>3
<1>8. CASE NewTaskQ /\ UNCHANGED <<requests, epc, etask, resumeReceivedWithinTimeout_>>
  <2>1. gen' \in 0 .. MaxQueues /\ \A g \in Gens : taskQ_'[g] = <<>>
    BY <1>8 DEF NewTaskQ, CycleTypes
  <2>2. taskQ_' \in [Gens -> Seq(Task)]
    BY <1>8 DEF NewTaskQ
  <2>4. cyc' \in Cycles /\ cyc'.halted = cyc.halted
    BY <1>a, <1>8 DEF NewTaskQ, CycleTypes, Cycles
  <2>5. CycleTypes'
    BY <1>8, <2>1, <2>2, <2>4 DEF CycleTypes
  <2>6. Numbered' /\ Distinct' /\ HaltedOver'
    BY <1>8, <2>1, <2>4 DEF Numbered, Distinct, HaltedOver
  <2>7. QED
    BY <2>5, <2>6
<1> HIDE DEF CycleInv
<1>9. CASE UNCHANGED vars
  BY <1>9, <1>7 DEF vars, queues, execs, window, CycleInv, CycleTypes
<1>10. ASSUME NEW mc \in Machines, NEW new \in Down, SendDown(new, mc) PROVE CycleInv'
  BY <1>10, <1>6 DEF SendDown, execs, window, States, CycleInv, CycleTypes
<1>11. ASSUME NEW mc \in Machines, SendResumeLater(mc) PROVE CycleInv'
  <2>1. cyc' \in Cycles /\ cyc'.halted = cyc.halted
    BY <1>a, <1>11 DEF SendResumeLater, CycleInv, CycleTypes, Cycles
  <2>2. QED
    BY <1>11, <1>6, <2>1 DEF SendResumeLater, execs, window, States
<1>12. ASSUME NEW mc \in Machines, SendResumeLocalDown(mc) PROVE CycleInv'
  <2>1. cyc' \in Cycles /\ cyc'.halted = cyc.halted
    BY <1>a, <1>12 DEF SendResumeLocalDown, CycleInv, CycleTypes, Cycles
  <2>2. requests' = requests + 1 /\ requests' <= MaxRequests
    BY <1>12 DEF SendResumeLocalDown, Request, CycleInv, CycleTypes
  <2>3. QED
    BY <1>12, <1>7, <2>1, <2>2 DEF SendResumeLocalDown, queues, execs, window
<1>13. ASSUME NEW mc \in Machines, SendResumeUp(mc) PROVE CycleInv'
  <2>1. requests' = requests + 1 /\ requests' <= MaxRequests
    BY <1>13 DEF SendResumeUp, Request, CycleInv, CycleTypes
  <2>2. QED
    BY <1>13, <1>7, <2>1 DEF SendResumeUp, queues, execs, window, CycleInv, CycleTypes
<1>14. CASE Slave
  BY <1>14, <1>7 DEF Slave, SendActivityStateAck, AckLost, queues, execs, window,
                     CycleInv, CycleTypes
<1>15. CASE DeregisterMaster \/ \E s \in Slaves : DeregisterSlave(s)
  BY <1>15, <1>7 DEF DeregisterMaster, DeregisterSlave, queues, execs, window,
                     CycleInv, CycleTypes
<1>16. CASE InitServiceMaster \/ \E s \in Slaves : InitServiceSlave(s)
  BY <1>16, <1>8 DEF InitServiceMaster, InitServiceSlave, execs, window
<1>17. ASSUME NEW g \in Gens, ExecResume(g) \/ ExecHalt(g) \/ ExecCommit(g) PROVE CycleInv'
  BY <1>17, <1>2 DEF ExecResume, ExecHalt, ExecCommit, queues, window
<1>18. QED
  BY <1>1, <1>3, <1>3a, <1>4, <1>5, <1>9, <1>10, <1>11, <1>12, <1>13, <1>14, <1>15, <1>16, <1>17
     DEF Next, Executor, Master, Connect

\* A suspend is not carried out once the master has been told that it was halted.
THEOREM HaltedStaysUpAlways == Spec => HaltedStaysUp
<1>1. CycleInv /\ [Next]_vars
      => [\A g \in Gens : epc[g] = "commit" /\ epc'[g] = "idle" => etask[g].c \notin cyc.halted]_vars
  BY DEF CycleInv, HaltedOver, Busy
<1>2. Spec => []IInv
  BY InitInv, NextInv, PTL DEF Spec
<1>3. Spec => []CycleInv
  BY <1>2, CycleInit, CycleStep, PTL DEF Spec
<1>4. QED
  BY <1>1, <1>3, PTL DEF Spec, HaltedStaysUp

-----------------------------------------------------------------------------
(* What slaves were told comes true: a third invariant.  As long as no      *)
(* client replaced a queue that was in use, one executor works, and the     *)
(* last task before it is what was told last, or a RESUME.                  *)

DownTypes ==
    /\ localMachState_ \in States /\ told \in [Machines -> States]
    /\ mmach \in Machines /\ master_ \in BOOLEAN

\* The master comes with a queue.
MasterHasQueue == master_ => gen \in Gens

\* An executor does what its task says.
TaskFits == \A g \in Gens : epc[g] # "idle" => (epc[g] = "resume" <=> etask[g].op = "RESUME")

OneQueue == \A g \in Gens : g # gen => epc[g] = "idle" /\ taskQ_[g] = <<>>

LastTaskTold ==
    \A g \in Gens :
        /\ taskQ_[g] # <<>> => taskQ_[g][Len(taskQ_[g])].op \in {told["LOCAL"], "RESUME"}
        /\ taskQ_[g] = <<>> /\ epc[g] # "idle" =>
             /\ etask[g].op \in {told["LOCAL"], "RESUME"}
             /\ ~(epc[g] = "t2" /\ resumeReceivedWithinTimeout_)

AllIdle == \A g \in Gens : epc[g] = "idle" /\ taskQ_[g] = <<>>

DownInv ==
    /\ DownTypes /\ MasterHasQueue /\ TaskFits
    /\ cyc.replaced = {} => OneQueue
    /\ cyc.replaced = {} /\ told["LOCAL"] # "RESUME" =>
         LastTaskTold /\ (AllIdle => localMachState_ = told["LOCAL"])

LEMMA DownInit == Init => DownInv
<1> SUFFICES ASSUME Init PROVE DownInv
  OBVIOUS
<1>1. DownTypes
  BY DEF Init, DownTypes, States, Down, Machines
<1>2. MasterHasQueue /\ TaskFits /\ OneQueue /\ told["LOCAL"] = "RESUME"
  BY DEF Init, MasterHasQueue, TaskFits, OneQueue, Machines
<1>3. QED
  BY <1>1, <1>2 DEF DownInv

\* A step of one executor past its queue that is neither its last nor one that
\* touches what was told.
LEMMA DownExec ==
    ASSUME IInv, CycleInv, DownInv, NEW g \in Gens,
           epc[g] \notin {"idle", "resume"},
           NEW pc \in {"sleep", "collected", "t2", "commit"},
           epc' = [epc EXCEPT ![g] = pc],
           pc = "t2" => ~resumeReceivedWithinTimeout_,
           UNCHANGED <<localMachState_, told, mmach, master_, queues, etask, cyc,
                       resumeReceivedWithinTimeout_>>
    PROVE  DownInv'
<1>0. epc'[g] = pc /\ \A h \in Gens : h # g => epc'[h] = epc[h]
  BY DEF IInv, ExecTypes
<1>1. \A h \in Gens : /\ h # g => epc'[h] = epc[h]
                      /\ epc'[h] = "idle" <=> epc[h] = "idle"
                      /\ epc'[h] = "resume" <=> epc[h] = "resume"
                      /\ epc'[h] = "t2" /\ resumeReceivedWithinTimeout_ => epc[h] = "t2"
  BY <1>0
<1>2. DownTypes' /\ MasterHasQueue' /\ TaskFits'
  BY <1>1 DEF DownInv, DownTypes, MasterHasQueue, TaskFits, queues
<1>3. OneQueue => OneQueue'
  BY <1>1 DEF OneQueue, queues
<1>4. LastTaskTold => LastTaskTold'
  BY <1>1 DEF LastTaskTold, queues
<1>5. AllIdle' => AllIdle
  BY <1>1 DEF AllIdle, queues
<1>6. QED
  BY <1>2, <1>3, <1>4, <1>5 DEF DownInv

\* A step that leaves the executors, what was told and the local machine alone.
LEMMA DownFrame ==
    ASSUME DownInv, mmach' \in Machines, master_' \in BOOLEAN, master_' => master_,
           UNCHANGED <<localMachState_, told, queues, execs, cyc,
                       resumeReceivedWithinTimeout_>>
    PROVE  DownInv'
<1>1. DownTypes' /\ MasterHasQueue' /\ TaskFits'
  BY DEF DownInv, DownTypes, MasterHasQueue, TaskFits, queues, execs
<1>2. OneQueue => OneQueue'
  BY DEF OneQueue, queues, execs
<1>3. LastTaskTold => LastTaskTold'
  BY DEF LastTaskTold, queues, execs
<1>4. AllIdle' => AllIdle
  BY DEF AllIdle, queues, execs
<1>5. QED
  BY <1>1, <1>2, <1>3, <1>4 DEF DownInv

\* A request that goes to the end of the current queue.
LEMMA DownEnqueue ==
    ASSUME IInv, CycleInv, DownInv, Request, NEW op \in States, NEW mc \in Machines,
           Enqueue(op, mc), told' \in [Machines -> States],
           op = told'["LOCAL"] \/ op = "RESUME",
           UNCHANGED <<localMachState_, mmach, master_, gen, execs, cyc>>
    PROVE  DownInv'
<1>1. gen \in Gens /\ Gens # {}
  BY DEF Request, DownInv, MasterHasQueue
<1>2. taskQ_ \in [Gens -> Seq(Task)]
  BY DEF CycleInv, CycleTypes
<1> DEFINE t == [op |-> op, mach |-> mc, c |-> requests']
<1>3. taskQ_' = [taskQ_ EXCEPT ![gen] = Append(@, t)] /\ t.op = op
  BY DEF Enqueue
<1>4. t \in Task
  BY PowerAssumption DEF Task, Request, CycleInv, CycleTypes
<1> HIDE DEF t
<1>5. /\ \A h \in Gens : h # gen => taskQ_'[h] = taskQ_[h]
      /\ taskQ_'[gen] # <<>> /\ taskQ_'[gen][Len(taskQ_'[gen])] = t
  <2>1. taskQ_'[gen] = Append(taskQ_[gen], t) /\ taskQ_[gen] \in Seq(Task)
    BY <1>1, <1>2, <1>3
  <2>2. Append(taskQ_[gen], t) # <<>>
        /\ Append(taskQ_[gen], t)[Len(Append(taskQ_[gen], t))] = t
    BY <1>4, <2>1
  <2>3. \A h \in Gens : h # gen => taskQ_'[h] = taskQ_[h]
    BY <1>2, <1>3
  <2>4. QED
    BY <2>1, <2>2, <2>3
<1>6. DownTypes' /\ MasterHasQueue' /\ TaskFits'
  BY DEF DownInv, DownTypes, MasterHasQueue, TaskFits, execs
<1>7. OneQueue => OneQueue'
  BY <1>5 DEF OneQueue, execs
<1>8. OneQueue => LastTaskTold'
  BY <1>3, <1>5 DEF OneQueue, LastTaskTold, execs
<1>9. ~AllIdle'
  BY <1>1, <1>5 DEF AllIdle
<1>10. QED
  BY <1>6, <1>7, <1>8, <1>9 DEF DownInv

\* A resume that takes effect: the slaves are told.
LEMMA DownResume ==
    ASSUME CycleInv, DownInv, NEW mc \in Machines, DoResume(mc), mmach' \in Machines,
           UNCHANGED <<master_, queues, cyc.replaced>>,
           \A g \in Gens : /\ epc'[g] = "idle" \/ (epc'[g] = epc[g] /\ etask'[g] = etask[g])
                           /\ epc[g] = "idle" => epc'[g] = "idle"
    PROVE  DownInv'
<1>1. told' \in [Machines -> States] /\ told'["LOCAL"] = "RESUME"
      /\ localMachState_' = "RESUME"
  BY DEF DoResume, Told, DownInv, DownTypes, Machines, States, Down
<1>2. DownTypes' /\ MasterHasQueue' /\ TaskFits'
  BY <1>1 DEF DownInv, DownTypes, MasterHasQueue, TaskFits, queues, States
<1>3. OneQueue => OneQueue'
  BY DEF OneQueue, queues
<1>4. QED
  BY <1>1, <1>2, <1>3 DEF DownInv

\* Taking the first task of a queue leaves its last, or was the last.
LEMMA LastOfTail ==
    ASSUME NEW q \in Seq(Task), q # <<>>
    PROVE  /\ Tail(q) # <<>> => Tail(q)[Len(Tail(q))] = q[Len(q)]
           /\ Tail(q) = <<>> => Head(q) = q[Len(q)]
<1>1. /\ Len(q) \in Nat \ {0} /\ Tail(q) \in Seq(Task)
      /\ Head(q) = q[1] /\ Len(Tail(q)) = Len(q) - 1
      /\ \A i \in 1 .. Len(q) - 1 : Tail(q)[i] = q[i + 1]
  OBVIOUS
<1>2. Tail(q) # <<>> => Len(q) - 1 \in 1 .. Len(q) - 1
  BY <1>1
<1>3. Tail(q) = <<>> => Len(q) = 1
  <2>1. Len(<< >>) = 0
    OBVIOUS
  <2>2. Tail(q) = <<>> => Len(Tail(q)) = 0
    BY <2>1, Zenon
  <2>3. QED
    BY <1>1, <2>2
<1>4. QED
  BY <1>1, <1>2, <1>3

LEMMA DownStep == IInv /\ CycleInv /\ DownInv /\ [Next]_vars => DownInv'
<1> SUFFICES ASSUME IInv, CycleInv, DownInv, [Next]_vars PROVE DownInv'
  OBVIOUS
<1>0. /\ epc \in [Gens -> {"idle", "resume", "sleep", "collected", "t2", "commit"}]
      /\ etask \in [Gens -> Task] /\ taskQ_ \in [Gens -> Seq(Task)]
      /\ \A t \in Task : t.op \in States /\ t.mach \in Machines
      /\ mmach \in Machines /\ master_ \in BOOLEAN
      /\ told \in [Machines -> States]
  BY DEF IInv, ExecTypes, CycleInv, CycleTypes, DownInv, DownTypes, Task
<1>1. ASSUME NEW g \in Gens, ExecTake(g) PROVE DownInv'
  <2>1. /\ epc[g] = "idle" /\ taskQ_[g] \in Seq(Task) /\ taskQ_[g] # <<>>
        /\ etask'[g] = Head(taskQ_[g]) /\ taskQ_'[g] = Tail(taskQ_[g])
        /\ epc'[g] = IF Head(taskQ_[g]).op = "RESUME" THEN "resume" ELSE "sleep"
        /\ \A h \in Gens : h # g =>
              epc'[h] = epc[h] /\ etask'[h] = etask[h] /\ taskQ_'[h] = taskQ_[h]
        /\ UNCHANGED <<localMachState_, told, mmach, master_, gen, cyc,
                       resumeReceivedWithinTimeout_>>
    BY <1>0, <1>1 DEF ExecTake, states, clients, window, handler
  <2>2. /\ Tail(taskQ_[g]) # <<>> =>
             Tail(taskQ_[g])[Len(Tail(taskQ_[g]))] = taskQ_[g][Len(taskQ_[g])]
        /\ Tail(taskQ_[g]) = <<>> => Head(taskQ_[g]) = taskQ_[g][Len(taskQ_[g])]
    BY <2>1, LastOfTail
  <2>3. DownTypes' /\ MasterHasQueue' /\ TaskFits'
    BY <2>1 DEF DownInv, DownTypes, MasterHasQueue, TaskFits
  <2>4. OneQueue => OneQueue'
    BY <2>1 DEF OneQueue
  <2>5. LastTaskTold => LastTaskTold'
    <3> SUFFICES ASSUME LastTaskTold, NEW h \in Gens
                 PROVE  /\ taskQ_'[h] # <<>> =>
                             taskQ_'[h][Len(taskQ_'[h])].op \in {told'["LOCAL"], "RESUME"}
                        /\ taskQ_'[h] = <<>> /\ epc'[h] # "idle" =>
                             /\ etask'[h].op \in {told'["LOCAL"], "RESUME"}
                             /\ ~(epc'[h] = "t2" /\ resumeReceivedWithinTimeout_')
      BY DEF LastTaskTold
    <3>1. CASE h # g
      BY <2>1, <3>1 DEF LastTaskTold
    <3>2. CASE h = g
      <4>1. taskQ_[g][Len(taskQ_[g])].op \in {told["LOCAL"], "RESUME"}
        BY <2>1 DEF LastTaskTold
      <4>2. epc'[g] # "t2"
        BY <2>1
      <4>3. QED
        BY <2>1, <2>2, <3>2, <4>1, <4>2
    <3>3. QED
      BY <3>1, <3>2
  <2>6. ~AllIdle'
    BY <2>1 DEF AllIdle
  <2>7. QED
    BY <2>1, <2>3, <2>4, <2>5, <2>6 DEF DownInv
<1>2. ASSUME NEW g \in Gens, ExecResume(g) PROVE DownInv'
  <2>1. etask[g].mach \in Machines
    BY <1>0
  <2>2. \A h \in Gens : /\ epc'[h] = "idle" \/ (epc'[h] = epc[h] /\ etask'[h] = etask[h])
                        /\ epc[h] = "idle" => epc'[h] = "idle"
    BY <1>0, <1>2 DEF ExecResume, ExecDone
  <2>3. DoResume(etask[g].mach) /\ mmach' \in Machines /\ UNCHANGED <<master_, queues, cyc.replaced>>
    BY <1>0, <1>2 DEF ExecResume, clients, handler
  <2>4. QED
    BY <2>1, <2>2, <2>3, DownResume
<1>3. ASSUME NEW g \in Gens, ExecCollect(g) PROVE DownInv'
  BY <1>3, DownExec DEF ExecCollect, states, clients, window, handler
<1>4. ASSUME NEW g \in Gens, ExecDecide(g) PROVE DownInv'
  <2>1. ~resumeReceivedWithinTimeout_
    BY <1>4 DEF ExecDecide, IInv, FlagInWindow, AckMutexExclusive
  <2>2. PICK pc \in {"t2", "commit"} : epc' = [epc EXCEPT ![g] = pc]
    BY <1>4 DEF ExecDecide
  <2>3. QED
    BY <1>4, <2>1, <2>2, DownExec DEF ExecDecide, states, clients, handler
<1>5. ASSUME NEW g \in Gens, ExecTimeout(g) PROVE DownInv'
  BY <1>5, DownExec DEF ExecTimeout, states, clients, handler
<1>6. ASSUME NEW g \in Gens, ExecHalt(g) \/ ExecCommit(g) PROVE DownInv'
  <2>1. /\ epc[g] \in {"t2", "commit"} /\ epc'[g] = "idle"
        /\ \A h \in Gens : h # g => epc'[h] = epc[h] /\ etask'[h] = etask[h]
        /\ UNCHANGED <<told, mmach, master_, gen, taskQ_, cyc>>
        /\ resumeReceivedWithinTimeout_' => resumeReceivedWithinTimeout_
    BY <1>0, <1>6 DEF ExecHalt, ExecCommit, ExecDone, states, clients, handler, window, queues
  <2>2. localMachState_' \in States
    BY <1>0, <1>6 DEF ExecHalt, ExecCommit, states, DownInv, DownTypes
  <2>3. DownTypes' /\ MasterHasQueue' /\ TaskFits'
    BY <2>1, <2>2 DEF DownInv, DownTypes, MasterHasQueue, TaskFits
  <2>4. OneQueue => OneQueue'
    BY <2>1 DEF OneQueue
  <2>5. LastTaskTold => LastTaskTold'
    BY <2>1 DEF LastTaskTold
  <2>6. ASSUME LastTaskTold, AllIdle', told["LOCAL"] # "RESUME"
        PROVE  localMachState_' = told["LOCAL"]
    <3>1. taskQ_[g] = <<>>
      BY <2>1, <2>6 DEF AllIdle
    <3>2. etask[g].op \in {told["LOCAL"], "RESUME"}
          /\ ~(epc[g] = "t2" /\ resumeReceivedWithinTimeout_)
      BY <2>1, <2>6, <3>1 DEF LastTaskTold
    <3>3. ExecCommit(g) /\ etask[g].op # "RESUME"
      BY <1>6, <2>1, <3>2 DEF ExecHalt, DownInv, TaskFits
    <3>4. QED
      BY <3>2, <3>3 DEF ExecCommit
  <2>7. QED
    BY <2>1, <2>3, <2>4, <2>5, <2>6 DEF DownInv
<1>7. CASE ResumeUnderLock
  <2>1. UNCHANGED <<master_, queues, execs>> /\ mmach' \in Machines
    BY <1>7 DEF ResumeUnderLock, clients, Machines
  <2>2. CASE ~withinSuspendTimeout_
    BY <1>0, <1>7, <2>1, <2>2, DownFrame DEF ResumeUnderLock, states
  <2>3. CASE withinSuspendTimeout_
    <3>1. DoResume(mmach) /\ cyc' = [cyc EXCEPT !.halted = @ \cup InWindow]
      BY <1>7, <2>3 DEF ResumeUnderLock
    <3>2. UNCHANGED cyc.replaced
      BY <3>1 DEF CycleInv, CycleTypes, Cycles
    <3>3. QED
      BY <1>0, <2>1, <3>1, <3>2, DownResume DEF execs
  <2>4. QED
    BY <2>2, <2>3
<1>8. ASSUME NEW mc \in Machines, NEW new \in Down, SendDown(new, mc) PROVE DownInv'
  <2>1. told' \in [Machines -> States] /\ new = told'["LOCAL"] /\ new \in States
    BY <1>0, <1>8 DEF SendDown, Told, States, Machines
  <2>2. Request /\ Enqueue(new, mc)
        /\ UNCHANGED <<localMachState_, mmach, master_, gen, execs, cyc>>
    BY <1>8 DEF SendDown, states, clients, handler
  <2>3. QED
    BY <2>1, <2>2, DownEnqueue
<1>9. ASSUME NEW mc \in Machines, SendResumeLater(mc) PROVE DownInv'
  <2>1. Request /\ Enqueue("RESUME", mc) /\ "RESUME" \in States
        /\ told' \in [Machines -> States]
        /\ UNCHANGED <<localMachState_, mmach, master_, gen, execs, cyc>>
    BY <1>0, <1>9 DEF SendResumeLater, states, clients, handler, States
  <2>2. QED
    BY <2>1, DownEnqueue
<1>10. ASSUME NEW mc \in Machines, SendResumeLocalDown(mc) PROVE DownInv'
  BY <1>0, <1>10, DownResume DEF SendResumeLocalDown, clients, handler, execs
<1>11. ASSUME NEW mc \in Machines, SendResumeUp(mc) PROVE DownInv'
  BY <1>0, <1>11, DownFrame DEF SendResumeUp, states, clients, window
<1>12. CASE Slave \/ UNCHANGED vars
  BY <1>0, <1>12, DownFrame
     DEF Slave, SendActivityStateAck, AckLost, vars, states, clients, window, handler
<1>13. CASE DeregisterMaster \/ \E s \in Slaves : DeregisterSlave(s)
  <2>1. /\ UNCHANGED <<localMachState_, told, mmach, queues, execs, cyc,
                       resumeReceivedWithinTimeout_>>
        /\ master_' = FALSE \/ master_' = master_
    BY <1>13 DEF DeregisterMaster, DeregisterSlave, states, window, handler
  <2>2. mmach' \in Machines
    BY <1>0, <2>1
  <2>2a. master_' \in BOOLEAN /\ (master_' => master_)
    <3>1. CASE master_' = FALSE
      BY <3>1, Zenon
    <3>2. CASE master_' = master_
      <4>1. master_ \in BOOLEAN
        BY <1>0
      <4>2. QED
        BY <3>2, <4>1, Zenon
    <3>3. QED
      BY <2>1, <3>1, <3>2
  <2>3. QED
    BY <2>1, <2>2, <2>2a, DownFrame
<1>14. CASE InitServiceMaster \/ \E s \in Slaves : InitServiceSlave(s)
  <2>1. /\ UNCHANGED <<localMachState_, told, mmach, epc, etask>>
        /\ master_' \in BOOLEAN /\ NewTaskQ
    BY <1>0, <1>14 DEF InitServiceMaster, InitServiceSlave, states, execs, handler
  <2>2. /\ gen' \in Gens /\ \A g \in Gens : taskQ_'[g] = <<>>
        /\ cyc'.replaced = cyc.replaced \cup UnderWay
    BY <2>1, PowerAssumption DEF NewTaskQ, CycleInv, CycleTypes, Cycles, Gens
  <2>3. DownTypes' /\ MasterHasQueue' /\ TaskFits'
    BY <2>1, <2>2 DEF DownInv, DownTypes, MasterHasQueue, TaskFits, Gens
  <2>4. UnderWay = {} => AllIdle
    <3> SUFFICES ASSUME UnderWay = {}, NEW g \in Gens
                 PROVE  epc[g] = "idle" /\ taskQ_[g] = <<>>
      BY DEF AllIdle
    <3>1. epc[g] # "idle" => etask[g].c \in UnderWay
      BY DEF UnderWay
    <3>2. \A i \in 1 .. Len(taskQ_[g]) : taskQ_[g][i].c \in UnderWay
      BY DEF UnderWay
    <3>3. taskQ_[g] # <<>> => 1 \in 1 .. Len(taskQ_[g])
      BY <1>0
    <3>4. QED
      BY <3>1, <3>2, <3>3
  <2>5. AllIdle => OneQueue' /\ LastTaskTold'
    BY <2>1, <2>2 DEF AllIdle, OneQueue, LastTaskTold
  <2>6. QED
    BY <2>1, <2>2, <2>3, <2>4, <2>5 DEF DownInv
<1>15. QED
  BY <1>1, <1>2, <1>3, <1>4, <1>5, <1>6, <1>7, <1>8, <1>9, <1>10, <1>11, <1>12, <1>13, <1>14
     DEF Next, Executor, Master, Connect

\* When the server is idle and no client replaced a queue in use, a local slave
\* that was last told of a suspend or shutdown is on a machine in that state.
THEOREM DownAsToldAlways == Spec => []DownAsTold
<1>1. DownInv => DownAsTold
  BY DEF DownInv, DownAsTold, Idle, AllIdle
<1>2. Spec => []IInv
  BY InitInv, NextInv, PTL DEF Spec
<1>3. Spec => []CycleInv
  BY <1>2, CycleInit, CycleStep, PTL DEF Spec
<1>4. QED
  BY <1>1, <1>2, <1>3, DownInit, DownStep, PTL DEF Spec

-----------------------------------------------------------------------------
(* Type correctness: what the three invariants above left out.              *)

RestTypes ==
    /\ allMachState_ \in States /\ slaves_ \subseteq Slaves
    /\ considerAck_ \in BOOLEAN
    /\ ackClients_ \subseteq Ack /\ nackClients_ \subseteq Ack /\ noackClients_ \subseteq Slaves
    /\ mpc \in {"idle", "lock"} /\ owed \subseteq Ack

LEMMA RestInit == Init => RestTypes
BY Zenon DEF Init, RestTypes, States, Ack

LEMMA RestStep == CycleInv /\ DownInv /\ RestTypes /\ [Next]_vars => RestTypes'
<1> SUFFICES ASSUME CycleInv, DownInv, RestTypes, [Next]_vars PROVE RestTypes'
  OBVIOUS
<1>0. \A g \in Gens : etask[g].op \in States /\ etask[g].mach \in Machines
  BY DEF CycleInv, CycleTypes, Task
<1>1. ASSUME NEW g \in Gens, ExecTake(g) \/ ExecDecide(g) \/ ExecHalt(g) \/ ExecTimeout(g)
      PROVE  RestTypes'
  BY <1>1 DEF ExecTake, ExecDecide, ExecHalt, ExecTimeout, RestTypes, states, clients, acks, handler
<1>2. ASSUME NEW g \in Gens, ExecResume(g) \/ ExecCommit(g) PROVE RestTypes'
  BY <1>0, <1>2 DEF ExecResume, ExecCommit, DoResume, RestTypes, clients, acks, handler, States
<1>3. ASSUME NEW g \in Gens, ExecCollect(g) PROVE RestTypes'
  BY <1>3 DEF ExecCollect, Expected, RestTypes, states, clients, handler
<1>4. ASSUME NEW mc \in Machines, NEW new \in Down, SendDown(new, mc) PROVE RestTypes'
  <2>1. requests' \in 1 .. MaxRequests
    BY <1>4, PowerAssumption DEF SendDown, Request, CycleInv, CycleTypes
  <2>2. \A s \in Slaves : [s |-> s, c |-> requests'] \in Ack
    BY <2>1 DEF Ack
  <2>3. owed' \subseteq Ack
    BY <1>4, <2>2 DEF SendDown, RestTypes
  <2>4. QED
    BY <1>4, <2>3 DEF SendDown, RestTypes, states, clients, handler
<1>5. ASSUME NEW mc \in Machines,
             SendResumeLater(mc) \/ SendResumeLocalDown(mc) \/ SendResumeUp(mc)
      PROVE  RestTypes'
  BY <1>5 DEF SendResumeLater, SendResumeLocalDown, SendResumeUp, DoResume, RestTypes,
              states, clients, acks, handler, States
<1>6. CASE ResumeUnderLock
  BY <1>6 DEF ResumeUnderLock, DoResume, RestTypes, states, clients, acks, States
<1>7. CASE Slave
  BY <1>7 DEF Slave, SendActivityStateAck, AckLost, RestTypes, states, clients, acks, handler
<1>8. CASE Connect
  BY <1>8 DEF Connect, InitServiceMaster, InitServiceSlave, DeregisterMaster, DeregisterSlave,
              RestTypes, states, clients, acks, handler
<1>9. CASE UNCHANGED vars
  BY <1>9 DEF vars, RestTypes, states, clients, acks, handler
<1>10. QED
  BY <1>1, <1>2, <1>3, <1>4, <1>5, <1>6, <1>7, <1>8, <1>9 DEF Next, Executor, Master

\* Every variable of the server keeps its type, acks of unknown cycles included:
\* an ack on its way always names a cycle the server has started.
THEOREM ServerTyped == Spec => []TypeOK
<1>1. IInv /\ CycleInv /\ DownInv /\ RestTypes => TypeOK
  BY DEF IInv, ExecTypes, CycleInv, CycleTypes, DownInv, DownTypes, RestTypes, TypeOK
<1>2. Spec => []IInv
  BY InitInv, NextInv, PTL DEF Spec
<1>3. Spec => []CycleInv
  BY <1>2, CycleInit, CycleStep, PTL DEF Spec
<1>4. Spec => []DownInv
  BY <1>2, <1>3, DownInit, DownStep, PTL DEF Spec
<1>5. Spec => []RestTypes
  BY <1>3, <1>4, RestInit, RestStep, PTL DEF Spec
<1>6. QED
  BY <1>1, <1>2, <1>3, <1>4, <1>5, PTL

-----------------------------------------------------------------------------
(* The composition.                                                         *)

EMP == INSTANCE PowerRefEventManagerProofs

-----------------------------------------------------------------------------
(* EM and EMP are instances of the same module, with the same definitions.  *)

LEMMA SameValues ==
    /\ EM!Ids = EMP!Ids /\ EM!NoEvent = EMP!NoEvent /\ EM!DownStates = EMP!DownStates
    /\ EM!Event = EMP!Event /\ EM!AckStatus = EMP!AckStatus
BY DEF EM!Ids, EMP!Ids, EM!NoEvent, EMP!NoEvent, EM!DownStates, EMP!DownStates,
       EM!Event, EMP!Event, EM!AckStatus, EMP!AckStatus

LEMMA SameOperators ==
    ASSUME NEW q, NEW x
    PROVE  /\ EM!Kept(q, x) = EMP!Kept(q, x)
           /\ EM!Overridden(q, x) = EMP!Overridden(q, x)
           /\ EM!IdsOf(q) = EMP!IdsOf(q)
           /\ EM!Duplicates(q) = EMP!Duplicates(q)
           /\ EM!Outcome(q, x) = EMP!Outcome(q, x)
<1>1. EM!Kept(q, x) = EMP!Kept(q, x)
  BY DEF EM!Kept, EMP!Kept
<1>2. EM!Overridden(q, x) = EMP!Overridden(q, x) /\ EM!IdsOf(q) = EMP!IdsOf(q)
  BY DEF EM!Overridden, EMP!Overridden, EM!IdsOf, EMP!IdsOf, EM!ToSet, EMP!ToSet
<1>3. EM!Duplicates(q) = EMP!Duplicates(q)
  BY DEF EM!Duplicates, EMP!Duplicates, EM!SelectInSeq, EMP!SelectInSeq, EM!Min, EMP!Min
<1>4. EM!Outcome(q, x) = EMP!Outcome(q, x)
  BY DEF EM!Outcome, EMP!Outcome, EM!Last, EMP!Last
<1>5. QED
  BY <1>1, <1>2, <1>3, <1>4

LEMMA SameNotify ==
    ASSUME NEW i, NEW o PROVE EM!Notify(i, o) <=> EMP!Notify(i, o)
BY SameValues DEF EM!Notify, EMP!Notify

LEMMA SamePush == \A e : /\ EM!Push(e) => EMP!Push(e)
                         /\ EM!PushBehind(e) => EMP!PushBehind(e)
<1> TAKE e
<1> USE DEF EM!queue, EMP!queue, EM!request, EMP!request
<1>1. EM!NewEvent(e) <=> EMP!NewEvent(e)
  BY SameValues DEF EM!NewEvent, EMP!NewEvent, EM!Unlocked, EMP!Unlocked
<1>2. EM!PushBehind(e) => EMP!PushBehind(e)
  BY <1>1, SameValues, SameOperators DEF EM!PushBehind, EMP!PushBehind
<1>3. EM!PushFirst(e) => EMP!PushFirst(e)
  BY <1>1 DEF EM!PushFirst, EMP!PushFirst, EM!StartRequest, EMP!StartRequest
<1>4. EM!PushInvalidMachine(e) => EMP!PushInvalidMachine(e)
  BY <1>1, SameNotify DEF EM!PushInvalidMachine, EMP!PushInvalidMachine
<1>5. EM!PushServiceDown(e) => EMP!PushServiceDown(e)
  BY <1>1, SameNotify DEF EM!PushServiceDown, EMP!PushServiceDown
<1>6. QED
  BY <1>2, <1>3, <1>4, <1>5 DEF EM!Push, EMP!Push

LEMMA SameReply == EM!Reply => EMP!Reply
BY SameValues
   DEF EM!queue, EMP!queue, EM!request, EMP!request, EM!Reply, EMP!Reply,
       EM!RequestDone, EMP!RequestDone, EM!RequestAccepted, EMP!RequestAccepted,
       EM!RequestRefused, EMP!RequestRefused, EM!RequestFailed, EMP!RequestFailed,
       EM!RequestFailedTakenOn, EMP!RequestFailedTakenOn

LEMMA SameHandler ==
    ASSUME NEW s, NEW r
    PROVE  EM!processedEventHandler(s, r) => EMP!processedEventHandler(s, r)
<1> USE DEF EM!queue, EMP!queue, EM!request, EMP!request
<1>1. EM!Unlocked <=> EMP!Unlocked
  BY SameValues DEF EM!Unlocked, EMP!Unlocked
<1>2. ASSUME NEW q PROVE EM!Continue(q, r) <=> EMP!Continue(q, r)
  BY DEF EM!Continue, EMP!Continue, EM!StartRequest, EMP!StartRequest
<1>3. QED
  BY <1>1, <1>2, SameNotify, SameOperators
     DEF EM!processedEventHandler, EMP!processedEventHandler

LEMMA SameCallbacks ==
    /\ \A c : EM!Callback(c) => EMP!Callback(c)
    /\ \A a : EM!onSlaveAckStatusUpdate(a) => EMP!onSlaveAckStatusUpdate(a)
    /\ EM!ReleaseWakeLock => EMP!ReleaseWakeLock
BY SameHandler
   DEF EM!queue, EMP!queue, EM!request, EMP!request, EM!Callback, EMP!Callback,
       EM!CallbackError, EMP!CallbackError, EM!CallbackResumed, EMP!CallbackResumed,
       EM!CallbackStarted, EMP!CallbackStarted, EM!onSlaveAckStatusUpdate,
       EMP!onSlaveAckStatusUpdate, EM!ReleaseWakeLock, EMP!ReleaseWakeLock

LEMMA SameServer == EM!Server => EMP!Server
BY SameValues
   DEF EM!queue, EMP!queue, EM!request, EMP!request, EM!Server, EMP!Server,
       EM!AckIndication, EMP!AckIndication, EM!AcksLost, EMP!AcksLost,
       EM!ServiceStatusChange, EMP!ServiceStatusChange

LEMMA SameInit == EM!EMInit => EMP!EMInit
BY SameValues DEF EM!EMInit, EMP!EMInit

LEMMA SameNext == [EM!EMNext]_(EM!emVars) => [EMP!EMNext]_(EMP!emVars)
<1>1. EM!EMNext => EMP!EMNext
  BY SameValues, SamePush, SameReply, SameCallbacks, SameServer DEF EM!EMNext, EMP!EMNext
<1>2. UNCHANGED EM!emVars => UNCHANGED EMP!emVars
  BY DEF EM!emVars, EMP!emVars, EM!queue, EMP!queue, EM!request, EMP!request
<1>3. QED
  BY <1>1, <1>2

-----------------------------------------------------------------------------
(* The event manager's part.                                                *)

\* The event manager's inductive invariant, of the composition.
EventInv == EMP!QueuePart /\ EMP!AnswerPart

\* The constants are as its proofs assume them.
LEMMA EventConstants ==
    /\ MaxEvents \in Nat
    /\ Triggers \subseteq [st : EMP!TcuStates, mach : {"LOCAL", "ALL"}]
BY SystemAssumption DEF EMP!TcuStates, EMP!DownStates, States, Down

LEMMA EventInit == EM!EMInit => EventInv
<1>1. EM!EMInit => EMP!EMInv
  BY EventConstants, SameInit, EMP!EMInitially
<1>2. EMP!EMInv => EventInv
  BY EventConstants, EMP!InvInParts DEF EventInv
<1>3. QED
  BY <1>1, <1>2

LEMMA EventStep == EventInv /\ [EM!EMNext]_(EM!emVars) => EventInv'
BY EventConstants, SameNext, EMP!EMStep DEF EventInv

\* What the rest of the argument uses of it.
LEMMA EventFact ==
    ASSUME EventInv
    PROVE  /\ sending \in EM!Event \cup {EM!NoEvent}
           /\ \A e, f \in expected : e = f
           /\ sending # EM!NoEvent => expected = {}
BY SameValues DEF EventInv, EMP!QueuePart, EMP!AnswerPart, EMP!OneAnswer

\* A step of the composition is one of the event manager, or none.
LEMMA EventSim == EventInv /\ [SysNext]_sysVars => [EM!EMNext]_(EM!emVars)
<1> SUFFICES ASSUME EventInv, [SysNext]_sysVars PROVE [EM!EMNext]_(EM!emVars)
  OBVIOUS
<1>0. UNCHANGED emVars => UNCHANGED EM!emVars
  BY DEF emVars, EM!emVars, EM!queue, EM!request
<1>1. CASE Local
  BY <1>1 DEF Local, EM!EMNext, EM!Push
<1>2. CASE RequestDown \/ RequestResume
  BY <1>2 DEF RequestDown, RequestResume, Accepted, EM!EMNext, EM!Reply
<1>3. CASE RequestSame
  BY <1>3 DEF RequestSame, EM!EMNext, EM!Reply
<1>4. CASE RequestHaltEnd
  BY <1>4 DEF RequestHaltEnd, EM!EMNext, EM!Reply
<1>5. CASE RequestHalt \/ SlaveStep \/ DisconnectStep \/ UNCHANGED sysVars
  BY <1>0, <1>5 DEF RequestHalt, SlaveStep, DisconnectStep, sysVars
<1>6. CASE ConnectStep
  <2>1. EM!AcksLost(Dropped) /\ Dropped \subseteq expected
    BY <1>6 DEF ConnectStep, EM!AcksLost
  <2>2. CASE Dropped = {}
    BY <2>1, <2>2 DEF EM!AcksLost, EM!emVars, EM!queue, EM!request
  <2>3. CASE Dropped # {}
    <3>1. PICK e \in expected : Dropped = {e}
      BY <2>1, <2>3, EventFact
    <3>2. EM!AcksLost({e})
      BY <2>1, <3>1
    <3>3. QED
      BY <3>2 DEF EM!EMNext, EM!Server
  <2>4. QED
    BY <2>2, <2>3
<1>7. ASSUME NEW g \in Gens, Collect(g) PROVE EM!EMNext
  <2>1. Verdict \in EM!AckStatus
    BY DEF Verdict, EM!AckStatus
  <2>2. EM!AckIndication(eventOf[etask[g].c], Verdict) /\ eventOf[etask[g].c] \in expected
    BY <1>7 DEF Collect, EM!AckIndication
  <2>3. QED
    BY <2>1, <2>2 DEF EM!EMNext, EM!Server
<1>8. ASSUME NEW g \in Gens, Execute(g) PROVE UNCHANGED EM!emVars
  BY <1>0, <1>8 DEF Execute
<1>9. QED
  BY <1>1, <1>2, <1>3, <1>4, <1>5, <1>6, <1>7, <1>8 DEF SysNext, ServerStep

LEMMA EventInvariant == SysSpec => []EventInv
<1>1. SysInit => EventInv
  BY EventInit DEF SysInit
<1>2. EventInv /\ [SysNext]_sysVars => EventInv'
  BY EventSim, EventStep
<1>3. QED
  BY <1>1, <1>2, PTL DEF SysSpec

\* The event manager served by this server does what its specification allows: one
\* answer at a time, an ack indication for each accepted suspend, lost only when a
\* client connects.
THEOREM SystemIsEventManager == SysSpec => ImplementsEventManager
<1>1. SysInit => EM!EMInit
  BY DEF SysInit
<1>2. QED
  BY <1>1, EventSim, EventInvariant, PTL DEF SysSpec, ImplementsEventManager, EM!EMSpec

-----------------------------------------------------------------------------
(* The server's part.                                                       *)

LEMMA ServerSim == EventInv /\ [SysNext]_sysVars => [Next]_vars
<1> SUFFICES ASSUME EventInv, [SysNext]_sysVars PROVE [Next]_vars
  OBVIOUS
<1>1. CASE Local \/ RequestSame \/ UNCHANGED sysVars
  BY <1>1 DEF Local, RequestSame, sysVars
<1>2. ASSUME Sending PROVE mach \in Machines
  <2>1. sending \in EM!Event
    BY <1>2, EventFact DEF Sending
  <2>2. QED
    BY <2>1, SystemAssumption DEF EM!Event, mach, Machines
<1>3. CASE RequestDown
  BY <1>2, <1>3 DEF RequestDown, Next, Master
<1>4. CASE RequestResume
  BY <1>2, <1>4 DEF RequestResume, Next, Master
<1>5. CASE RequestHalt
  BY <1>2, <1>5 DEF RequestHalt, Next, Master
<1>6. CASE RequestHaltEnd
  BY <1>6 DEF RequestHaltEnd, Next, Master
<1>7. CASE SlaveStep \/ ConnectStep \/ DisconnectStep
  BY <1>7 DEF SlaveStep, ConnectStep, DisconnectStep, Next, Connect
<1>8. ASSUME NEW g \in Gens, Collect(g) \/ Execute(g) PROVE Next
  BY <1>8 DEF Collect, Execute, Next, Executor
<1>9. QED
  BY <1>1, <1>3, <1>4, <1>5, <1>6, <1>7, <1>8 DEF SysNext, ServerStep

\* The server driven by the event manager is the server of PowerManagerService: what
\* is proved of the latter, for any master, holds of the composition.
THEOREM SystemIsServer == SysSpec => Spec
<1>1. SysInit => Init
  BY DEF SysInit
<1>2. QED
  BY <1>1, ServerSim, EventInvariant, PTL DEF SysSpec, Spec

-----------------------------------------------------------------------------
(* Neither part waits for the other where the code does not.  In the model  *)
(* a report to the master needs an event that expects one, as the dropping  *)
(* of a queue and the end of a RESUME handler need their events: guards     *)
(* that the server's code does not have.  They always hold, because at most *)
(* one suspend is queued or sleeping, and it is that of the event expecting *)
(* an ack.                                                                  *)

\* The server can always report its acks, drop a queue, and end a RESUME.
NothingHeldBack ==
    /\ \A g \in Gens : epc[g] = "sleep" => eventOf[etask[g].c] \in expected
    /\ Dropped \subseteq expected
    /\ mpc = "lock" => Sending

\* The suspends before ack collection: the i-th of a queue, or its executor's (i = 0).
Waiting(g, i) == IF i = 0 THEN epc[g] = "sleep" ELSE taskQ_[g][i].op \in Down
Number(g, i)  == IF i = 0 THEN etask[g].c ELSE taskQ_[g][i].c

OneWaits ==
    \A g, h \in Gens : \A i \in 0 .. Len(taskQ_[g]) : \A j \in 0 .. Len(taskQ_[h]) :
        Waiting(g, i) /\ Waiting(h, j) => g = h /\ i = j

WaitsForAcks ==
    \A g \in Gens : \A i \in 0 .. Len(taskQ_[g]) : Waiting(g, i) =>
        Number(g, i) \in 1 .. requests /\ eventOf[Number(g, i)] \in expected

\* A RESUME handler before susMutex_ serves the request that is out.
HaltIsOut == mpc = "lock" => sending # EM!NoEvent /\ sending.st = "RESUME"

WaitInv ==
    /\ eventOf \in [1 .. MaxRequests -> EM!Event \cup {EM!NoEvent}]
    /\ OneWaits /\ WaitsForAcks /\ HaltIsOut

NoneWaits == \A g \in Gens : \A i \in 0 .. Len(taskQ_[g]) : ~Waiting(g, i)

LEMMA WaitInit == SysInit => WaitInv
<1> SUFFICES ASSUME SysInit PROVE WaitInv
  OBVIOUS
<1>1. NoneWaits
  BY DEF SysInit, Init, NoneWaits, Waiting
<1>2. OneWaits /\ WaitsForAcks
  BY <1>1 DEF NoneWaits, OneWaits, WaitsForAcks
<1>3. HaltIsOut /\ eventOf \in [1 .. MaxRequests -> EM!Event \cup {EM!NoEvent}]
  BY DEF SysInit, Init, HaltIsOut
<1>4. QED
  BY <1>2, <1>3 DEF WaitInv

\* A step that makes no suspend wait, and keeps the event of the one that does.
LEMMA NoNewWait ==
    ASSUME OneWaits, WaitsForAcks, requests \in Nat, requests' \in {requests, requests + 1},
           \A g \in Gens : \A i \in 0 .. Len(taskQ_'[g]) : Waiting(g, i)' =>
               /\ i \in 0 .. Len(taskQ_[g]) /\ Waiting(g, i)
               /\ Number(g, i)' = Number(g, i)
               /\ eventOf'[Number(g, i)] \in expected'
    PROVE  OneWaits' /\ WaitsForAcks'
<1>1. OneWaits'
  <2> SUFFICES ASSUME NEW g \in Gens, NEW h \in Gens, NEW i \in 0 .. Len(taskQ_'[g]),
                      NEW j \in 0 .. Len(taskQ_'[h]), Waiting(g, i)', Waiting(h, j)'
               PROVE  g = h /\ i = j
    BY DEF OneWaits
  <2>1. QED
    BY DEF OneWaits
<1>2. WaitsForAcks'
  <2> SUFFICES ASSUME NEW g \in Gens, NEW i \in 0 .. Len(taskQ_'[g]), Waiting(g, i)'
               PROVE  Number(g, i)' \in 1 .. requests' /\ eventOf'[Number(g, i)'] \in expected'
    BY DEF WaitsForAcks
  <2>1. Number(g, i)' = Number(g, i) /\ eventOf'[Number(g, i)] \in expected'
        /\ Number(g, i) \in 1 .. requests
    BY DEF WaitsForAcks
  <2>2. QED
    BY <2>1
<1>3. QED
  BY <1>1, <1>2

\* While a request is out no suspend waits.
LEMMA SendingNoneWaits ==
    ASSUME EventInv, WaitInv, sending # EM!NoEvent PROVE NoneWaits /\ expected = {}
BY EventFact DEF WaitInv, WaitsForAcks, NoneWaits

\* What Local and the replies leave of the server's view.
LEMMA LocalFrame ==
    ASSUME Local, EventInv, WaitInv
    PROVE  UNCHANGED <<vars, eventOf, expected>> /\ HaltIsOut'
<1>1. UNCHANGED <<vars, eventOf, expected>>
  BY DEF Local, EM!PushBehind, EM!PushFirst, EM!Callback, EM!CallbackError, EM!CallbackResumed,
         EM!CallbackStarted, EM!onSlaveAckStatusUpdate, EM!ReleaseWakeLock
<1>2. sending # EM!NoEvent => UNCHANGED sending
  BY DEF Local, EM!PushBehind, EM!PushFirst, EM!NewEvent, EM!Unlocked, EM!Callback,
         EM!CallbackError, EM!CallbackResumed, EM!CallbackStarted, EM!onSlaveAckStatusUpdate,
         EM!processedEventHandler, EM!ReleaseWakeLock, EM!request
<1>3. HaltIsOut'
  BY <1>1, <1>2 DEF WaitInv, HaltIsOut, vars, handler
<1>4. QED
  BY <1>1, <1>3

LEMMA WaitStep ==
    IInv /\ CycleInv /\ DownInv /\ EventInv /\ WaitInv /\ [SysNext]_sysVars => WaitInv'
<1> SUFFICES ASSUME IInv, CycleInv, DownInv, EventInv, WaitInv, [SysNext]_sysVars
             PROVE  WaitInv'
  OBVIOUS
<1>0. /\ requests \in Nat /\ requests <= MaxRequests /\ MaxRequests \in Nat
      /\ epc \in [Gens -> {"idle", "resume", "sleep", "collected", "t2", "commit"}]
      /\ etask \in [Gens -> Task] /\ taskQ_ \in [Gens -> Seq(Task)]
      /\ eventOf \in [1 .. MaxRequests -> EM!Event \cup {EM!NoEvent}]
      /\ OneWaits /\ WaitsForAcks /\ HaltIsOut
      /\ sending \in EM!Event \cup {EM!NoEvent}
  BY PowerAssumption, EventFact DEF IInv, ExecTypes, CycleInv, CycleTypes, WaitInv
<1>a. ASSUME NEW g \in Gens PROVE Len(taskQ_[g]) \in Nat /\ taskQ_[g] \in Seq(Task)
  BY <1>0
<1>b. ASSUME UNCHANGED <<epc, etask, taskQ_, eventOf>>, expected' = expected,
             requests' \in {requests, requests + 1}
      PROVE  OneWaits' /\ WaitsForAcks'
  <2>1. \A g \in Gens : \A i \in 0 .. Len(taskQ_'[g]) : Waiting(g, i)' =>
               /\ i \in 0 .. Len(taskQ_[g]) /\ Waiting(g, i)
               /\ Number(g, i)' = Number(g, i)
               /\ eventOf'[Number(g, i)] \in expected'
    BY <1>0, <1>b DEF Waiting, Number, WaitsForAcks
  <2>2. QED
    BY <1>0, <1>b, <2>1, NoNewWait
<1>c. NoneWaits' => OneWaits' /\ WaitsForAcks'
  BY DEF NoneWaits, OneWaits, WaitsForAcks
<1>1. CASE Local
  <2>1. UNCHANGED <<epc, etask, taskQ_, eventOf, expected, requests>> /\ HaltIsOut'
    BY <1>1, LocalFrame DEF vars, queues, execs
  <2>2. QED
    BY <1>0, <1>b, <2>1 DEF WaitInv
<1>2. CASE RequestDown
  <2>1. /\ Sending /\ st \in Down /\ mpc = "idle" /\ master_
        /\ requests' = requests + 1 /\ requests < MaxRequests
        /\ UNCHANGED <<gen, epc, etask, mpc>>
        /\ taskQ_' = [taskQ_ EXCEPT ![gen] = Append(@, [op |-> st, mach |-> mach, c |-> requests'])]
        /\ eventOf' = [eventOf EXCEPT ![requests'] = sending]
        /\ expected' = expected \cup {sending}
    BY <1>2 DEF RequestDown, SendDown, Request, Enqueue, Accepted, EM!RequestAccepted,
                EM!DownStates, Down, st, execs, handler
  <2>2. gen \in Gens /\ NoneWaits /\ expected = {}
    BY <2>1, SendingNoneWaits DEF DownInv, MasterHasQueue, Sending
  <2>3. requests' \in 1 .. MaxRequests /\ eventOf'[requests'] = sending
        /\ eventOf' \in [1 .. MaxRequests -> EM!Event \cup {EM!NoEvent}]
    BY <1>0, <2>1
  <2> DEFINE new == [op |-> st, mach |-> mach, c |-> requests']
             n == Len(taskQ_[gen]) + 1
  <2>4. /\ Len(taskQ_'[gen]) = n /\ taskQ_'[gen][n] = new
        /\ \A i \in 1 .. Len(taskQ_[gen]) : taskQ_'[gen][i] = taskQ_[gen][i]
        /\ \A h \in Gens : h # gen => taskQ_'[h] = taskQ_[h]
    <3>1. /\ taskQ_'[gen] = Append(taskQ_[gen], new)
          /\ \A h \in Gens : h # gen => taskQ_'[h] = taskQ_[h]
      BY <1>0, <2>1, <2>2
    <3> HIDE DEF new
    <3>2. QED
      BY <1>a, <2>2, <3>1
  <2>5. ASSUME NEW h \in Gens, NEW i \in 0 .. Len(taskQ_'[h]), Waiting(h, i)'
        PROVE  h = gen /\ i = n /\ Number(h, i)' = requests'
    <3>1. CASE i = 0
      BY <2>1, <2>2, <2>5, <3>1, <1>a DEF Waiting, NoneWaits
    <3>2. CASE i # 0 /\ h # gen
      BY <2>2, <2>4, <2>5, <3>2 DEF Waiting, NoneWaits
    <3>3. CASE i # 0 /\ h = gen /\ i # n
      <4>1. i \in 1 .. Len(taskQ_[gen]) /\ i \in 0 .. Len(taskQ_[gen])
        BY <1>a, <2>2, <2>4, <3>3
      <4>2. Waiting(gen, i)
        BY <2>4, <2>5, <3>3, <4>1 DEF Waiting
      <4>3. QED
        BY <2>2, <4>1, <4>2 DEF NoneWaits
    <3>4. CASE i # 0 /\ h = gen /\ i = n
      BY <2>4, <3>4 DEF Number
    <3>5. QED
      BY <3>1, <3>2, <3>3, <3>4
  <2>6. OneWaits'
    BY <2>5 DEF OneWaits
  <2>7. WaitsForAcks'
    <3> HIDE DEF n, new
    <3>1. requests' \in 1 .. requests' /\ eventOf'[requests'] \in expected'
      BY <1>0, <2>1, <2>3
    <3>2. QED
      BY <2>5, <3>1 DEF WaitsForAcks
  <2>8. HaltIsOut'
    BY <2>1 DEF HaltIsOut
  <2>9. QED
    BY <2>3, <2>6, <2>7, <2>8 DEF WaitInv
<1>3. CASE RequestResume
  <2>1. /\ Sending /\ mpc = "idle" /\ master_
        /\ requests' = requests + 1 /\ requests < MaxRequests
        /\ UNCHANGED <<gen, epc, etask, mpc>>
        /\ taskQ_' = [taskQ_ EXCEPT ![gen] =
                         Append(@, [op |-> "RESUME", mach |-> mach, c |-> requests'])]
        /\ eventOf' = [eventOf EXCEPT ![requests'] = sending]
    BY <1>3 DEF RequestResume, SendResumeLater, Request, Enqueue, Accepted, execs, handler
  <2>2. gen \in Gens /\ NoneWaits
    BY <2>1, SendingNoneWaits DEF DownInv, MasterHasQueue, Sending
  <2>3. eventOf' \in [1 .. MaxRequests -> EM!Event \cup {EM!NoEvent}]
    BY <1>0, <2>1
  <2> DEFINE new == [op |-> "RESUME", mach |-> mach, c |-> requests']
  <2>4. new.op \notin Down
    BY DEF Down
  <2>5. /\ taskQ_'[gen] = Append(taskQ_[gen], new)
        /\ \A h \in Gens : h # gen => taskQ_'[h] = taskQ_[h]
    BY <1>0, <2>1, <2>2
  <2> HIDE DEF new
  <2>6. /\ Len(taskQ_'[gen]) = Len(taskQ_[gen]) + 1 /\ taskQ_'[gen][Len(taskQ_[gen]) + 1] = new
        /\ \A i \in 1 .. Len(taskQ_[gen]) : taskQ_'[gen][i] = taskQ_[gen][i]
    BY <1>a, <2>2, <2>5
  <2>7. ASSUME NEW h \in Gens, NEW i \in 0 .. Len(taskQ_'[h]), Waiting(h, i)' PROVE FALSE
    <3>1. i # Len(taskQ_[gen]) + 1 \/ h # gen
      BY <1>a, <2>2, <2>4, <2>6, <2>7 DEF Waiting
    <3>2. i \in 0 .. Len(taskQ_[h])
      BY <1>a, <2>2, <2>5, <2>6, <3>1
    <3>3. Waiting(h, i)
      <4>1. CASE i = 0
        BY <2>1, <2>7, <4>1 DEF Waiting
      <4>2. CASE i # 0
        <5>1. taskQ_'[h][i] = taskQ_[h][i]
          BY <2>5, <2>6, <3>2, <4>2
        <5>2. QED
          BY <2>7, <4>2, <5>1 DEF Waiting
      <4>3. QED
        BY <4>1, <4>2
    <3>4. QED
      BY <2>2, <3>2, <3>3 DEF NoneWaits
  <2>8. NoneWaits'
    BY <2>7 DEF NoneWaits
  <2>9. HaltIsOut'
    BY <2>1 DEF HaltIsOut
  <2>10. QED
    BY <1>c, <2>3, <2>8, <2>9 DEF WaitInv
<1>4. CASE RequestSame
  <2>1. UNCHANGED <<epc, etask, taskQ_, eventOf, requests, mpc>> /\ expected' = expected
        /\ st \in Down
    BY <1>4 DEF RequestSame, EM!RequestRefused, vars, queues, execs, handler
  <2>2. HaltIsOut'
    BY <1>0, <2>1 DEF HaltIsOut, st, Down
  <2>3. QED
    BY <1>0, <1>b, <2>1, <2>2 DEF WaitInv
<1>5. CASE RequestHalt
  <2>1. UNCHANGED <<epc, etask, taskQ_, eventOf, sending>> /\ expected' = expected
        /\ requests' = requests + 1 /\ sending # EM!NoEvent /\ sending.st = "RESUME"
    BY <1>5 DEF RequestHalt, SendResumeUp, Request, Sending, st, emVars, queues, execs
  <2>2. HaltIsOut'
    BY <2>1 DEF HaltIsOut
  <2>3. QED
    BY <1>0, <1>b, <2>1, <2>2 DEF WaitInv
<1>6. CASE RequestHaltEnd
  <2>1. /\ UNCHANGED <<epc, etask, taskQ_, eventOf, requests>> /\ mpc = "lock" /\ mpc' = "idle"
        /\ sending.st \notin EM!DownStates => expected' = expected
    BY <1>6 DEF RequestHaltEnd, ResumeUnderLock, EM!RequestAccepted, EM!RequestRefused,
                queues, execs
  <2>2. expected' = expected
    BY <1>0, <2>1 DEF HaltIsOut, EM!DownStates
  <2>3. HaltIsOut'
    BY <2>1 DEF HaltIsOut
  <2>4. QED
    BY <1>0, <1>b, <2>1, <2>2, <2>3 DEF WaitInv
<1>7. CASE SlaveStep \/ DisconnectStep \/ UNCHANGED sysVars
  <2>1. UNCHANGED <<epc, etask, taskQ_, eventOf, requests, sending, mpc>> /\ expected' = expected
    BY <1>7 DEF SlaveStep, DisconnectStep, Slave, SendActivityStateAck, AckLost, DeregisterSlave,
                sysVars, emVars, vars, queues, execs, handler
  <2>2. HaltIsOut'
    BY <1>0, <2>1 DEF HaltIsOut
  <2>3. QED
    BY <1>0, <1>b, <2>1, <2>2 DEF WaitInv
<1>8. CASE ConnectStep
  <2>1. /\ UNCHANGED <<epc, etask, eventOf, requests, sending, mpc>>
        /\ \A g \in Gens : taskQ_'[g] = <<>>
        /\ expected' = expected \ Dropped
    BY <1>8 DEF ConnectStep, InitServiceMaster, InitServiceSlave, NewTaskQ, EM!AcksLost,
                EM!request, execs, handler
  <2>2. ASSUME NEW g \in Gens, epc[g] = "sleep" PROVE Dropped = {}
    <3>1. Waiting(g, 0) /\ 0 \in 0 .. Len(taskQ_[g])
      BY <1>a, <2>2 DEF Waiting
    <3>2. ASSUME NEW h \in Gens, NEW i \in 1 .. Len(taskQ_[h]), taskQ_[h][i].op \in Down
          PROVE  FALSE
      <4>1. Waiting(h, i) /\ i \in 0 .. Len(taskQ_[h]) /\ i # 0
        BY <1>a, <3>2 DEF Waiting
      <4>2. QED
        BY <1>0, <3>1, <4>1 DEF OneWaits
    <3>3. QED
      BY <3>2 DEF Dropped
  <2>3. ASSUME NEW g \in Gens, NEW i \in 0 .. Len(taskQ_'[g]), Waiting(g, i)'
        PROVE  /\ i \in 0 .. Len(taskQ_[g]) /\ Waiting(g, i)
               /\ Number(g, i)' = Number(g, i)
               /\ eventOf'[Number(g, i)] \in expected'
    <3>1. i = 0
      BY <2>1
    <3>2. epc[g] = "sleep" /\ 0 \in 0 .. Len(taskQ_[g])
      BY <1>a, <2>1, <2>3, <3>1 DEF Waiting
    <3>3. Waiting(g, 0) /\ Number(g, 0)' = Number(g, 0)
      BY <2>1, <3>2 DEF Waiting, Number
    <3>4. eventOf[Number(g, 0)] \in expected
      BY <1>0, <3>2, <3>3 DEF WaitsForAcks
    <3>5. QED
      BY <2>1, <2>2, <3>1, <3>2, <3>3, <3>4
  <2>4. OneWaits' /\ WaitsForAcks'
    BY <1>0, <2>1, <2>3, NoNewWait
  <2>5. HaltIsOut'
    BY <1>0, <2>1 DEF HaltIsOut
  <2>6. QED
    BY <1>0, <2>1, <2>4, <2>5 DEF WaitInv
<1>9. ASSUME NEW g \in Gens, Collect(g) PROVE WaitInv'
  <2>1. /\ epc[g] = "sleep" /\ epc'[g] = "collected"
        /\ \A h \in Gens : h # g => epc'[h] = epc[h]
        /\ UNCHANGED <<etask, taskQ_, eventOf, requests, sending, mpc>>
    BY <1>0, <1>9 DEF Collect, ExecCollect, EM!AckIndication, EM!request, queues, handler
  <2>2. Waiting(g, 0) /\ 0 \in 0 .. Len(taskQ_[g])
    BY <1>a, <2>1 DEF Waiting
  <2>3. ASSUME NEW h \in Gens, NEW i \in 0 .. Len(taskQ_'[h]), Waiting(h, i)' PROVE FALSE
    <3>1. Waiting(h, i) /\ ~(h = g /\ i = 0)
      BY <2>1, <2>3 DEF Waiting
    <3>2. i \in 0 .. Len(taskQ_[h])
      BY <2>1
    <3>3. QED
      BY <1>0, <2>2, <3>1, <3>2 DEF OneWaits
  <2>4. NoneWaits'
    BY <2>3 DEF NoneWaits
  <2>5. HaltIsOut'
    BY <1>0, <2>1 DEF HaltIsOut
  <2>6. QED
    BY <1>0, <1>c, <2>1, <2>4, <2>5 DEF WaitInv
<1>10. ASSUME NEW g \in Gens, ExecTake(g), UNCHANGED <<emVars, eventOf>> PROVE WaitInv'
  <2>1. /\ epc[g] = "idle" /\ taskQ_[g] # <<>>
        /\ taskQ_'[g] = Tail(taskQ_[g]) /\ etask'[g] = Head(taskQ_[g])
        /\ epc'[g] = IF Head(taskQ_[g]).op = "RESUME" THEN "resume" ELSE "sleep"
        /\ \A h \in Gens : h # g =>
              epc'[h] = epc[h] /\ etask'[h] = etask[h] /\ taskQ_'[h] = taskQ_[h]
        /\ UNCHANGED <<requests, mpc>>
    BY <1>0, <1>10 DEF ExecTake, handler
  <2>2. /\ Head(taskQ_[g]) = taskQ_[g][1] /\ 1 \in 1 .. Len(taskQ_[g])
        /\ taskQ_[g][1].op \in States
        /\ Len(taskQ_'[g]) = Len(taskQ_[g]) - 1
        /\ \A i \in 1 .. Len(taskQ_'[g]) : taskQ_'[g][i] = taskQ_[g][i + 1]
    <3>1. taskQ_[g] \in Seq(Task)
      BY <1>a
    <3>2. taskQ_[g][1] \in Task
      BY <2>1, <3>1
    <3>3. taskQ_[g][1].op \in States
      BY <3>2 DEF Task
    <3>4. QED
      BY <2>1, <3>1, <3>3
  <2> DEFINE Old(h, i) == IF h = g THEN i + 1 ELSE i
  <2>3. ASSUME NEW h \in Gens, NEW i \in 0 .. Len(taskQ_'[h]), Waiting(h, i)'
        PROVE  /\ Old(h, i) \in 0 .. Len(taskQ_[h]) /\ Waiting(h, Old(h, i))
               /\ Number(h, i)' = Number(h, Old(h, i))
    <3>1. CASE h # g
      BY <2>1, <2>3, <3>1 DEF Waiting, Number
    <3>2. CASE h = g /\ i = 0
      <4>1. epc'[g] = "sleep"
        BY <2>3, <3>2 DEF Waiting
      <4>2. taskQ_[g][1].op \in Down
        BY <2>1, <2>2, <4>1 DEF States
      <4>3. Waiting(g, 1) /\ Number(g, 0)' = Number(g, 1)
        BY <2>1, <2>2, <4>2 DEF Waiting, Number
      <4>4. QED
        BY <1>a, <2>2, <3>2, <4>3
    <3>3. CASE h = g /\ i # 0
      <4>1. i \in 1 .. Len(taskQ_'[g]) /\ i + 1 # 0 /\ i + 1 \in 0 .. Len(taskQ_[g])
        BY <1>a, <2>2, <3>3
      <4>2. taskQ_'[g][i] = taskQ_[g][i + 1]
        BY <2>2, <4>1
      <4>3. QED
        BY <2>3, <3>3, <4>1, <4>2 DEF Waiting, Number
    <3>4. QED
      BY <3>1, <3>2, <3>3
  <2>4. OneWaits'
    <3> SUFFICES ASSUME NEW a \in Gens, NEW b \in Gens, NEW i \in 0 .. Len(taskQ_'[a]),
                        NEW j \in 0 .. Len(taskQ_'[b]), Waiting(a, i)', Waiting(b, j)'
                 PROVE  a = b /\ i = j
      BY DEF OneWaits
    <3>1. a = b /\ Old(a, i) = Old(b, j)
      <4> HIDE DEF Old
      <4>1. QED
        BY <1>0, <2>3 DEF OneWaits
    <3>2. i \in Int /\ j \in Int
      OBVIOUS
    <3>3. QED
      BY <3>1, <3>2
  <2>5. WaitsForAcks'
    <3> SUFFICES ASSUME NEW a \in Gens, NEW i \in 0 .. Len(taskQ_'[a]), Waiting(a, i)'
                 PROVE  Number(a, i)' \in 1 .. requests' /\ eventOf'[Number(a, i)'] \in expected'
      BY DEF WaitsForAcks
    <3> HIDE DEF Old
    <3>1. UNCHANGED <<requests, eventOf>> /\ expected' = expected
      BY <1>10, <2>1 DEF emVars
    <3>2. QED
      BY <1>0, <2>3, <3>1 DEF WaitsForAcks
  <2>6. HaltIsOut'
    BY <1>0, <1>10, <2>1 DEF HaltIsOut, emVars
  <2>7. QED
    BY <1>0, <1>10, <2>4, <2>5, <2>6 DEF WaitInv
<1>11. ASSUME NEW g \in Gens, UNCHANGED <<emVars, eventOf>>,
              ExecResume(g) \/ ExecDecide(g) \/ ExecHalt(g) \/ ExecTimeout(g) \/ ExecCommit(g)
       PROVE  WaitInv'
  <2>1. /\ epc'[g] # "sleep"
        /\ \A h \in Gens : h # g => epc'[h] = epc[h] /\ etask'[h] = etask[h]
        /\ UNCHANGED <<taskQ_, requests, mpc>>
    BY <1>0, <1>11 DEF ExecResume, ExecDecide, ExecHalt, ExecTimeout, ExecCommit, ExecDone,
                       queues, handler
  <2>2. UNCHANGED <<eventOf, sending>> /\ expected' = expected
    BY <1>11 DEF emVars
  <2>3. ASSUME NEW h \in Gens, NEW i \in 0 .. Len(taskQ_'[h]), Waiting(h, i)'
        PROVE  /\ i \in 0 .. Len(taskQ_[h]) /\ Waiting(h, i)
               /\ Number(h, i)' = Number(h, i)
               /\ eventOf'[Number(h, i)] \in expected'
    <3>1. i \in 0 .. Len(taskQ_[h]) /\ Waiting(h, i) /\ Number(h, i)' = Number(h, i)
      BY <2>1, <2>3 DEF Waiting, Number
    <3>2. QED
      BY <1>0, <2>2, <3>1 DEF WaitsForAcks
  <2>4. OneWaits' /\ WaitsForAcks'
    BY <1>0, <2>1, <2>3, NoNewWait
  <2>5. HaltIsOut'
    BY <1>0, <2>1, <2>2 DEF HaltIsOut
  <2>6. QED
    BY <1>0, <2>2, <2>4, <2>5 DEF WaitInv
<1>12. QED
  BY <1>1, <1>2, <1>3, <1>4, <1>5, <1>6, <1>7, <1>8, <1>9, <1>10, <1>11
     DEF SysNext, ServerStep, Execute

\* What the parts and their composition keep.
LEMMA SystemInvariants ==
    SysSpec => []IInv /\ []CycleInv /\ []DownInv /\ []EventInv /\ []WaitInv
<1>1. SysSpec => []IInv
  BY SystemIsServer, InitInv, NextInv, PTL DEF Spec
<1>2. SysSpec => []CycleInv
  BY <1>1, SystemIsServer, CycleInit, CycleStep, PTL DEF Spec
<1>3. SysSpec => []DownInv
  BY <1>1, <1>2, SystemIsServer, DownInit, DownStep, PTL DEF Spec
<1>4. SysSpec => []WaitInv
  BY <1>1, <1>2, <1>3, EventInvariant, WaitInit, WaitStep, PTL DEF SysSpec
<1>5. QED
  BY <1>1, <1>2, <1>3, <1>4, EventInvariant, PTL

\* The guards that composing the two parts added never hold the server back: an
\* executor that wakes up from its first sleep finds the event that its acks are for,
\* a queue is dropped with suspends the event manager knows of, and a RESUME handler
\* ends the request that is out.
THEOREM NothingHeldBackEver == SysSpec => []NothingHeldBack
<1>1. CycleInv /\ WaitInv => NothingHeldBack
  <2> SUFFICES ASSUME CycleInv, WaitInv PROVE NothingHeldBack
    OBVIOUS
  <2>1. ASSUME NEW g \in Gens PROVE Len(taskQ_[g]) \in Nat
    BY DEF CycleInv, CycleTypes
  <2>2. ASSUME NEW g \in Gens, epc[g] = "sleep" PROVE eventOf[etask[g].c] \in expected
    <3>1. Waiting(g, 0) /\ Number(g, 0) = etask[g].c /\ 0 \in 0 .. Len(taskQ_[g])
      BY <2>1, <2>2 DEF Waiting, Number
    <3>2. QED
      BY <3>1 DEF WaitInv, WaitsForAcks
  <2>3. ASSUME NEW g \in Gens, NEW i \in 1 .. Len(taskQ_[g]), taskQ_[g][i].op \in Down
        PROVE  eventOf[taskQ_[g][i].c] \in expected
    <3>1. Waiting(g, i) /\ Number(g, i) = taskQ_[g][i].c /\ i \in 0 .. Len(taskQ_[g])
      BY <2>1, <2>3 DEF Waiting, Number
    <3>2. QED
      BY <3>1 DEF WaitInv, WaitsForAcks
  <2>4. Dropped \subseteq expected
    BY <2>3 DEF Dropped
  <2>5. mpc = "lock" => Sending
    BY DEF WaitInv, HaltIsOut, Sending
  <2>6. QED
    BY <2>2, <2>4, <2>5 DEF NothingHeldBack
<1>2. QED
  BY <1>1, SystemInvariants, PTL

-----------------------------------------------------------------------------
(* What listeners are told is true.  While no request is out, the server is *)
(* on its way to the state asked of it last (OnTrack), or the refusal of    *)
(* that request is about to be processed, or it has been and the latest     *)
(* event is known to have failed.                                           *)

Known(i) == status[i] # "NONE"

\* Events are numbered in turn, and the last of the queue is the latest.
InTurn ==
    /\ \A i, j \in EM!Ids : Known(i) /\ j <= i => Known(j)
    /\ eventQueue_ # <<>> =>
         \A i \in EM!Ids : Known(i) => i <= eventQueue_[Len(eventQueue_)].id

\* A halted suspend has been taken back.
HaltDone == resumeReceivedWithinTimeout_ => localMachState_ = "RESUME"

\* The callback of an accepted suspend that is still in the queue comes before the
\* acks are processed.
StartedAnswered ==
    \A c \in callbacks : c.ok /\ c.e.st # "RESUME" /\ EMP!Queued(c.e.id) =>
        c.e \in expected \/ \E a \in ackStatus : a.e = c.e

OnTrack ==
    /\ \A g \in Gens : taskQ_[g] # <<>> => taskQ_[g][Len(taskQ_[g])].op = lastSent
    /\ \A g \in Gens : taskQ_[g] = <<>> /\ epc[g] # "idle" =>
         IF epc[g] = "t2" /\ resumeReceivedWithinTimeout_ THEN lastSent = "RESUME"
         ELSE etask[g].op = lastSent
    /\ AllIdle => localMachState_ = lastSent

ErrorDue == \E c \in callbacks : ~c.ok

\* The latest event has failed, and nothing will say otherwise.
LatestFailed ==
    /\ eventQueue_ = <<>>
    /\ \A i \in EM!Ids : Known(i) /\ (\A j \in EM!Ids : Known(j) => j <= i) =>
         status[i] = "FAILED_TCU_ACTIVITY" /\ \A c \in callbacks : c.e.id # i

Fate == sending = EM!NoEvent => OnTrack \/ ErrorDue \/ LatestFailed

FateInv == InTurn /\ HaltDone /\ (cyc.replaced = {} => StartedAnswered /\ Fate)

LEMMA FateInit == SysInit => FateInv
<1> SUFFICES ASSUME SysInit PROVE FateInv
  OBVIOUS
<1>1. InTurn /\ HaltDone /\ StartedAnswered
  BY DEF SysInit, Init, EM!EMInit, InTurn, Known, HaltDone, StartedAnswered
<1>2. OnTrack
  BY DEF SysInit, Init, EM!EMInit, OnTrack, AllIdle
<1>3. QED
  BY <1>1, <1>2 DEF FateInv, Fate

LEMMA HaltDoneStep == IInv /\ HaltDone /\ [Next]_vars => HaltDone'
<1> SUFFICES ASSUME IInv, HaltDone, [Next]_vars PROVE HaltDone'
  OBVIOUS
<1>1. ASSUME NEW g \in Gens,
             ExecTake(g) \/ ExecCollect(g) \/ ExecDecide(g) \/ ExecHalt(g) \/ ExecTimeout(g)
      PROVE  HaltDone'
  BY <1>1 DEF ExecTake, ExecCollect, ExecDecide, ExecHalt, ExecTimeout, HaltDone, states, window
<1>2. ASSUME NEW g \in Gens, ExecResume(g) PROVE HaltDone'
  BY <1>2 DEF ExecResume, DoResume, HaltDone
<1>3. ASSUME NEW g \in Gens, ExecCommit(g) PROVE HaltDone'
  BY <1>3 DEF ExecCommit, HaltDone, window, IInv, FlagInWindow, AckMutexExclusive
<1>4. ASSUME NEW a \in Machines,
             (\E s \in Down : SendDown(s, a)) \/ SendResumeLater(a) \/ SendResumeLocalDown(a)
             \/ SendResumeUp(a)
      PROVE  HaltDone'
  BY <1>4 DEF SendDown, SendResumeLater, SendResumeLocalDown, SendResumeUp, DoResume, HaltDone,
              states, window
<1>5. CASE ResumeUnderLock
  BY <1>5 DEF ResumeUnderLock, DoResume, HaltDone, states
<1>6. CASE Slave \/ Connect \/ UNCHANGED vars
  BY <1>6 DEF Slave, SendActivityStateAck, AckLost, Connect, InitServiceMaster, InitServiceSlave,
              DeregisterMaster, DeregisterSlave, HaltDone, states, window, vars
<1>7. QED
  BY <1>1, <1>2, <1>3, <1>4, <1>5, <1>6 DEF Next, Executor, Master

\* The server stays on its way whatever its executors do.
LEMMA TrackExec ==
    ASSUME IInv, CycleInv, DownInv, HaltDone, OnTrack, cyc.replaced = {},
           Executor, UNCHANGED lastSent
    PROVE  OnTrack'
<1>0. /\ epc \in [Gens -> {"idle", "resume", "sleep", "collected", "t2", "commit"}]
      /\ etask \in [Gens -> Task] /\ taskQ_ \in [Gens -> Seq(Task)]
  BY DEF IInv, ExecTypes, CycleInv, CycleTypes
<1>1. ASSUME NEW g \in Gens, ExecTake(g) PROVE OnTrack'
  <2>1. /\ taskQ_[g] \in Seq(Task) /\ taskQ_[g] # <<>>
        /\ etask'[g] = Head(taskQ_[g]) /\ taskQ_'[g] = Tail(taskQ_[g])
        /\ epc'[g] \in {"resume", "sleep"}
        /\ \A h \in Gens : h # g =>
              epc'[h] = epc[h] /\ etask'[h] = etask[h] /\ taskQ_'[h] = taskQ_[h]
        /\ UNCHANGED <<localMachState_, resumeReceivedWithinTimeout_>>
    BY <1>0, <1>1 DEF ExecTake, states, window
  <2>2. /\ Tail(taskQ_[g]) # <<>> =>
             Tail(taskQ_[g])[Len(Tail(taskQ_[g]))] = taskQ_[g][Len(taskQ_[g])]
        /\ Tail(taskQ_[g]) = <<>> => Head(taskQ_[g]) = taskQ_[g][Len(taskQ_[g])]
    BY <2>1, LastOfTail
  <2>3. taskQ_[g][Len(taskQ_[g])].op = lastSent
    BY <2>1 DEF OnTrack
  <2>4. ~AllIdle'
    BY <2>1 DEF AllIdle
  <2>5. ASSUME NEW h \in Gens
        PROVE  /\ taskQ_'[h] # <<>> => taskQ_'[h][Len(taskQ_'[h])].op = lastSent
               /\ taskQ_'[h] = <<>> /\ epc'[h] # "idle" =>
                    IF epc'[h] = "t2" /\ resumeReceivedWithinTimeout_ THEN lastSent = "RESUME"
                    ELSE etask'[h].op = lastSent
    <3>1. CASE h = g
      <4>1. epc'[g] # "t2"
        BY <2>1
      <4>2. QED
        BY <2>1, <2>2, <2>3, <3>1, <4>1
    <3>2. CASE h # g
      BY <2>1, <3>2 DEF OnTrack
    <3>3. QED
      BY <3>1, <3>2
  <2>6. QED
    BY <2>1, <2>4, <2>5 DEF OnTrack
<1>2. ASSUME NEW g \in Gens, NEW pc \in {"collected", "t2", "commit"},
             epc[g] \in {"sleep", "collected", "t2"},
             epc' = [epc EXCEPT ![g] = pc],
             (pc = "t2" \/ epc[g] = "t2") => ~resumeReceivedWithinTimeout_,
             UNCHANGED <<localMachState_, taskQ_, etask, resumeReceivedWithinTimeout_>>
      PROVE  OnTrack'
  <2>1. epc'[g] = pc /\ pc # "idle" /\ \A h \in Gens : h # g => epc'[h] = epc[h]
    BY <1>0, <1>2
  <2>2. ~AllIdle'
    BY <2>1 DEF AllIdle
  <2>3. ASSUME NEW h \in Gens, taskQ_[h] = <<>>, epc'[h] # "idle"
        PROVE  IF epc'[h] = "t2" /\ resumeReceivedWithinTimeout_ THEN lastSent = "RESUME"
               ELSE etask[h].op = lastSent
    BY <1>2, <2>1, <2>3 DEF OnTrack
  <2>4. QED
    BY <1>2, <2>2, <2>3 DEF OnTrack
<1>3. ASSUME NEW g \in Gens, ExecCollect(g) PROVE OnTrack'
  <2>1. epc[g] = "sleep" /\ epc' = [epc EXCEPT ![g] = "collected"]
        /\ UNCHANGED <<localMachState_, taskQ_, etask, resumeReceivedWithinTimeout_>>
    BY <1>3 DEF ExecCollect, states, queues, window
  <2>2. QED
    BY <1>2, <2>1
<1>4. ASSUME NEW g \in Gens, ExecDecide(g) PROVE OnTrack'
  <2>1. ~resumeReceivedWithinTimeout_
    BY <1>4 DEF ExecDecide, IInv, FlagInWindow, AckMutexExclusive
  <2>2. PICK pc \in {"t2", "commit"} : epc' = [epc EXCEPT ![g] = pc]
    BY <1>4 DEF ExecDecide
  <2>3. epc[g] = "collected"
        /\ UNCHANGED <<localMachState_, taskQ_, etask, resumeReceivedWithinTimeout_>>
    BY <1>4 DEF ExecDecide, states, queues
  <2>4. QED
    BY <1>2, <2>1, <2>2, <2>3
<1>5. ASSUME NEW g \in Gens, ExecTimeout(g) PROVE OnTrack'
  <2>1. epc[g] = "t2" /\ ~resumeReceivedWithinTimeout_ /\ epc' = [epc EXCEPT ![g] = "commit"]
        /\ UNCHANGED <<localMachState_, taskQ_, etask, resumeReceivedWithinTimeout_>>
    BY <1>5 DEF ExecTimeout, states, queues
  <2>2. QED
    BY <1>2, <2>1
<1>6. ASSUME NEW g \in Gens, ExecResume(g) \/ ExecHalt(g) \/ ExecCommit(g) PROVE OnTrack'
  <2>1. /\ epc[g] \in {"resume", "t2", "commit"} /\ epc'[g] = "idle"
        /\ \A h \in Gens : h # g => epc'[h] = epc[h] /\ etask'[h] = etask[h]
        /\ UNCHANGED taskQ_
    BY <1>0, <1>6 DEF ExecResume, ExecHalt, ExecCommit, ExecDone, queues
  <2>2. OneQueue
    BY DEF DownInv
  <2>3. \A h \in Gens : h # g => epc[h] = "idle" /\ taskQ_[h] = <<>>
    BY <2>1, <2>2 DEF OneQueue
  <2>4. ASSUME taskQ_[g] = <<>> PROVE localMachState_' = lastSent
    <3>1. IF epc[g] = "t2" /\ resumeReceivedWithinTimeout_ THEN lastSent = "RESUME"
          ELSE etask[g].op = lastSent
      BY <2>1, <2>4 DEF OnTrack
    <3>2. CASE ExecHalt(g)
      BY <3>1, <3>2 DEF ExecHalt, states, HaltDone
    <3>3. CASE ExecResume(g)
      BY <2>1, <3>1, <3>3 DEF ExecResume, DoResume, DownInv, TaskFits
    <3>4. CASE ExecCommit(g)
      BY <3>1, <3>4 DEF ExecCommit
    <3>5. QED
      BY <1>6, <3>2, <3>3, <3>4
  <2>5. \A h \in Gens : epc'[h] = "idle"
    BY <2>1, <2>3
  <2>6. AllIdle' => taskQ_[g] = <<>>
    BY <2>1 DEF AllIdle
  <2>7. QED
    BY <2>1, <2>4, <2>5, <2>6 DEF OnTrack
<1>7. QED
  BY <1>1, <1>3, <1>4, <1>5, <1>6 DEF Executor
-----------------------------------------------------------------------------
\* The callbacks that pop the queue, and the ack indications, as EMP has them.
LEMMA PopFacts ==
    ASSUME EventInv, NEW c \in callbacks, EM!CallbackError(c) \/ EM!CallbackResumed(c)
    PROVE  /\ eventQueue_ # <<>> /\ expected = {} /\ ackStatus = {} /\ sending = EM!NoEvent
           /\ \A d \in callbacks : d # c => d.ok /\ d.e.st # "RESUME"
           /\ EMP!HandlerEffect(IF c.ok THEN "SUCCEED" ELSE "FAILED_TCU_ACTIVITY")
           /\ callbacks' = callbacks \ {c} /\ UNCHANGED <<expected, ackStatus>>
<1>1. c \in EMP!Poppers
  BY DEF EM!CallbackError, EM!CallbackResumed, EMP!Poppers
<1>2. eventQueue_ # <<>> /\ expected = {} /\ ackStatus = {}
      /\ \A d \in callbacks : d # c => d.ok /\ d.e.st # "RESUME"
  BY <1>1 DEF EventInv, EMP!AnswerPart, EMP!OneAnswer, EMP!IsFirst, EMP!Poppers
<1> DEFINE s == IF c.ok THEN "SUCCEED" ELSE "FAILED_TCU_ACTIVITY"
<1>3. s \in EMP!AckStatus /\ \E r \in BOOLEAN : EM!processedEventHandler(s, r)
  <2>1. CASE EM!CallbackError(c)
    BY <2>1 DEF EM!CallbackError, EMP!AckStatus
  <2>2. CASE EM!CallbackResumed(c)
    BY <2>2 DEF EM!CallbackResumed, EMP!AckStatus
  <2>3. QED
    BY <2>1, <2>2
<1> HIDE DEF s
<1>4. PICK r \in BOOLEAN : EM!processedEventHandler(s, r)
  BY <1>3
<1>5. EMP!processedEventHandler(s, r)
  BY <1>4, SameHandler
<1>6. EMP!HandlerEffect(s)
  BY <1>2, <1>3, <1>5, EventConstants, EMP!Processed DEF EventInv
<1>7. callbacks' = callbacks \ {c} /\ UNCHANGED <<expected, ackStatus>>
  BY DEF EM!CallbackError, EM!CallbackResumed
<1>8. sending = EM!NoEvent
  BY <1>4 DEF EM!processedEventHandler, EM!Unlocked
<1>9. QED
  BY <1>2, <1>6, <1>7, <1>8 DEF s

LEMMA AckFacts ==
    ASSUME EventInv, NEW a \in ackStatus, EM!onSlaveAckStatusUpdate(a)
    PROVE  /\ eventQueue_ # <<>> /\ eventQueue_[1] = a.e /\ sending = EM!NoEvent
           /\ a.e.id \in EM!Ids
           /\ expected = {} /\ ackStatus = {a} /\ ~ErrorDue
           /\ EMP!HandlerEffect(a.st) /\ UNCHANGED <<callbacks, expected>>
<1>1. EMP!IsFirst(a.e) /\ a.st \in EMP!AckStatus /\ a.e \in EMP!Event
      /\ expected = {} /\ ackStatus = {a} /\ ~ErrorDue
  BY DEF EventInv, EMP!AnswerPart, EMP!OneAnswer, EMP!Poppers, ErrorDue
<1>2. eventQueue_ # <<>> /\ eventQueue_[1] = a.e
  <2>1. eventQueue_ # <<>> /\ Head(eventQueue_) = a.e /\ eventQueue_ \in Seq(EMP!Event)
    BY <1>1 DEF EMP!IsFirst, EventInv, EMP!QueuePart
  <2>2. QED
    BY <2>1
<1>3. EM!processedEventHandler(a.st, FALSE) /\ UNCHANGED <<callbacks, expected>>
  BY DEF EM!onSlaveAckStatusUpdate
<1>4. EMP!HandlerEffect(a.st)
  <2>1. EMP!processedEventHandler(a.st, FALSE)
    BY <1>3, SameHandler
  <2>2. FALSE \in BOOLEAN
    OBVIOUS
  <2>3. QED
    BY <1>1, <1>2, <2>1, <2>2, EventConstants, EMP!Processed DEF EventInv
<1>5. sending = EM!NoEvent
  BY <1>3 DEF EM!processedEventHandler, EM!Unlocked
<1>6. a.e.id \in EM!Ids
  BY <1>1, EventConstants, EMP!EventFacts, SameValues
<1>7. QED
  BY <1>1, <1>2, <1>3, <1>4, <1>5, <1>6

\* The events of the composition and the last one of the queue.
LEMMA QueueFacts ==
    ASSUME EventInv
    PROVE  /\ eventQueue_ \in Seq(EM!Event) /\ status \in [EM!Ids -> EMP!EventStatus]
           /\ \A e \in EM!Event : e.id \in EM!Ids /\ e # EM!NoEvent /\ e.st \in States
           /\ \A c \in callbacks : c.e \in EM!Event /\ Known(c.e.id)
           /\ eventQueue_ # <<>> =>
                LET last == eventQueue_[Len(eventQueue_)]
                IN  last.id \in EM!Ids /\ EMP!Queued(last.id) /\ Known(last.id)
<1>1. /\ eventQueue_ \in Seq(EM!Event) /\ status \in [EM!Ids -> EMP!EventStatus]
      /\ \A c \in callbacks : c.e \in EM!Event /\ Known(c.e.id)
      /\ \A i \in EM!Ids : EMP!Queued(i) => Known(i)
  BY SameValues DEF EventInv, EMP!QueuePart, EMP!AnswerPart, Known
<1>2. \A e \in EM!Event : e.id \in EM!Ids /\ e # EM!NoEvent /\ e.st \in States
  BY EventConstants, EMP!EventFacts, SameValues
     DEF EMP!TcuStates, EMP!DownStates, States, Down
<1>3. ASSUME eventQueue_ # <<>>
      PROVE  LET last == eventQueue_[Len(eventQueue_)]
             IN  last.id \in EM!Ids /\ EMP!Queued(last.id) /\ Known(last.id)
  <2>1. Len(eventQueue_) \in 1 .. Len(eventQueue_) /\ eventQueue_[Len(eventQueue_)] \in EM!Event
    BY <1>1, <1>3
  <2>2. EMP!Queued(eventQueue_[Len(eventQueue_)].id)
    BY <2>1 DEF EMP!Queued
  <2>3. QED
    BY <1>1, <1>2, <2>1, <2>2
<1>4. QED
  BY <1>1, <1>2, <1>3
\* A new event is the next in turn and goes to the end of the queue.
LEMMA TurnStep == EventInv /\ InTurn /\ [SysNext]_sysVars => InTurn'
<1> SUFFICES ASSUME EventInv, InTurn, [SysNext]_sysVars PROVE InTurn'
  OBVIOUS
<1>0. EventInv'
  BY EventSim, EventStep
<1>1. ASSUME UNCHANGED eventQueue_, \A i \in EM!Ids : Known(i)' <=> Known(i) PROVE InTurn'
  BY <1>1 DEF InTurn
<1>2. ASSUME NEW s, EMP!HandlerEffect(s), eventQueue_ # <<>> PROVE InTurn'
  <2>1. \A i \in EM!Ids : Known(i)' <=> Known(i)
    BY <1>2, SameValues DEF EMP!HandlerEffect, Known
  <2>2. eventQueue_' # <<>> => eventQueue_'[Len(eventQueue_')] = eventQueue_[Len(eventQueue_)]
    BY <1>2 DEF EMP!HandlerEffect
  <2>3. QED
    BY <1>2, <2>1, <2>2 DEF InTurn
<1>3. ASSUME NEW e \in EM!Event, EM!NewEvent(e), eventQueue_' # <<>>,
             eventQueue_'[Len(eventQueue_')] = e,
             \A i \in EM!Ids : Known(i)' <=> Known(i) \/ i = e.id
      PROVE  InTurn'
  <2>1. e.id \in EM!Ids /\ ~Known(e.id) /\ \A i \in 1 .. e.id - 1 : Known(i)
    BY <1>3, QueueFacts DEF EM!NewEvent, Known
  <2>2. EM!Ids = 1 .. MaxEvents /\ MaxEvents \in Nat
    BY SystemAssumption DEF EM!Ids
  <2>3. ASSUME NEW i \in EM!Ids, Known(i)' PROVE i <= e.id
    <3>1. CASE i = e.id
      BY <2>1, <2>2, <3>1
    <3>2. CASE Known(i) /\ ~(i <= e.id)
      BY <2>1, <2>2, <3>2 DEF InTurn
    <3>3. QED
      BY <1>3, <2>3, <3>1, <3>2
  <2>4. ASSUME NEW i \in EM!Ids, NEW j \in EM!Ids, Known(i)', j <= i PROVE Known(j)'
    <3>1. CASE j = e.id
      BY <1>3, <3>1
    <3>2. CASE j # e.id
      <4>1. j \in 1 .. e.id - 1
        BY <2>1, <2>2, <2>3, <2>4, <3>2
      <4>2. QED
        BY <1>3, <2>1, <4>1
    <3>3. QED
      BY <3>1, <3>2
  <2>5. QED
    BY <1>3, <2>3, <2>4 DEF InTurn
<1>4. ASSUME NEW e \in EM!Event, EM!PushBehind(e) PROVE InTurn'
  <2>1. EMP!PushBehind(e) /\ EM!NewEvent(e) /\ e \in EMP!Event /\ e.id \in EM!Ids
    BY <1>4, SamePush, SameValues, QueueFacts DEF EM!PushBehind
  <2>2. /\ \A i \in EM!Ids : /\ status[i] # "NONE" => status'[i] # "NONE"
                             /\ status'[i] # "NONE" => status[i] # "NONE" \/ i = e.id
        /\ status'[e.id] # "NONE"
        /\ eventQueue_' # <<>> /\ eventQueue_'[Len(eventQueue_')] = e
    BY <2>1, EventConstants, EMP!PushedBehind, SameValues DEF EventInv
  <2>3. QED
    BY <1>3, <2>1, <2>2 DEF Known
<1>5. ASSUME NEW e \in EM!Event, EM!PushFirst(e) PROVE InTurn'
  <2>1. /\ EM!NewEvent(e) /\ eventQueue_' = <<e>> /\ e.id \in EM!Ids
        /\ status' = [status EXCEPT ![e.id] = "INITIALIZED"]
    BY <1>5, QueueFacts DEF EM!PushFirst
  <2>2. eventQueue_' # <<>> /\ eventQueue_'[Len(eventQueue_')] = e
    BY <2>1
  <2>3. \A i \in EM!Ids : Known(i)' <=> Known(i) \/ i = e.id
    BY <2>1, QueueFacts DEF Known
  <2>4. QED
    BY <1>3, <2>1, <2>2, <2>3
<1>6. ASSUME NEW c \in callbacks, EM!Callback(c) PROVE InTurn'
  <2>1. CASE EM!CallbackError(c) \/ EM!CallbackResumed(c)
    BY <1>2, <2>1, PopFacts
  <2>2. CASE EM!CallbackStarted(c)
    <3>1. c.e \in EM!Event /\ Known(c.e.id) /\ c.e.id \in EM!Ids
      BY QueueFacts
    <3>2. status' = [status EXCEPT ![c.e.id] = "IN_PROGRESS_TCU_ACTIVITY"] /\ UNCHANGED eventQueue_
      BY <2>2 DEF EM!CallbackStarted
    <3>3. \A i \in EM!Ids : Known(i)' <=> Known(i)
      BY <3>1, <3>2, QueueFacts DEF Known
    <3>4. QED
      BY <1>1, <3>2, <3>3
  <2>3. QED
    BY <1>6, <2>1, <2>2 DEF EM!Callback
<1>7. ASSUME NEW a \in ackStatus, EM!onSlaveAckStatusUpdate(a) PROVE InTurn'
  BY <1>2, <1>7, AckFacts
<1>8. CASE Local
  <2>1. CASE EM!ReleaseWakeLock
    BY <1>1, <2>1 DEF EM!ReleaseWakeLock, EM!queue, Known
  <2>2. QED
    BY <1>4, <1>5, <1>6, <1>7, <1>8, <2>1 DEF Local
<1>9. CASE ~Local
  <2>1. UNCHANGED <<eventQueue_, status>>
    BY <1>9 DEF SysNext, ServerStep, RequestDown, RequestResume, Accepted, RequestSame, RequestHalt,
         RequestHaltEnd, EM!RequestAccepted, EM!RequestRefused, EM!RequestDone, SlaveStep,
         ConnectStep, EM!AcksLost, DisconnectStep, Collect, EM!AckIndication, Execute, EM!queue,
         emVars, sysVars
  <2>2. QED
    BY <1>1, <2>1 DEF Known
<1>10. QED
  BY <1>8, <1>9
\* A client that connects replaces nothing only if all is idle.
LEMMA ConnectIdle ==
    ASSUME CycleInv, ConnectStep, cyc'.replaced = {}
    PROVE  AllIdle /\ Dropped = {} /\ \A g \in Gens : taskQ_'[g] = <<>>
<1>1. cyc' = [cyc EXCEPT !.replaced = cyc.replaced \cup UnderWay]
      /\ \A g \in Gens : taskQ_'[g] = <<>>
  BY DEF ConnectStep, InitServiceMaster, InitServiceSlave, NewTaskQ
<1>2. UnderWay = {}
  BY <1>1 DEF CycleInv, CycleTypes, Cycles
<1>3. ASSUME NEW g \in Gens PROVE epc[g] = "idle" /\ taskQ_[g] = <<>>
  <2>1. epc[g] = "idle"
    <3>1. epc[g] # "idle" => g \in {h \in Gens : epc[h] # "idle"}
      OBVIOUS
    <3>2. epc[g] # "idle" => etask[g].c \in UnderWay
      BY <3>1 DEF UnderWay
    <3>3. QED
      BY <1>2, <3>2
  <2>2. \A i \in 1 .. Len(taskQ_[g]) : taskQ_[g][i].c \in UnderWay
    BY DEF UnderWay
  <2>3. taskQ_[g] \in Seq(Task)
    BY DEF CycleInv, CycleTypes
  <2>4. QED
    BY <1>2, <2>1, <2>2, <2>3
<1>4. Dropped = {}
  BY <1>3 DEF Dropped
<1>5. QED
  BY <1>1, <1>3, <1>4 DEF AllIdle

LEMMA StartedStep ==
    CycleInv /\ EventInv /\ StartedAnswered /\ [SysNext]_sysVars /\ cyc'.replaced = {}
        => StartedAnswered'
<1> SUFFICES ASSUME CycleInv, EventInv, StartedAnswered, [SysNext]_sysVars, cyc'.replaced = {}
             PROVE  StartedAnswered'
  OBVIOUS
<1>1. ASSUME callbacks' \subseteq callbacks, UNCHANGED <<expected, ackStatus>>,
             \A c \in callbacks : EMP!Queued(c.e.id)' => EMP!Queued(c.e.id)
      PROVE  StartedAnswered'
  <2> SUFFICES ASSUME NEW c \in callbacks', c.ok, c.e.st # "RESUME", EMP!Queued(c.e.id)'
               PROVE  c.e \in expected' \/ \E a \in ackStatus' : a.e = c.e
    BY DEF StartedAnswered
  <2>1. QED
    BY <1>1 DEF StartedAnswered
<1>2. UNCHANGED eventQueue_ => \A i : EMP!Queued(i)' <=> EMP!Queued(i)
  BY DEF EMP!Queued
<1>3. ASSUME NEW e \in EM!Event, EM!PushBehind(e) PROVE StartedAnswered'
  <2>1. EMP!PushBehind(e) /\ EM!NewEvent(e) /\ e \in EMP!Event
        /\ UNCHANGED <<callbacks, expected, ackStatus>>
    BY <1>3, SamePush, SameValues DEF EM!PushBehind
  <2>2. \A i \in EM!Ids : EMP!Queued(i)' => EMP!Queued(i) \/ i = e.id
    BY <2>1, EventConstants, EMP!PushedBehind, SameValues DEF EventInv
  <2>3. \A c \in callbacks : c.e.id \in EM!Ids /\ c.e.id # e.id
    BY <2>1, QueueFacts DEF EM!NewEvent, Known
  <2>4. QED
    BY <1>1, <2>1, <2>2, <2>3
<1>4. ASSUME NEW e \in EM!Event, EM!PushFirst(e) PROVE StartedAnswered'
  <2>1. eventQueue_' = <<e>> /\ EM!NewEvent(e) /\ UNCHANGED <<callbacks, expected, ackStatus>>
    BY <1>4 DEF EM!PushFirst
  <2>2. \A i : EMP!Queued(i)' => i = e.id
    BY <2>1 DEF EMP!Queued
  <2>3. \A c \in callbacks : c.e.id # e.id
    BY <2>1, QueueFacts DEF EM!NewEvent, Known
  <2>4. QED
    BY <1>1, <2>1, <2>2, <2>3
<1>5. ASSUME NEW c \in callbacks, EM!CallbackError(c) \/ EM!CallbackResumed(c)
      PROVE  StartedAnswered'
  <2>1. /\ callbacks' = callbacks \ {c} /\ UNCHANGED <<expected, ackStatus>>
        /\ \A i \in EM!Ids : EMP!Queued(i)' => EMP!Queued(i)
    BY <1>5, PopFacts, SameValues DEF EMP!HandlerEffect
  <2>2. \A d \in callbacks : d.e.id \in EM!Ids
    BY QueueFacts
  <2>3. QED
    BY <1>1, <2>1, <2>2
<1>6. ASSUME NEW c \in callbacks, EM!CallbackStarted(c) PROVE StartedAnswered'
  BY <1>1, <1>2, <1>6 DEF EM!CallbackStarted
<1>7. ASSUME NEW a \in ackStatus, EM!onSlaveAckStatusUpdate(a) PROVE StartedAnswered'
  <2>1. /\ expected = {} /\ ackStatus = {a} /\ callbacks' = callbacks
        /\ \A i \in EM!Ids : EMP!Queued(i)' => EMP!Queued(i)
        /\ \A i \in EM!Ids : i = a.e.id => ~EMP!Queued(i)'
    BY <1>7, AckFacts, SameValues DEF EMP!HandlerEffect
  <2> SUFFICES ASSUME NEW c \in callbacks, c.ok, c.e.st # "RESUME", EMP!Queued(c.e.id)'
               PROVE  FALSE
    BY <2>1 DEF StartedAnswered
  <2>2. c.e.id \in EM!Ids
    BY QueueFacts
  <2>3. c.e = a.e
    BY <2>1, <2>2 DEF StartedAnswered
  <2>4. QED
    BY <2>1, <2>2, <2>3
<1>8. CASE Local
  <2>1. CASE EM!ReleaseWakeLock
    BY <1>1, <1>2, <2>1 DEF EM!ReleaseWakeLock, EM!queue
  <2>2. QED
    BY <1>3, <1>4, <1>5, <1>6, <1>7, <1>8, <2>1 DEF Local, EM!Callback
<1>9. CASE EM!RequestAccepted
  <2>1. /\ callbacks' = callbacks \cup {[e |-> sending, ok |-> TRUE]}
        /\ expected \subseteq expected' /\ UNCHANGED <<ackStatus, eventQueue_>>
        /\ sending.st \in EM!DownStates => sending \in expected'
        /\ sending # EM!NoEvent
    BY <1>9 DEF EM!RequestAccepted, EM!RequestDone, EM!queue
  <2>2. sending.st # "RESUME" => sending \in expected'
    BY <2>1, EventFact, QueueFacts DEF States, Down, EM!DownStates
  <2> SUFFICES ASSUME NEW c \in callbacks', c.ok, c.e.st # "RESUME", EMP!Queued(c.e.id)'
               PROVE  c.e \in expected' \/ \E a \in ackStatus' : a.e = c.e
    BY DEF StartedAnswered
  <2>3. CASE c \in callbacks
    <3>1. EMP!Queued(c.e.id)
      BY <1>2, <2>1
    <3>2. c.e \in expected \/ \E a \in ackStatus : a.e = c.e
      BY <2>3, <3>1 DEF StartedAnswered
    <3>3. QED
      BY <2>1, <3>2
  <2>4. CASE c = [e |-> sending, ok |-> TRUE]
    BY <2>2, <2>4
  <2>5. QED
    BY <2>1, <2>3, <2>4
<1>10. CASE EM!RequestRefused
  <2>1. /\ callbacks' = callbacks \cup {[e |-> sending, ok |-> FALSE]}
        /\ UNCHANGED <<expected, ackStatus, eventQueue_>>
    BY <1>10 DEF EM!RequestRefused, EM!RequestDone, EM!queue
  <2> SUFFICES ASSUME NEW c \in callbacks', c.ok, c.e.st # "RESUME", EMP!Queued(c.e.id)'
               PROVE  c.e \in expected' \/ \E a \in ackStatus' : a.e = c.e
    BY DEF StartedAnswered
  <2>2. c \in callbacks
    BY <2>1
  <2>3. EMP!Queued(c.e.id)
    BY <1>2, <2>1
  <2>4. QED
    BY <2>1, <2>2, <2>3 DEF StartedAnswered
<1>11. ASSUME NEW g \in Gens, Collect(g) PROVE StartedAnswered'
  <2> DEFINE e == eventOf[etask[g].c]
  <2>1. /\ e \in expected /\ expected' = expected \ {e}
        /\ ackStatus' = ackStatus \cup {[e |-> e, st |-> Verdict]}
        /\ UNCHANGED <<callbacks, eventQueue_>>
    BY <1>11 DEF Collect, EM!AckIndication, EM!queue
  <2>2. [e |-> e, st |-> Verdict].e = e
    OBVIOUS
  <2> HIDE DEF e
  <2> SUFFICES ASSUME NEW c \in callbacks, c.ok, c.e.st # "RESUME", EMP!Queued(c.e.id)'
               PROVE  c.e \in expected' \/ \E a \in ackStatus' : a.e = c.e
    BY <2>1 DEF StartedAnswered
  <2>3. c.e \in expected \/ \E a \in ackStatus : a.e = c.e
    BY <1>2, <2>1 DEF StartedAnswered
  <2>4. QED
    BY <2>1, <2>2, <2>3
<1>12. CASE ConnectStep
  <2>1. Dropped = {}
    BY <1>12, ConnectIdle
  <2>2. UNCHANGED <<callbacks, expected, ackStatus, eventQueue_>>
    BY <1>12, <2>1 DEF ConnectStep, EM!AcksLost, EM!queue
  <2>3. QED
    BY <1>1, <1>2, <2>2
<1>13. CASE RequestHalt \/ SlaveStep \/ DisconnectStep \/ (\E g \in Gens : Execute(g))
            \/ UNCHANGED sysVars
  <2>1. UNCHANGED <<callbacks, expected, ackStatus, eventQueue_>>
    BY <1>13 DEF RequestHalt, SlaveStep, DisconnectStep, Execute, emVars, sysVars
  <2>2. QED
    BY <1>1, <1>2, <2>1
<1>14. QED
  BY <1>8, <1>9, <1>10, <1>11, <1>12, <1>13
     DEF SysNext, ServerStep, RequestDown, RequestResume, Accepted, RequestSame, RequestHaltEnd
\* The request that is out asks for what was last asked for.
LEMMA SendingIsLast ==
    ASSUME EventInv, sending # EM!NoEvent PROVE sending.st = lastSent
<1>1. EMP!IsFirst(sending) /\ EMP!EndsOfQueue /\ eventQueue_ \in Seq(EMP!Event)
  BY SameValues DEF EventInv, EMP!QueuePart
<1>2. eventQueue_ # <<>> /\ Head(eventQueue_) = sending
  BY <1>1 DEF EMP!IsFirst
<1>3. eventQueue_[1] = sending
  BY <1>1, <1>2
<1>4. QED
  BY <1>1, <1>2, <1>3 DEF EMP!EndsOfQueue

\* A request that goes to the end of the queue puts the server on its way.
LEMMA TrackEnqueue ==
    ASSUME CycleInv, DownInv, cyc.replaced = {}, Request, NEW op, NEW on, Enqueue(op, on),
           op = lastSent, UNCHANGED <<lastSent, execs>>
    PROVE  OnTrack'
<1>1. gen \in Gens /\ taskQ_ \in [Gens -> Seq(Task)] /\ OneQueue
  BY DEF Request, DownInv, MasterHasQueue, CycleInv, CycleTypes
<1> DEFINE t == [op |-> op, mach |-> on, c |-> requests']
<1>2. taskQ_' = [taskQ_ EXCEPT ![gen] = Append(@, t)] /\ t.op = op
  BY DEF Enqueue
<1> HIDE DEF t
<1>3. /\ \A h \in Gens : h # gen => taskQ_'[h] = taskQ_[h]
      /\ taskQ_'[gen] # <<>> /\ taskQ_'[gen][Len(taskQ_'[gen])] = t
  <2>1. taskQ_'[gen] = Append(taskQ_[gen], t) /\ taskQ_[gen] \in Seq(Task)
    BY <1>1, <1>2
  <2>2. Append(taskQ_[gen], t) # <<>>
        /\ Append(taskQ_[gen], t)[Len(Append(taskQ_[gen], t))] = t
    BY <2>1
  <2>3. \A h \in Gens : h # gen => taskQ_'[h] = taskQ_[h]
    BY <1>1, <1>2
  <2>4. QED
    BY <2>1, <2>2, <2>3
<1>4. ~AllIdle'
  BY <1>1, <1>3 DEF AllIdle
<1>5. \A h \in Gens : h # gen => taskQ_'[h] = <<>> /\ epc'[h] = "idle"
  BY <1>1, <1>3 DEF OneQueue, execs
<1>6. QED
  BY <1>2, <1>3, <1>4, <1>5 DEF OnTrack

\* So does a RESUME that halts the suspend.
LEMMA TrackHalt ==
    ASSUME IInv, CycleInv, DownInv, EventInv, WaitInv, cyc.replaced = {}, ResumeUnderLock,
           withinSuspendTimeout_, lastSent' = lastSent
    PROVE  OnTrack'
<1>1. /\ resumeReceivedWithinTimeout_' = TRUE /\ localMachState_' = "RESUME"
      /\ UNCHANGED <<epc, etask, taskQ_>> /\ mpc = "lock"
  BY DEF ResumeUnderLock, DoResume, queues, execs
<1>2. sending # EM!NoEvent /\ sending.st = "RESUME"
  BY <1>1 DEF WaitInv, HaltIsOut
<1>3. lastSent = "RESUME" /\ NoneWaits
  BY <1>2, SendingIsLast, SendingNoneWaits
<1>4. PICK g \in Gens : epc[g] = "t2"
  BY DEF IInv, FlagInWindow
<1>5. \A h \in Gens : h # g => epc[h] = "idle" /\ taskQ_[h] = <<>>
  BY <1>4 DEF DownInv, OneQueue
<1>6. ASSUME NEW h \in Gens, taskQ_[h] # <<>> PROVE taskQ_[h][Len(taskQ_[h])].op = "RESUME"
  <2>1. taskQ_[h] \in Seq(Task)
    BY DEF CycleInv, CycleTypes
  <2>2. Len(taskQ_[h]) \in 1 .. Len(taskQ_[h]) /\ Len(taskQ_[h]) \in 0 .. Len(taskQ_[h])
        /\ Len(taskQ_[h]) # 0
    BY <1>6, <2>1
  <2>3. taskQ_[h][Len(taskQ_[h])] \in Task
    BY <2>1, <2>2
  <2>4. taskQ_[h][Len(taskQ_[h])].op \in States
    BY <2>3 DEF Task
  <2>5. ~Waiting(h, Len(taskQ_[h]))
    BY <1>3, <2>2 DEF NoneWaits
  <2>6. taskQ_[h][Len(taskQ_[h])].op \notin Down
    BY <2>2, <2>5 DEF Waiting
  <2>7. QED
    BY <2>4, <2>6 DEF States
<1>7. ~AllIdle'
  BY <1>1, <1>4 DEF AllIdle
<1>8. QED
  BY <1>1, <1>3, <1>4, <1>5, <1>6, <1>7 DEF OnTrack

\* That a queue in use was replaced is not forgotten.
LEMMA ReplacedStays ==
    ASSUME CycleInv, [SysNext]_sysVars, cyc'.replaced = {} PROVE cyc.replaced = {}
<1>1. cyc \in Cycles
  BY DEF CycleInv, CycleTypes
<1>2. CASE ConnectStep
  BY <1>1, <1>2 DEF ConnectStep, InitServiceMaster, InitServiceSlave, NewTaskQ, Cycles
<1>3. CASE RequestHaltEnd
  BY <1>1, <1>3 DEF RequestHaltEnd, ResumeUnderLock, Cycles
<1>4. CASE ~ConnectStep /\ ~RequestHaltEnd
  <2>1. cyc' = cyc
    BY <1>4 DEF SysNext, ServerStep, Local, RequestDown, SendDown, RequestResume,
         SendResumeLater, RequestSame, RequestHalt, SendResumeUp, SlaveStep, Slave,
         SendActivityStateAck, AckLost, DisconnectStep, DeregisterSlave, Collect, ExecCollect,
         Execute, ExecTake, ExecResume, ExecDecide, ExecHalt, ExecTimeout, ExecCommit, vars,
         sysVars
  <2>2. QED
    BY <2>1
<1>5. QED
  BY <1>2, <1>3, <1>4

LEMMA FateStep ==
    /\ IInv /\ CycleInv /\ DownInv /\ EventInv /\ WaitInv /\ FateInv
    /\ [SysNext]_sysVars /\ cyc'.replaced = {}
    => Fate'
<1> SUFFICES ASSUME IInv, CycleInv, DownInv, EventInv, WaitInv, FateInv, [SysNext]_sysVars,
                    cyc'.replaced = {}, sending' = EM!NoEvent
             PROVE  OnTrack' \/ ErrorDue' \/ LatestFailed'
  BY DEF Fate
<1>0. cyc.replaced = {} /\ StartedAnswered /\ Fate /\ InTurn /\ HaltDone
  BY ReplacedStays DEF FateInv
<1>1. ASSUME UNCHANGED <<vars, lastSent>> PROVE OnTrack => OnTrack'
  BY <1>1 DEF OnTrack, AllIdle, vars, states, window, queues, execs
<1>2. ASSUME UNCHANGED <<sending, eventQueue_, status, callbacks>>, OnTrack => OnTrack'
      PROVE  OnTrack' \/ ErrorDue' \/ LatestFailed'
  BY <1>0, <1>2 DEF Fate, ErrorDue, LatestFailed, Known
<1>3. CASE Local
  <2>0. UNCHANGED vars
    BY <1>3 DEF Local
  <2>1. ASSUME NEW e \in EM!Event, EM!PushBehind(e) PROVE OnTrack' \/ ErrorDue'
    <3>1. eventQueue_ # <<>> /\ UNCHANGED <<sending, lastSent, callbacks>>
      BY <2>1 DEF EM!PushBehind, EM!request
    <3>2. QED
      BY <1>0, <1>1, <2>0, <3>1 DEF Fate, ErrorDue, LatestFailed
  <2>2. ASSUME NEW e \in EM!Event, EM!PushFirst(e) PROVE FALSE
    BY <2>2, QueueFacts DEF EM!PushFirst, EM!StartRequest
  <2>3. ASSUME NEW c \in callbacks, EM!CallbackError(c) PROVE LatestFailed'
    <3>1. /\ eventQueue_ # <<>> /\ expected = {} /\ ackStatus = {} /\ ~c.ok
          /\ callbacks' = callbacks \ {c}
          /\ \A d \in callbacks : d # c => d.ok /\ d.e.st # "RESUME"
          /\ EMP!HandlerEffect("FAILED_TCU_ACTIVITY")
      BY <2>3, PopFacts DEF EM!CallbackError
    <3>2. /\ eventQueue_' = <<>>
          /\ \A i \in EM!Ids : EMP!Queued(i) => status'[i] = "FAILED_TCU_ACTIVITY"
          /\ \A i \in EM!Ids : Known(i)' <=> Known(i)
      BY <3>1, SameValues DEF EMP!HandlerEffect, Known
    <3> DEFINE top == eventQueue_[Len(eventQueue_)].id
    <3>3. top \in EM!Ids /\ EMP!Queued(top) /\ Known(top)
      BY <3>1, QueueFacts
    <3>4. \A i \in EM!Ids : Known(i) => i <= top
      BY <1>0, <3>1 DEF InTurn
    <3> HIDE DEF top
    <3> SUFFICES ASSUME NEW i \in EM!Ids, Known(i)', \A j \in EM!Ids : Known(j)' => j <= i
                 PROVE  status'[i] = "FAILED_TCU_ACTIVITY" /\ \A d \in callbacks' : d.e.id # i
      BY <3>2 DEF LatestFailed
    <3>5. i = top
      <4>1. i <= top /\ top <= i
        BY <3>2, <3>3, <3>4
      <4>2. QED
        BY <4>1, <3>3, SystemAssumption DEF EM!Ids
    <3>6. ASSUME NEW d \in callbacks' PROVE d.e.id # i
      BY <1>0, <3>1, <3>3, <3>5, <3>6 DEF StartedAnswered
    <3>7. QED
      BY <3>2, <3>3, <3>5, <3>6
  <2>4. ASSUME NEW c \in callbacks, EM!CallbackResumed(c) PROVE OnTrack'
    <3>1. /\ eventQueue_ # <<>> /\ c.ok /\ sending = EM!NoEvent
          /\ \A d \in callbacks : d # c => d.ok
          /\ EMP!HandlerEffect("SUCCEED")
      BY <2>4, PopFacts DEF EM!CallbackResumed
    <3>2. lastSent' = lastSent
      BY <3>1, SameValues DEF EMP!HandlerEffect
    <3>3. QED
      BY <1>0, <1>1, <2>0, <3>1, <3>2 DEF Fate, ErrorDue, LatestFailed
  <2>5. ASSUME NEW a \in ackStatus, EM!onSlaveAckStatusUpdate(a) PROVE OnTrack'
    <3>1. eventQueue_ # <<>> /\ sending = EM!NoEvent /\ ~ErrorDue /\ EMP!HandlerEffect(a.st)
      BY <2>5, AckFacts
    <3>2. lastSent' = lastSent
      BY <3>1, SameValues DEF EMP!HandlerEffect
    <3>3. QED
      BY <1>0, <1>1, <2>0, <3>1, <3>2 DEF Fate, LatestFailed
  <2>6. ASSUME NEW c \in callbacks, EM!CallbackStarted(c)
        PROVE  OnTrack' \/ ErrorDue' \/ LatestFailed'
    <3>1. /\ c.ok /\ callbacks' = callbacks \ {c} /\ UNCHANGED <<sending, lastSent, eventQueue_>>
          /\ status' = [status EXCEPT ![c.e.id] = "IN_PROGRESS_TCU_ACTIVITY"]
      BY <2>6 DEF EM!CallbackStarted, EM!request
    <3>2. c.e.id \in EM!Ids /\ Known(c.e.id)
      BY QueueFacts
    <3>3. \A i \in EM!Ids : (Known(i)' <=> Known(i)) /\ (i # c.e.id => status'[i] = status[i])
      BY <3>1, <3>2, QueueFacts DEF Known
    <3>4. LatestFailed => LatestFailed'
      BY <3>1, <3>2, <3>3 DEF LatestFailed
    <3>5. ErrorDue => ErrorDue'
      BY <3>1 DEF ErrorDue
    <3>6. QED
      BY <1>0, <1>1, <2>0, <3>1, <3>4, <3>5 DEF Fate
  <2>7. CASE EM!ReleaseWakeLock
    BY <1>1, <1>2, <2>0, <2>7 DEF EM!ReleaseWakeLock, EM!queue, EM!request
  <2>8. QED
    BY <1>3, <2>1, <2>2, <2>3, <2>4, <2>5, <2>6, <2>7 DEF Local, EM!Callback
<1>4. CASE RequestDown
  <2>1. /\ Request /\ Enqueue(st, mach) /\ UNCHANGED <<lastSent, execs>>
        /\ sending # EM!NoEvent /\ st = sending.st
    BY <1>4 DEF RequestDown, SendDown, Accepted, EM!RequestAccepted, EM!RequestDone, Sending, st
  <2>2. OnTrack'
    BY <1>0, <2>1, SendingIsLast, TrackEnqueue
  <2>3. QED
    BY <2>2
<1>5. CASE RequestResume
  <2>1. /\ Request /\ Enqueue("RESUME", mach) /\ UNCHANGED <<lastSent, execs>>
        /\ sending # EM!NoEvent /\ sending.st = "RESUME"
    BY <1>5 DEF RequestResume, SendResumeLater, Accepted, EM!RequestAccepted, EM!RequestDone,
                Sending, st
  <2>2. OnTrack'
    BY <1>0, <2>1, SendingIsLast, TrackEnqueue
  <2>3. QED
    BY <2>2
<1>6. ASSUME EM!RequestRefused PROVE ErrorDue'
  <2>1. [e |-> sending, ok |-> FALSE] \in callbacks' /\ ~[e |-> sending, ok |-> FALSE].ok
    BY <1>6 DEF EM!RequestRefused
  <2>2. QED
    BY <2>1 DEF ErrorDue
<1>7. CASE RequestSame
  BY <1>6, <1>7 DEF RequestSame
<1>8. CASE RequestHalt
  BY <1>8 DEF RequestHalt, Sending, emVars
<1>9. CASE RequestHaltEnd
  <2>1. CASE withinSuspendTimeout_
    <3>1. ResumeUnderLock /\ lastSent' = lastSent
      BY <1>9, <2>1 DEF RequestHaltEnd, EM!RequestAccepted, EM!RequestDone
    <3>2. OnTrack'
      BY <1>0, <2>1, <3>1, TrackHalt
    <3>3. QED
      BY <3>2
  <2>2. CASE ~withinSuspendTimeout_
    BY <1>6, <1>9, <2>2 DEF RequestHaltEnd
  <2>3. QED
    BY <2>1, <2>2
<1>10. CASE ConnectStep
  <2>1. AllIdle /\ \A g \in Gens : taskQ_'[g] = <<>>
    BY <1>10, ConnectIdle
  <2>2. UNCHANGED <<sending, eventQueue_, status, callbacks, lastSent, epc, localMachState_>>
    BY <1>10 DEF ConnectStep, InitServiceMaster, InitServiceSlave, EM!AcksLost, EM!queue,
                 EM!request, states, execs
  <2>3. OnTrack => OnTrack'
    BY <2>1, <2>2 DEF OnTrack, AllIdle
  <2>4. QED
    BY <1>2, <2>2, <2>3
<1>11. CASE SlaveStep \/ DisconnectStep \/ UNCHANGED sysVars
  <2>1. /\ UNCHANGED <<sending, eventQueue_, status, callbacks, lastSent, epc, etask, taskQ_>>
        /\ UNCHANGED <<localMachState_, resumeReceivedWithinTimeout_>>
    BY <1>11 DEF SlaveStep, Slave, SendActivityStateAck, AckLost, DisconnectStep, DeregisterSlave,
                 sysVars, emVars, vars, states, queues, execs, window
  <2>2. OnTrack => OnTrack'
    BY <2>1 DEF OnTrack, AllIdle
  <2>3. QED
    BY <1>2, <2>1, <2>2
<1>12. ASSUME NEW g \in Gens, Collect(g) \/ Execute(g)
       PROVE  OnTrack' \/ ErrorDue' \/ LatestFailed'
  <2>1. UNCHANGED <<sending, eventQueue_, status, callbacks, lastSent>>
    BY <1>12 DEF Collect, Execute, EM!AckIndication, EM!queue, EM!request, emVars
  <2>2. Executor
    BY <1>12 DEF Collect, Execute, Executor
  <2>3. OnTrack => OnTrack'
    BY <1>0, <2>1, <2>2, TrackExec
  <2>4. QED
    BY <1>2, <2>1, <2>3
<1>13. QED
  BY <1>3, <1>4, <1>5, <1>7, <1>8, <1>9, <1>10, <1>11, <1>6, <1>12 DEF SysNext, ServerStep

LEMMA FateInvStep ==
    IInv /\ CycleInv /\ DownInv /\ EventInv /\ WaitInv /\ FateInv /\ [SysNext]_sysVars => FateInv'
<1> SUFFICES ASSUME IInv, CycleInv, DownInv, EventInv, WaitInv, FateInv, [SysNext]_sysVars
             PROVE  FateInv'
  OBVIOUS
<1>1. InTurn' /\ HaltDone'
  BY TurnStep, HaltDoneStep, ServerSim DEF FateInv
<1>2. ASSUME cyc'.replaced = {} PROVE StartedAnswered' /\ Fate'
  <2>1. StartedAnswered
    BY <1>2, ReplacedStays DEF FateInv
  <2>2. QED
    BY <1>2, <2>1, StartedStep, FateStep
<1>3. QED
  BY <1>1, <1>2 DEF FateInv

\* What listeners are told is true: at rest, with no queue replaced that was in use,
\* the local machine is in the state the latest event wanted, or that event was
\* reported as failed.
THEOREM SucceededIsDone == SysSpec => []SucceededMeansDone
<1>1. EventInv /\ FateInv => SucceededMeansDone
  <2> SUFFICES ASSUME EventInv, FateInv, Quiet, cyc.replaced = {}, NEW i \in EM!Ids,
                      status[i] \notin {"NONE", "FAILED_TCU_ACTIVITY"},
                      \A j \in EM!Ids : status[j] # "NONE" => j <= i
               PROVE  localMachState_ = latest
    BY DEF SucceededMeansDone
  <2>1. sending = EM!NoEvent /\ lastSent = latest
    BY SameValues DEF Quiet, EventInv, EMP!QueuePart, EMP!IsFirst, EMP!EndsOfQueue, EMP!LatestWins
  <2>2. ~ErrorDue /\ AllIdle
    BY DEF Quiet, Idle, ErrorDue, AllIdle
  <2>3. ~LatestFailed
    BY DEF LatestFailed, Known
  <2>4. OnTrack
    BY <2>1, <2>2, <2>3 DEF FateInv, Fate
  <2>5. QED
    BY <2>1, <2>2, <2>4 DEF OnTrack
<1>2. SysSpec => []FateInv
  BY SystemInvariants, FateInit, FateInvStep, PTL DEF SysSpec
<1>3. QED
  BY <1>1, <1>2, EventInvariant, PTL
==============================================================================
