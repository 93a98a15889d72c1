------------------------ MODULE SatCommServiceProofs ------------------------
(***************************************************************************)
(* Proofs about SatCommService, for any set of frames, any sizes and any   *)
(* MTUs.                                                                   *)
(*                                                                         *)
(* IInv: the uplink never has two chunks in flight, and its worker never   *)
(* outlives the manager.  SessionInv: nor does it leave before shutdown(). *)
(* PiecesInv: a frame is cut from its front and one piece of it is left,   *)
(* so no byte goes out twice and none vanishes.  OrderInv: frames that     *)
(* were not rejected stay in order.  Each is inductive relative to those   *)
(* before it; together they give the safety part of UplinkChannel.         *)
(***************************************************************************)
EXTENDS SatCommService, FiniteSetTheorems, TLAPS

-----------------------------------------------------------------------------
(* The inductive invariant, in named parts.                                 *)

\* Where the worker reads its slice, and the app thread its frame, they have one.
HandsFull ==
    /\ wpc \in {"mtu", "probe", "store", "arm", "send", "reject", "requeue",
                "ackwait", "ackblock", "ackasleep", "ackwoken"} => cur \in Slices
    /\ apc = "push" => aframe \in Frames

\* A worker thread exists only in a session: init() has acquired the manager and
\* registered the listener, and shutdown() has not joined it yet.
WorkerInSession ==
    /\ wpc # "none" => ntn_ /\ listening /\ cpc \in {"idle", "stop", "notify", "join"}
    /\ cpc \in {"register", "caps", "gate", "run", "spawn"} => ntn_
    /\ cpc \in {"caps", "gate", "run", "spawn"} => listening

\* Awaiting an ACK: a chunk is in the modem, or its onDataAck has not stored yet.
Awaiting == outstanding # {} \/ tpc = "store"

\* Awaiting an ACK raises inFlight_, and rules out that the worker is on its way
\* to the next sendData().
PacedByAck ==
    /\ Awaiting => inFlight_
    /\ wpc \in {"mtu", "probe", "store", "arm", "send", "reject"} => ~Awaiting
    /\ wpc = "send" => inFlight_

\* The worker leaves the wait for the ACK with running_ if the ACK came.
AckSeen == wpc = "ackwoken" => ~running_ \/ ~inFlight_

IInv == TypeOK /\ HandsFull /\ WorkerInSession /\ OneInFlight /\ PacedByAck /\ AckSeen

-----------------------------------------------------------------------------
(* What the helpers return.                                                 *)

\* Cutting a slice at the MTU gives slices: the chunk and what is behind it.
LEMMA CutTypes ==
    ASSUME cur \in Slices, m \in Nat
    PROVE  Chunk \in Slices /\ Remainder \in Slices
BY DEF Slices, Chunk, Remainder

\* A notification moves a sleeping worker to its predicate and nobody else.
LEMMA NotifiedTypes ==
    ASSUME wpc \in WorkerPCs
    PROVE  /\ Notified \in WorkerPCs
           /\ Notified = wpc \/ (wpc = "asleep" /\ Notified = "wait")
                             \/ (wpc = "ackasleep" /\ Notified = "ackwait")
BY DEF WorkerPCs, Notified

-----------------------------------------------------------------------------

LEMMA InitInv == Init => IInv
<1> SUFFICES ASSUME Init PROVE IInv
  OBVIOUS
<1>1. FlagsOK
  BY DEF Init, FlagsOK
<1>2. DataOK
  BY DEF Init, DataOK, WorkerPCs, AppPCs, ControlPCs, TelSdkPCs
<1>3. HandsFull /\ WorkerInSession /\ OneInFlight /\ PacedByAck /\ AckSeen
  BY DEF Init, HandsFull, WorkerInSession, OneInFlight, PacedByAck, Awaiting, AckSeen
<1>4. QED
  BY <1>1, <1>2, <1>3 DEF IInv, TypeOK

\* Every step of every thread preserves the invariant.
LEMMA NextInv == IInv /\ [Next]_vars => IInv'
<1> SUFFICES ASSUME IInv, [Next]_vars PROVE IInv'
  OBVIOUS
<1> USE FramesAssumption, MtuAssumption, CutTypes, NotifiedTypes
<1> USE DEF IInv, TypeOK, FlagsOK, DataOK, HandsFull, WorkerInSession, OneInFlight, PacedByAck, Awaiting, AckSeen,
            WorkerPCs, WorkPredicate, AckPredicate, AppPCs, ControlPCs, TelSdkPCs, svc, wrk, app, ctl, modem, hist
<1>1. CASE WorkerStart
  BY <1>1 DEF WorkerStart
<1>2. CASE WorkerWait
  BY <1>2 DEF WorkerWait
<1>3. CASE WorkerBlock
  BY <1>3 DEF WorkerBlock
<1>4. CASE WorkerWoken
  <2> USE <1>4 DEF WorkerWoken
  <2>1. TypeOK'
    <3>1. FlagsOK'
      OBVIOUS
    <3>2. q_ # <<>> => Head(q_) \in Slices /\ Tail(q_) \in Seq(Slices)
      OBVIOUS
    <3>3. DataOK'
      BY <3>2, ZenonT(60)
    <3>4. QED
      BY <3>1, <3>3
  <2>2. HandsFull'
    OBVIOUS
  <2>3. WorkerInSession'
    OBVIOUS
  <2>4. OneInFlight'
    OBVIOUS
  <2>5. PacedByAck'
    OBVIOUS
  <2>6. AckSeen'
    OBVIOUS
  <2>7. QED
    BY <2>1, <2>2, <2>3, <2>4, <2>5, <2>6
<1>5. CASE WorkerLoadMtu
  BY <1>5 DEF WorkerLoadMtu
<1>6. CASE WorkerProbeMtu
  BY <1>6 DEF WorkerProbeMtu
<1>7. CASE WorkerStoreMtu
  BY <1>7 DEF WorkerStoreMtu
<1>8. CASE WorkerArm
  BY <1>8 DEF WorkerArm
<1>9. CASE WorkerSendAccepted
  <2> USE <1>9 DEF WorkerSendAccepted
  <2>1. TypeOK'
    OBVIOUS
  <2>2. HandsFull'
    OBVIOUS
  <2>3. WorkerInSession'
    OBVIOUS
  <2>4. OneInFlight'
    OBVIOUS
  <2>5. PacedByAck'
    OBVIOUS
  <2>6. AckSeen'
    OBVIOUS
  <2>7. QED
    BY <2>1, <2>2, <2>3, <2>4, <2>5, <2>6
<1>10. CASE WorkerSendRejected
  BY <1>10 DEF WorkerSendRejected
<1>11. CASE WorkerDisarm
  <2> USE <1>11 DEF WorkerDisarm
  <2>1. TypeOK'
    <3>1. FlagsOK'
      OBVIOUS
    <3>2. [slice |-> Chunk, why |-> "rejected"] \in [slice : Slices, why : Reasons]
      BY DEF Reasons
    <3>3. DataOK'
      BY <3>2
    <3>4. QED
      BY <3>1, <3>3
  <2>2. HandsFull'
    OBVIOUS
  <2>3. WorkerInSession'
    OBVIOUS
  <2>4. OneInFlight'
    OBVIOUS
  <2>5. PacedByAck'
    OBVIOUS
  <2>6. AckSeen'
    OBVIOUS
  <2>7. QED
    BY <2>1, <2>2, <2>3, <2>4, <2>5, <2>6
<1>12. CASE WorkerRequeue
  BY <1>12 DEF WorkerRequeue
<1>13. CASE WorkerAckWait
  <2> USE <1>13 DEF WorkerAckWait
  <2>1. TypeOK'
    OBVIOUS
  <2>2. HandsFull'
    OBVIOUS
  <2>3. WorkerInSession'
    OBVIOUS
  <2>4. OneInFlight'
    OBVIOUS
  <2>5. PacedByAck'
    OBVIOUS
  <2>6. AckSeen'
    OBVIOUS
  <2>7. QED
    BY <2>1, <2>2, <2>3, <2>4, <2>5, <2>6
<1>14. CASE WorkerAckBlock
  BY <1>14 DEF WorkerAckBlock
<1>15. CASE WorkerAckWoken
  <2> USE <1>15 DEF WorkerAckWoken
  <2>1. TypeOK'
    <3>1. FlagsOK'
      OBVIOUS
    <3>2. [slice |-> Remainder, why |-> "stopped"] \in [slice : Slices, why : Reasons]
      BY DEF Reasons
    <3>3. DataOK'
      BY <3>2
    <3>4. QED
      BY <3>1, <3>3
  <2>2. HandsFull'
    OBVIOUS
  <2>3. WorkerInSession'
    OBVIOUS
  <2>4. OneInFlight'
    OBVIOUS
  <2>5. PacedByAck'
    OBVIOUS
  <2>6. AckSeen'
    OBVIOUS
  <2>7. QED
    BY <2>1, <2>2, <2>3, <2>4, <2>5, <2>6
<1>16. CASE SpuriousWakeup
  BY <1>16 DEF SpuriousWakeup
<1>17. CASE PushFrame
  <2> USE <1>17 DEF PushFrame
  <2>1. TypeOK'
    <3>1. FlagsOK'
      OBVIOUS
    <3>2. [f |-> aframe, lo |-> 0, hi |-> Size[aframe]] \in Slices
      BY DEF Slices
    <3>3. q_' \in Seq(Slices) /\ accepted' \in Seq(Frames)
      BY <3>2
    <3>4. DataOK'
      BY <3>2, <3>3
    <3>5. QED
      BY <3>1, <3>4
  <2>2. HandsFull'
    OBVIOUS
  <2>3. WorkerInSession'
    OBVIOUS
  <2>4. OneInFlight'
    OBVIOUS
  <2>5. PacedByAck'
    OBVIOUS
  <2>6. AckSeen'
    OBVIOUS
  <2>7. QED
    BY <2>1, <2>2, <2>3, <2>4, <2>5, <2>6
<1>18. CASE NotifyFrame
  BY <1>18 DEF NotifyFrame
<1>19. CASE CheckPointer
  BY <1>19 DEF CheckPointer
<1>20. CASE WrappedCall
  BY <1>20 DEF WrappedCall
<1>21. CASE AbortData
  <2> USE <1>21 DEF AbortData, Complete
  <2>1. TypeOK'
    OBVIOUS
  <2>2. HandsFull'
    OBVIOUS
  <2>3. WorkerInSession'
    OBVIOUS
  <2>4. OneInFlight'
    OBVIOUS
  <2>5. PacedByAck'
    OBVIOUS
  <2>6. AckSeen'
    OBVIOUS
  <2>7. QED
    BY <2>1, <2>2, <2>3, <2>4, <2>5, <2>6
<1>22. CASE ModemCompletes
  <2> USE <1>22 DEF ModemCompletes, Complete
  <2>1. TypeOK'
    OBVIOUS
  <2>2. HandsFull'
    OBVIOUS
  <2>3. WorkerInSession'
    OBVIOUS
  <2>4. OneInFlight'
    OBVIOUS
  <2>5. PacedByAck'
    OBVIOUS
  <2>6. AckSeen'
    OBVIOUS
  <2>7. QED
    BY <2>1, <2>2, <2>3, <2>4, <2>5, <2>6
<1>23. CASE OnDataAckStore
  <2> USE <1>23 DEF OnDataAckStore
  <2>1. TypeOK'
    <3>1. FlagsOK'
      OBVIOUS
    <3>2. DataOK'
      OBVIOUS
    <3>3. QED
      BY <3>1, <3>2
  <2>2. HandsFull'
    OBVIOUS
  <2>3. WorkerInSession'
    OBVIOUS
  <2>4. OneInFlight'
    OBVIOUS
  <2>5. PacedByAck'
    OBVIOUS
  <2>6. AckSeen'
    OBVIOUS
  <2>7. QED
    BY <2>1, <2>2, <2>3, <2>4, <2>5, <2>6
<1>24. CASE OnDataAckNotify
  BY <1>24 DEF OnDataAckNotify
<1>25. CASE OnServiceChange
  BY <1>25 DEF OnServiceChange
<1>26. CASE OnCapabilitiesChange
  BY <1>26 DEF OnCapabilitiesChange
<1>27. CASE InitCall
  <2> USE <1>27 DEF InitCall
  <2>1. TypeOK'
    <3>1. FlagsOK'
      OBVIOUS
    <3>2. DataOK'
      OBVIOUS
    <3>3. QED
      BY <3>1, <3>2
  <2>2. HandsFull'
    OBVIOUS
  <2>3. WorkerInSession'
    OBVIOUS
  <2>4. OneInFlight'
    OBVIOUS
  <2>5. PacedByAck'
    OBVIOUS
  <2>6. AckSeen'
    OBVIOUS
  <2>7. QED
    BY <2>1, <2>2, <2>3, <2>4, <2>5, <2>6
<1>28. CASE InitAcquire
  <2> USE <1>28 DEF InitAcquire
  <2>1. TypeOK'
    <3>1. FlagsOK'
      OBVIOUS
    <3>2. DataOK'
      OBVIOUS
    <3>3. QED
      BY <3>1, <3>2
  <2>2. HandsFull'
    OBVIOUS
  <2>3. WorkerInSession'
    OBVIOUS
  <2>4. OneInFlight'
    OBVIOUS
  <2>5. PacedByAck'
    OBVIOUS
  <2>6. AckSeen'
    OBVIOUS
  <2>7. QED
    BY <2>1, <2>2, <2>3, <2>4, <2>5, <2>6
<1>29. CASE InitRegister
  <2> USE <1>29 DEF InitRegister
  <2>1. TypeOK'
    <3>1. FlagsOK'
      OBVIOUS
    <3>2. DataOK'
      OBVIOUS
    <3>3. QED
      BY <3>1, <3>2
  <2>2. HandsFull'
    OBVIOUS
  <2>3. WorkerInSession'
    OBVIOUS
  <2>4. OneInFlight'
    OBVIOUS
  <2>5. PacedByAck'
    OBVIOUS
  <2>6. AckSeen'
    OBVIOUS
  <2>7. QED
    BY <2>1, <2>2, <2>3, <2>4, <2>5, <2>6
<1>30. CASE InitCapabilities
  BY <1>30 DEF InitCapabilities
<1>31. CASE InitGate
  BY <1>31 DEF InitGate
<1>32. CASE InitRun
  BY <1>32 DEF InitRun
<1>33. CASE StartWorker
  BY <1>33 DEF StartWorker
<1>34. CASE ShutdownCall
  BY <1>34 DEF ShutdownCall
<1>35. CASE StopStore
  <2> USE <1>35 DEF StopStore
  <2>1. TypeOK'
    <3>1. FlagsOK'
      OBVIOUS
    <3>2. DataOK'
      OBVIOUS
    <3>3. QED
      BY <3>1, <3>2
  <2>2. HandsFull'
    OBVIOUS
  <2>3. WorkerInSession'
    OBVIOUS
  <2>4. OneInFlight'
    OBVIOUS
  <2>5. PacedByAck'
    OBVIOUS
  <2>6. AckSeen'
    OBVIOUS
  <2>7. QED
    BY <2>1, <2>2, <2>3, <2>4, <2>5, <2>6
<1>36. CASE StopNotify
  BY <1>36 DEF StopNotify
<1>37. CASE StopJoin
  BY <1>37 DEF StopJoin
<1>38. CASE StopDrain
  <2> USE <1>38 DEF StopDrain
  <2>1. TypeOK'
    <3>1. FlagsOK'
      OBVIOUS
    <3>2. \A i \in 1 .. Len(q_) : [slice |-> q_[i], why |-> "stopped"] \in [slice : Slices, why : Reasons]
      BY DEF Reasons
    <3>3. lost' \subseteq [slice : Slices, why : Reasons]
      BY <3>2
    <3>4. DataOK'
      BY <3>2, <3>3
    <3>5. QED
      BY <3>1, <3>4
  <2>2. HandsFull'
    OBVIOUS
  <2>3. WorkerInSession'
    OBVIOUS
  <2>4. OneInFlight'
    OBVIOUS
  <2>5. PacedByAck'
    OBVIOUS
  <2>6. AckSeen'
    OBVIOUS
  <2>7. QED
    BY <2>1, <2>2, <2>3, <2>4, <2>5, <2>6
<1>39. CASE ShutdownRelease
  <2> USE <1>39 DEF ShutdownRelease
  <2>1. TypeOK'
    <3>1. FlagsOK'
      BY ZenonT(60)
    <3>2. DataOK'
      BY SMTT(30)
    <3> QED BY <3>1, <3>2
  <2>2. HandsFull'
    OBVIOUS
  <2>3. WorkerInSession'
    OBVIOUS
  <2>4. OneInFlight'
    OBVIOUS
  <2>5. PacedByAck'
    OBVIOUS
  <2>6. AckSeen'
    OBVIOUS
  <2>7. QED
    BY <2>1, <2>2, <2>3, <2>4, <2>5, <2>6
<1>40. ASSUME NEW f \in Frames, SendAudioFrame(f) PROVE IInv'
  BY <1>40 DEF SendAudioFrame
<1>41. CASE UNCHANGED vars
  BY <1>41 DEF vars
<1>42. QED
  BY <1>1, <1>2, <1>3, <1>4, <1>5, <1>6, <1>7, <1>8, <1>9, <1>10, <1>11, <1>12, <1>13, <1>14, <1>15, <1>16, <1>17, <1>18, <1>19, <1>20, <1>21, <1>22, <1>23, <1>24, <1>25, <1>26, <1>27, <1>28, <1>29, <1>30, <1>31, <1>32, <1>33, <1>34, <1>35, <1>36, <1>37, <1>38, <1>39, <1>40, <1>41 DEF Next, Worker, App, TelSdk, Control, InInit, InStop

-----------------------------------------------------------------------------

THEOREM Invariance == Spec => []IInv
BY InitInv, NextInv, PTL DEF Spec

\* Every variable keeps its type, for any frames, sizes and MTUs.
THEOREM TypeCorrect == Spec => []TypeOK
<1>1. IInv => TypeOK
  BY DEF IInv
<1>2. QED
  BY <1>1, Invariance, PTL

\* "Only one in-flight PDU at a time": sendData() is never called while a chunk
\* is unacknowledged, in any session and whatever is aborted or rejected.
THEOREM OneInFlightAlways == Spec => []OneInFlight
<1>1. IInv => OneInFlight
  BY DEF IInv
<1>2. QED
  BY <1>1, Invariance, PTL

\* sendChunk_() never goes through a null ntn_: shutdown() has joined the worker
\* before it deregisters and resets.
THEOREM WorkerHasManagerAlways == Spec => []WorkerHasManager
<1>1. IInv => WorkerHasManager
  BY DEF IInv, WorkerInSession, WorkerHasManager, WorkerAlive
<1>2. QED
  BY <1>1, Invariance, PTL

-----------------------------------------------------------------------------
(* A session has a worker: a second invariant, inductive relative to IInv.  *)

\* How far init() and shutdown() have come, and what is there at that point.
\* running_ is cleared only by shutdown(), so the worker cannot leave before it.
SessionInv ==
    /\ listening => ntn_
    /\ ready => ntn_
    /\ cpc = "acquire" => ~ntn_
    /\ cpc \in {"acquire", "register", "caps", "gate", "run", "spawn"} => ~ready
    /\ cpc = "register" => ~listening
    /\ cpc = "spawn" => running_
    /\ cpc = "idle" /\ listening => wpc # "none"
    /\ cpc \in {"idle", "stop"} /\ wpc # "none" => running_ /\ wpc # "exited"

LEMMA SessionStep == IInv /\ SessionInv /\ [Next]_vars => SessionInv'
<1> SUFFICES ASSUME IInv, SessionInv, [Next]_vars PROVE SessionInv'
  OBVIOUS
<1>0. FlagsOK /\ wpc \in WorkerPCs /\ WorkerInSession
  BY DEF IInv, TypeOK, DataOK
<1> USE <1>0 DEF SessionInv, svc, wrk, app, ctl, modem, hist
<1>1. CASE Worker \/ SpuriousWakeup
  <2>1. UNCHANGED <<ntn_, listening, cpc, ready>>
    BY <1>1 DEF Worker, SpuriousWakeup, WorkerStart, WorkerWait, WorkerBlock,
                WorkerWoken, WorkerLoadMtu, WorkerProbeMtu, WorkerStoreMtu, WorkerArm,
                WorkerSendAccepted, WorkerSendRejected, WorkerDisarm, WorkerRequeue,
                WorkerAckWait, WorkerAckBlock, WorkerAckWoken
  <2>2. wpc # "none" /\ wpc' # "none" /\ (wpc' = "exited" => ~running_)
    BY <1>1, NotifiedTypes
       DEF Worker, SpuriousWakeup, WorkerAsleep, WorkerStart, WorkerWait, WorkerBlock,
           WorkerWoken, WorkerLoadMtu, WorkerProbeMtu, WorkerStoreMtu, WorkerArm,
           WorkerSendAccepted, WorkerSendRejected, WorkerDisarm, WorkerRequeue,
           WorkerAckWait, WorkerAckBlock, WorkerAckWoken
  <2>3. running_' = running_ \/ running_' = TRUE
    BY <1>1 DEF Worker, SpuriousWakeup, WorkerStart, WorkerWait, WorkerBlock,
                WorkerWoken, WorkerLoadMtu, WorkerProbeMtu, WorkerStoreMtu, WorkerArm,
                WorkerSendAccepted, WorkerSendRejected, WorkerDisarm, WorkerRequeue,
                WorkerAckWait, WorkerAckBlock, WorkerAckWoken
  <2>4. QED
    BY <2>1, <2>2, <2>3
<1>2. CASE App \/ TelSdk
  <2>1. UNCHANGED <<ntn_, listening, running_, cpc, ready>>
    BY <1>2 DEF App, SendAudioFrame, PushFrame, NotifyFrame, CheckPointer, WrappedCall,
                AbortData, TelSdk, ModemCompletes, OnDataAckStore, OnDataAckNotify,
                OnServiceChange, OnCapabilitiesChange
  <2>2. (wpc' = "none" <=> wpc = "none") /\ (wpc' = "exited" <=> wpc = "exited")
    BY <1>2, NotifiedTypes
       DEF App, SendAudioFrame, PushFrame, NotifyFrame, CheckPointer, WrappedCall,
           AbortData, TelSdk, ModemCompletes, OnDataAckStore, OnDataAckNotify,
           OnServiceChange, OnCapabilitiesChange
  <2>3. QED
    BY <2>1, <2>2
<1>3. CASE InitCall \/ InInit
  BY <1>3 DEF InitCall, InInit, InitAcquire, InitRegister, InitCapabilities, InitGate,
              InitRun, StartWorker, WorkerInSession, FlagsOK
<1>4. CASE ShutdownCall \/ InStop
  BY <1>4, NotifiedTypes
     DEF ShutdownCall, InStop, StopStore, StopNotify, StopJoin, StopDrain,
         ShutdownRelease, WorkerInSession, FlagsOK
<1>5. CASE UNCHANGED vars
  BY <1>5 DEF vars
<1>6. QED
  BY <1>1, <1>2, <1>3, <1>4, <1>5 DEF Next, Control

\* Between init() and shutdown() a registered listener comes with a live worker
\* that nobody has told to stop, and a true result of init() with a manager.
THEOREM SessionHasWorkerAlways == Spec => []SessionHasWorker
<1>1. Init => SessionInv
  BY DEF Init, SessionInv
<1>2. SessionInv => SessionHasWorker
  BY DEF SessionInv, SessionHasWorker, WorkerAlive
<1>3. QED
  BY <1>1, <1>2, SessionStep, Invariance, PTL DEF Spec

-----------------------------------------------------------------------------
(* Where the bytes are: a third invariant, inductive relative to IInv.      *)

\* A frame is cut from its front.  What was cut off is gone: sent, or given up.
\* What is left is one piece, in the queue or in the worker's hands.
Gone   == {sent[i] : i \in 1 .. Len(sent)} \cup {l.slice : l \in lost}
Queued == {q_[i] : i \in 1 .. Len(q_)}
Pushed == {accepted[i] : i \in 1 .. Len(accepted)}

\* Every call of sendAudioFrame() brings a frame of its own.
FramesOnce ==
    /\ \A i, j \in 1 .. Len(accepted) : accepted[i] = accepted[j] => i = j
    /\ apc = "push" => aframe \notin Pushed

\* The worker has an MTU when it cuts.
MtuKnown == wpc \in {"store", "arm", "send", "reject", "requeue", "ackwait", "ackblock",
                     "ackasleep", "ackwoken"} => m > 0

\* A piece is a range of its frame, and only what the worker holds may be empty.
RangesOK ==
    /\ \A p \in Gone \cup Queued : p.lo < p.hi
    /\ wpc \in {"mtu", "probe", "store", "arm", "send", "reject"} => cur.lo < cur.hi
    /\ \A p \in Gone \cup Queued \cup Unsent :
         p \in Slices /\ p.f \in Pushed /\ p.lo <= p.hi /\ p.hi <= Size[p.f]

\* One piece is left of a frame.
OneLeft ==
    /\ \A i, j \in 1 .. Len(q_) : q_[i].f = q_[j].f => i = j
    /\ \A p \in Queued, r \in Unsent : p.f # r.f

\* What is left begins behind what is gone; what is gone does not overlap.
CutFromFront ==
    /\ \A p \in Gone, r \in Queued \cup Unsent : p.f = r.f => p.hi <= r.lo
    /\ \A p, r \in Gone : p.f = r.f => p = r \/ p.hi <= r.lo \/ r.hi <= p.lo

Covered ==
    \A f \in Pushed : \A b \in 0 .. Size[f] - 1 :
        \E p \in Gone \cup Queued \cup Unsent : p.f = f /\ p.lo <= b /\ b < p.hi

PiecesInv == FramesOnce /\ MtuKnown /\ RangesOK /\ OneLeft /\ CutFromFront /\ Covered /\ NoByteTwice

\* The frames none of whose chunks was rejected leave the queue in the order in which
\* they were pushed.
Rejected == {l.slice.f : l \in {l \in lost : l.why = "rejected"}}
InOrder  == {p \in Frames \X Frames : {p[1], p[2]} \cap Rejected = {} => Before(p[1], p[2])}

QueueInOrder ==
    /\ \A i, j \in 1 .. Len(q_) : i < j => <<q_[i].f, q_[j].f>> \in InOrder
    /\ \A r \in Unsent, p \in Queued : <<r.f, p.f>> \in InOrder
    /\ \A i \in 1 .. Len(sent), p \in Queued \cup Unsent :
         sent[i].f = p.f \/ <<sent[i].f, p.f>> \in InOrder
    /\ wpc = "requeue" => cur.f \in Rejected

OrderInv == QueueInOrder /\ OrderOfUnrejected

\* The program counters with an uncut slice in hand, and with a cut one.
ToCut == {"mtu", "probe", "store", "arm", "send", "reject"}
IsCut == {"requeue", "ackwait", "ackblock", "ackasleep", "ackwoken"}

LEMMA UnsentCases ==
    /\ wpc \in ToCut => Unsent = {cur}
    /\ wpc \in IsCut => Unsent = {Remainder}
    /\ wpc \notin ToCut \cup IsCut => Unsent = {}
BY DEF Unsent, ToCut, IsCut

LEMMA UnsentCasesNext ==
    /\ wpc' \in ToCut => Unsent' = {cur'}
    /\ wpc' \in IsCut => Unsent' = {Remainder'}
    /\ wpc' \notin ToCut \cup IsCut => Unsent' = {}
BY DEF Unsent, ToCut, IsCut

\* The chunk and what is behind it are the slice.
LEMMA CutInTwo ==
    ASSUME cur \in Slices, m \in Nat, m > 0, cur.lo < cur.hi
    PROVE  /\ Chunk.f = cur.f /\ Chunk.lo = cur.lo /\ Chunk.lo < Chunk.hi /\ Chunk.hi <= cur.hi
           /\ Remainder.f = cur.f /\ Remainder.lo = Chunk.hi /\ Remainder.hi = cur.hi
           /\ Chunk \in Slices /\ Remainder \in Slices
BY DEF Slices, Chunk, Remainder

\* The elements of a queue, when one is added and when the first is taken.
LEMMA ElementsAppend ==
    ASSUME NEW S, NEW s \in Seq(S), NEW x \in S
    PROVE  {Append(s, x)[i] : i \in 1 .. Len(Append(s, x))} = {s[i] : i \in 1 .. Len(s)} \cup {x}
<1>1. /\ Len(Append(s, x)) = Len(s) + 1 /\ Len(s) \in Nat /\ Append(s, x)[Len(s) + 1] = x
      /\ \A k \in 1 .. Len(s) : Append(s, x)[k] = s[k]
  OBVIOUS
<1>2. 1 .. Len(s) + 1 = (1 .. Len(s)) \cup {Len(s) + 1}
  BY <1>1
<1> QED BY <1>1, <1>2

LEMMA ElementsTail ==
    ASSUME NEW S, NEW s \in Seq(S), s # <<>>
    PROVE  {s[i] : i \in 1 .. Len(s)} = {Tail(s)[i] : i \in 1 .. Len(Tail(s))} \cup {Head(s)}
<1>1. /\ Head(s) = s[1] /\ Len(s) \in Nat \ {0} /\ Len(Tail(s)) = Len(s) - 1
      /\ \A k \in 1 .. Len(s) - 1 : Tail(s)[k] = s[k + 1]
  OBVIOUS
<1>2. ASSUME NEW k \in 1 .. Len(s) PROVE s[k] = Head(s) \/ \E j \in 1 .. Len(s) - 1 : s[k] = Tail(s)[j]
  <2>1. CASE k # 1
    <3>1. k - 1 \in 1 .. Len(s) - 1 /\ Tail(s)[k - 1] = s[k]
      BY <1>1, <2>1
    <3> QED BY <3>1
  <2> QED BY <1>1, <2>1
<1>3. ASSUME NEW j \in 1 .. Len(s) - 1 PROVE \E k \in 1 .. Len(s) : Tail(s)[j] = s[k]
  <2>1. j + 1 \in 1 .. Len(s)
    BY <1>1
  <2> QED BY <1>1, <2>1
<1>4. \E k \in 1 .. Len(s) : Head(s) = s[k]
  BY <1>1
<1> DEFINE t == Tail(s)
           h == Head(s)
           A == {s[i] : i \in 1 .. Len(s)}
           B == {t[i] : i \in 1 .. Len(t)}
<1>5. Len(t) = Len(s) - 1
  BY <1>1
<1> HIDE DEF t, h
<1>6. A \subseteq B \cup {h}
  <2> SUFFICES ASSUME NEW k \in 1 .. Len(s) PROVE s[k] \in B \cup {h}
    OBVIOUS
  <2> QED BY <1>2, <1>5 DEF t, h
<1>7. B \subseteq A
  <2> SUFFICES ASSUME NEW j \in 1 .. Len(t) PROVE t[j] \in A
    OBVIOUS
  <2>1. j \in 1 .. Len(s) - 1
    BY <1>5
  <2> QED BY <1>3, <2>1 DEF t
<1>8. h \in A
  BY <1>4 DEF h
<1> HIDE DEF A, B
<1>9. A = B \cup {h}
  BY <1>6, <1>7, <1>8
<1> QED BY <1>9 DEF A, B, t, h

\* A step that moves no piece.
LEMMA NothingMoved ==
    ASSUME PiecesInv, UNCHANGED <<q_, cur, sent, lost, accepted>>,
           wpc \in ToCut <=> wpc' \in ToCut, wpc \in IsCut <=> wpc' \in IsCut,
           wpc \in IsCut => m' = m, MtuKnown', FramesOnce'
    PROVE  PiecesInv' /\ Unsent' = Unsent
<1>1. Gone' = Gone /\ Queued' = Queued /\ Pushed' = Pushed
  BY DEF Gone, Queued, Pushed
<1>2. Unsent' = Unsent
  BY UnsentCases, UnsentCasesNext DEF Chunk, Remainder
<1>3. RangesOK'
  BY <1>1, <1>2 DEF PiecesInv, RangesOK, ToCut
<1>4. OneLeft' /\ CutFromFront' /\ Covered' /\ NoByteTwice'
  BY <1>1, <1>2 DEF PiecesInv, OneLeft, CutFromFront, Covered, NoByteTwice
<1> QED BY <1>2, <1>3, <1>4 DEF PiecesInv

\* Most steps move no piece.
LEMMA QuietSteps ==
    ASSUME IInv, PiecesInv, [Next]_vars,
           ~WorkerWoken, ~WorkerSendAccepted, ~WorkerDisarm, ~WorkerRequeue, ~WorkerAckWoken,
           ~PushFrame, ~StopDrain
    PROVE  /\ UNCHANGED <<q_, cur, sent, lost, accepted>>
           /\ wpc \in ToCut <=> wpc' \in ToCut
           /\ wpc \in IsCut <=> wpc' \in IsCut
           /\ wpc \in IsCut => m' = m
           /\ MtuKnown' /\ FramesOnce' /\ (wpc' = "requeue" => wpc = "requeue")
<1>0. wpc \in WorkerPCs /\ mtu_ \in Nat /\ m \in Nat /\ MtuKnown /\ FramesOnce
  BY DEF IInv, TypeOK, DataOK, PiecesInv
<1> USE <1>0, MtuAssumption
    DEF svc, wrk, app, ctl, modem, hist, ToCut, IsCut, MtuKnown, FramesOnce, Pushed
<1>1. CASE Worker
  BY <1>1 DEF Worker, WorkerStart, WorkerWait, WorkerBlock, WorkerLoadMtu, WorkerProbeMtu,
              WorkerStoreMtu, WorkerArm, WorkerSendRejected, WorkerAckWait, WorkerAckBlock
<1>2. CASE SpuriousWakeup
  BY <1>2, NotifiedTypes DEF SpuriousWakeup
<1>3. CASE App
  BY <1>3, NotifiedTypes DEF App, SendAudioFrame, NotifyFrame, CheckPointer, WrappedCall, AbortData, Complete
<1>4. CASE TelSdk
  BY <1>4, NotifiedTypes DEF TelSdk, ModemCompletes, OnDataAckStore, OnDataAckNotify, OnServiceChange,
                             OnCapabilitiesChange
<1>5. CASE Control
  BY <1>5, NotifiedTypes
     DEF Control, InitCall, InInit, InitAcquire, InitRegister, InitCapabilities, InitGate, InitRun,
         StartWorker, ShutdownCall, InStop, StopStore, StopNotify, StopJoin, ShutdownRelease, WorkerAlive
<1>6. CASE UNCHANGED vars
  BY <1>6 DEF vars
<1> QED BY <1>1, <1>2, <1>3, <1>4, <1>5, <1>6 DEF Next

\* A piece is cut in two, and the front of it is gone.
LEMMA CutKeepsPieces ==
    ASSUME IInv, PiecesInv, wpc \in {"send", "reject"}, wpc' \in IsCut,
           UNCHANGED <<q_, cur, m, accepted, apc, aframe>>, Gone' = Gone \cup {Chunk}, NoByteTwice'
    PROVE  PiecesInv'
<1>1. cur \in Slices /\ m \in Nat /\ m > 0 /\ cur.lo < cur.hi /\ Unsent = {cur} /\ Unsent' = {Remainder}
  <2>1. Remainder' = Remainder
    BY DEF Remainder, Chunk
  <2> QED BY <2>1, UnsentCases, UnsentCasesNext
          DEF IInv, TypeOK, DataOK, HandsFull, PiecesInv, MtuKnown, RangesOK, ToCut
<1>2. /\ Chunk.f = cur.f /\ Chunk.lo = cur.lo /\ Chunk.lo < Chunk.hi /\ Chunk.hi <= cur.hi
      /\ Remainder.f = cur.f /\ Remainder.lo = Chunk.hi /\ Remainder.hi = cur.hi
      /\ Chunk \in Slices /\ Remainder \in Slices
  BY <1>1, CutInTwo
<1>3. Queued' = Queued /\ Pushed' = Pushed
  BY DEF Queued, Pushed
<1>4. /\ cur.lo \in Nat /\ cur.hi \in Nat /\ Chunk.hi \in Nat
      /\ \A p \in Gone : p.lo \in Nat /\ p.hi \in Nat /\ (p.f = cur.f => p.hi <= cur.lo)
      /\ \A p \in Queued : p.f # cur.f
      /\ cur.f \in Pushed /\ cur.hi <= Size[cur.f] /\ Size[cur.f] \in Nat
  <2>1. \A p \in Slices : p.f \in Frames /\ p.lo \in Nat /\ p.hi \in Nat
    BY DEF Slices
  <2> QED BY <1>1, <1>2, <2>1, FramesAssumption DEF PiecesInv, RangesOK, OneLeft, CutFromFront
<1>5. RangesOK'
  <2>1. wpc' \notin {"mtu", "probe", "store", "arm", "send", "reject"}
    BY DEF IsCut
  <2> QED BY <1>1, <1>2, <1>3, <1>4, <2>1 DEF PiecesInv, RangesOK
<1>6. OneLeft'
  BY <1>1, <1>2, <1>3 DEF PiecesInv, OneLeft
<1>7. CutFromFront'
  BY <1>1, <1>2, <1>3, <1>4 DEF PiecesInv, CutFromFront
<1>8. Covered'
  <2> SUFFICES ASSUME NEW f \in Pushed, NEW b \in 0 .. Size[f] - 1
               PROVE  \E p \in Gone' \cup Queued' \cup Unsent' : p.f = f /\ p.lo <= b /\ b < p.hi
    BY <1>3 DEF Covered
  <2>1. PICK p \in Gone \cup Queued \cup Unsent : p.f = f /\ p.lo <= b /\ b < p.hi
    BY DEF PiecesInv, Covered
  <2>2. CASE p = cur
    <3>1. b < Chunk.hi \/ Chunk.hi <= b
      BY <1>4
    <3> QED BY <1>1, <1>2, <2>1, <2>2, <3>1
  <2> QED BY <1>1, <1>3, <2>1, <2>2
<1>9. FramesOnce' /\ MtuKnown'
  BY <1>1, <1>3 DEF PiecesInv, FramesOnce, MtuKnown
<1> QED BY <1>5, <1>6, <1>7, <1>8, <1>9 DEF PiecesInv

\* The worker takes the first piece.
LEMMA TakeKeepsPieces ==
    ASSUME IInv, PiecesInv, wpc = "woken", wpc' = "mtu", q_ # <<>>, cur' = Head(q_), q_' = Tail(q_),
           UNCHANGED <<accepted, sent, lost, apc, aframe>>
    PROVE  /\ PiecesInv' /\ Unsent = {} /\ Unsent' = {q_[1]} /\ Queued = Queued' \cup {q_[1]}
           /\ Gone' = Gone /\ Pushed' = Pushed
<1>1. q_ \in Seq(Slices) /\ Head(q_) = q_[1] /\ Head(q_) \in Slices /\ Len(q_) \in Nat \ {0}
      /\ Len(Tail(q_)) = Len(q_) - 1 /\ \A k \in 1 .. Len(q_) - 1 : Tail(q_)[k] = q_[k + 1]
  BY DEF IInv, TypeOK, DataOK
<1>2. Unsent = {} /\ Unsent' = {q_[1]}
  BY <1>1, UnsentCases, UnsentCasesNext DEF ToCut, IsCut
<1>3. Gone' = Gone /\ Pushed' = Pushed /\ Queued = Queued' \cup {q_[1]}
  BY <1>1, ElementsTail DEF Gone, Pushed, Queued
<1>4. RangesOK'
  BY <1>1, <1>2, <1>3 DEF PiecesInv, RangesOK
<1>5. OneLeft'
  <2>1. \A k \in 1 .. Len(q_) - 1 : k + 1 \in 1 .. Len(q_)
    BY <1>1
  <2>2. ASSUME NEW i \in 1 .. Len(q_'), NEW j \in 1 .. Len(q_'), q_'[i].f = q_'[j].f PROVE i = j
    <3>1. q_[i + 1].f = q_[j + 1].f /\ i + 1 \in 1 .. Len(q_) /\ j + 1 \in 1 .. Len(q_)
      BY <1>1, <2>1, <2>2
    <3>2. i + 1 = j + 1
      BY <3>1 DEF PiecesInv, OneLeft
    <3> QED BY <1>1, <3>2
  <2>3. ASSUME NEW p \in Queued', NEW t \in Unsent' PROVE p.f # t.f
    <3>1. PICK i \in 1 .. Len(q_) - 1 : p = q_[i + 1]
      BY <1>1, <2>3 DEF Queued
    <3>2. i + 1 \in 1 .. Len(q_) /\ 1 \in 1 .. Len(q_) /\ i + 1 # 1 /\ t = q_[1]
      BY <1>1, <1>2, <2>3
    <3> QED BY <3>1, <3>2 DEF PiecesInv, OneLeft
  <2> QED BY <2>2, <2>3 DEF OneLeft
<1>6. CutFromFront' /\ Covered' /\ NoByteTwice'
  BY <1>2, <1>3 DEF PiecesInv, CutFromFront, Covered, NoByteTwice
<1>7. FramesOnce' /\ MtuKnown'
  BY <1>3 DEF PiecesInv, FramesOnce, MtuKnown
<1> QED BY <1>2, <1>3, <1>4, <1>5, <1>6, <1>7 DEF PiecesInv

\* A piece goes to the end of the queue: a new frame, or the rest of a rejected one.
LEMMA AddKeepsPieces ==
    ASSUME IInv, PiecesInv, NEW x \in Slices, q_' = Append(q_, x), UNCHANGED <<sent, lost>>,
           x.lo < x.hi, x.f \in Pushed', x.hi <= Size[x.f], Pushed \subseteq Pushed',
           \A p \in Queued : p.f # x.f, \A p \in Unsent' : p.f # x.f, Unsent' \subseteq Unsent,
           \A p \in Gone : p.f = x.f => p.hi <= x.lo,
           wpc' \in ToCut => wpc \in ToCut /\ cur' = cur,
           \A f \in Pushed' : \A b \in 0 .. Size[f] - 1 :
               \E p \in Gone \cup Queued \cup Unsent' \cup {x} : p.f = f /\ p.lo <= b /\ b < p.hi,
           FramesOnce', MtuKnown'
    PROVE  PiecesInv' /\ Queued' = Queued \cup {x} /\ Gone' = Gone
<1>1. q_ \in Seq(Slices) /\ Len(q_) \in Nat /\ Len(q_') = Len(q_) + 1 /\ q_'[Len(q_) + 1] = x
      /\ \A k \in 1 .. Len(q_) : q_'[k] = q_[k]
  BY DEF IInv, TypeOK, DataOK
<1>2. Queued' = Queued \cup {x} /\ Gone' = Gone
  BY <1>1, ElementsAppend DEF Queued, Gone
<1>3. RangesOK'
  <2>1. x.lo \in Nat /\ x.hi \in Nat
    BY DEF Slices
  <2> QED BY <1>2, <2>1 DEF PiecesInv, RangesOK, ToCut
<1>4. OneLeft'
  <2>1. ASSUME NEW i \in 1 .. Len(q_'), NEW j \in 1 .. Len(q_'), q_'[i].f = q_'[j].f PROVE i = j
    <3>1. (i \in 1 .. Len(q_) \/ i = Len(q_) + 1) /\ (j \in 1 .. Len(q_) \/ j = Len(q_) + 1)
      BY <1>1
    <3>2. \A k \in 1 .. Len(q_) : q_[k] \in Queued
      BY DEF Queued
    <3> QED BY <1>1, <2>1, <3>1, <3>2 DEF PiecesInv, OneLeft
  <2>2. \A p \in Queued', t \in Unsent' : p.f # t.f
    BY <1>2 DEF PiecesInv, OneLeft
  <2> QED BY <2>1, <2>2 DEF OneLeft
<1>5. CutFromFront' /\ Covered' /\ NoByteTwice'
  <2>1. CutFromFront'
    BY <1>2 DEF PiecesInv, CutFromFront
  <2>2. Covered'
    BY <1>2 DEF Covered
  <2> QED BY <2>1, <2>2 DEF PiecesInv, NoByteTwice
<1> QED BY <1>2, <1>3, <1>4, <1>5 DEF PiecesInv

\* A piece is given up: what is in hand, or the queue.
LEMMA GiveUpKeepsPieces ==
    ASSUME IInv, PiecesInv, UNCHANGED <<sent, accepted, apc, aframe>>,
           NEW X, Gone' = Gone \cup X, \A p \in X : p.lo < p.hi,
           X \subseteq Queued \cup Unsent,
           Queued' \subseteq Queued, q_' = q_ \/ q_' = <<>>, Unsent' \subseteq Unsent,
           \A p \in Queued' \cup Unsent' : p \notin X,
           Queued \cup Unsent \subseteq Queued' \cup Unsent' \cup X \cup {p \in Unsent : p.lo = p.hi},
           wpc' \in ToCut => cur'.lo < cur'.hi, MtuKnown'
    PROVE  PiecesInv'
<1>1. Pushed' = Pushed
  BY DEF Pushed
<1>2. \A p \in Gone \cup Queued \cup Unsent : p.lo \in Nat /\ p.hi \in Nat
  BY DEF PiecesInv, RangesOK, Slices
<1>3. \A p, t \in Queued \cup Unsent : p.f = t.f => p = t
  BY DEF PiecesInv, OneLeft, Queued, Unsent
<1>4. RangesOK'
  BY <1>1 DEF PiecesInv, RangesOK, ToCut
<1>5. OneLeft'
  <2>1. \A i, j \in 1 .. Len(q_') : q_'[i].f = q_'[j].f => i = j
    BY DEF PiecesInv, OneLeft
  <2> QED BY <2>1 DEF PiecesInv, OneLeft
<1>6. CutFromFront'
  BY <1>3 DEF PiecesInv, CutFromFront
<1>7. Covered'
  <2> SUFFICES ASSUME NEW f \in Pushed, NEW b \in 0 .. Size[f] - 1
               PROVE  \E p \in Gone' \cup Queued' \cup Unsent' : p.f = f /\ p.lo <= b /\ b < p.hi
    BY <1>1 DEF Covered
  <2>1. PICK p \in Gone \cup Queued \cup Unsent : p.f = f /\ p.lo <= b /\ b < p.hi
    BY DEF PiecesInv, Covered
  <2>2. p.lo # p.hi
    BY <1>2, <2>1, FramesAssumption
  <2> QED BY <2>1, <2>2
<1>8. FramesOnce' /\ NoByteTwice'
  BY <1>1 DEF PiecesInv, FramesOnce, NoByteTwice
<1> QED BY <1>4, <1>5, <1>6, <1>7, <1>8 DEF PiecesInv

\* The slices given up, when one more is.
LEMMA LostOne ==
    ASSUME NEW L, NEW x, NEW why
    PROVE  {l.slice : l \in L \cup {[slice |-> x, why |-> why]}} = {l.slice : l \in L} \cup {x}
<1>1. [slice |-> x, why |-> why].slice = x
  OBVIOUS
<1> DEFINE e == [slice |-> x, why |-> why]
<1> HIDE DEF e
<1>2. e.slice = x
  BY <1>1 DEF e
<1>3. {l.slice : l \in L \cup {e}} = {l.slice : l \in L} \cup {x}
  BY <1>2, Zenon
<1> QED BY <1>3 DEF e

LEMMA SendKeepsPieces == ASSUME IInv, PiecesInv, WorkerSendAccepted PROVE PiecesInv'
<1> USE DEF WorkerSendAccepted, svc, app, ctl
<1>1. sent \in Seq(Slices) /\ cur \in Slices /\ m \in Nat /\ m > 0 /\ cur.lo < cur.hi /\ Unsent = {cur}
  BY UnsentCases DEF IInv, TypeOK, DataOK, HandsFull, PiecesInv, MtuKnown, RangesOK, ToCut
<1>2. Chunk \in Slices /\ Chunk.lo = cur.lo /\ Chunk.f = cur.f
  BY <1>1, CutInTwo
<1>3. Gone' = Gone \cup {Chunk}
  BY <1>1, <1>2, ElementsAppend DEF Gone
<1>4. NoByteTwice'
  <2> SUFFICES ASSUME NEW i \in 1 .. Len(sent'), NEW j \in 1 .. Len(sent'), i < j, sent'[i].f = sent'[j].f
               PROVE  sent'[i].hi <= sent'[j].lo
    BY DEF NoByteTwice
  <2>1. /\ Len(sent) \in Nat /\ Len(sent') = Len(sent) + 1 /\ sent'[Len(sent) + 1] = Chunk
        /\ \A k \in 1 .. Len(sent) : sent'[k] = sent[k]
    BY <1>1, <1>2
  <2>2. i \in 1 .. Len(sent) /\ (j \in 1 .. Len(sent) \/ j = Len(sent) + 1)
    BY <2>1
  <2>3. CASE j \in 1 .. Len(sent)
    BY <2>1, <2>2, <2>3 DEF PiecesInv, NoByteTwice
  <2>4. CASE j = Len(sent) + 1
    <3>1. sent[i] \in Gone
      BY <2>2 DEF Gone
    <3> QED BY <1>1, <1>2, <2>1, <2>2, <2>4, <3>1 DEF PiecesInv, CutFromFront
  <2> QED BY <2>2, <2>3, <2>4
<1> QED BY <1>3, <1>4, CutKeepsPieces DEF IsCut

LEMMA DisarmKeepsPieces == ASSUME IInv, PiecesInv, WorkerDisarm PROVE PiecesInv'
<1>1. Gone' = Gone \cup {Chunk}
  <2>1. sent' = sent /\ lost' = lost \cup {[slice |-> Chunk, why |-> "rejected"]}
    BY DEF WorkerDisarm
  <2>2. {l.slice : l \in lost'} = {l.slice : l \in lost} \cup {Chunk}
    BY <2>1, LostOne, Zenon
  <2> QED BY <2>1, <2>2, Zenon DEF Gone
<1>2. NoByteTwice'
  BY DEF WorkerDisarm, PiecesInv, NoByteTwice
<1> QED BY <1>1, <1>2, CutKeepsPieces DEF WorkerDisarm, IsCut, app

\* What is behind the chunk in the modem, or behind the rejected one.
LEMMA RestInHand ==
    ASSUME IInv, PiecesInv, wpc \in IsCut
    PROVE  /\ Unsent = {Remainder} /\ Remainder \in Slices /\ Remainder.f = cur.f
           /\ Remainder.lo \in Nat /\ Remainder.hi \in Nat
           /\ Remainder.f \in Pushed /\ Remainder.lo <= Remainder.hi /\ Remainder.hi <= Size[Remainder.f]
           /\ \A p \in Queued : p.f # Remainder.f
           /\ \A p \in Gone : p.f = Remainder.f => p.hi <= Remainder.lo
<1>1. Unsent = {Remainder}
  BY UnsentCases
<1>2. Remainder \in Slices /\ Remainder.f \in Pushed /\ Remainder.lo <= Remainder.hi
      /\ Remainder.hi <= Size[Remainder.f]
  BY <1>1 DEF PiecesInv, RangesOK
<1>3. Remainder.f = cur.f
  BY CutTypes DEF IInv, TypeOK, DataOK, HandsFull, IsCut, Slices, Remainder
<1> QED BY <1>1, <1>2, <1>3 DEF PiecesInv, OneLeft, CutFromFront, Slices

LEMMA RequeueKeepsPieces == ASSUME IInv, PiecesInv, WorkerRequeue PROVE PiecesInv'
<1>1. /\ wpc = "requeue" /\ wpc' = "lock" /\ UNCHANGED <<sent, lost, accepted, apc, aframe>>
      /\ q_' = IF Remainder.lo < Remainder.hi THEN Append(q_, Remainder) ELSE q_
  BY DEF WorkerRequeue, app, hist
<1>2. /\ Unsent = {Remainder} /\ Remainder \in Slices /\ Remainder.f \in Pushed
      /\ Remainder.lo \in Nat /\ Remainder.hi \in Nat /\ Remainder.lo <= Remainder.hi
      /\ Remainder.hi <= Size[Remainder.f] /\ \A p \in Queued : p.f # Remainder.f
      /\ \A p \in Gone : p.f = Remainder.f => p.hi <= Remainder.lo
  BY <1>1, RestInHand DEF IsCut
<1>3. Unsent' = {} /\ MtuKnown' /\ wpc' \notin ToCut
  BY <1>1, UnsentCasesNext DEF ToCut, IsCut, MtuKnown
<1>4. Pushed' = Pushed /\ FramesOnce'
  BY <1>1 DEF Pushed, FramesOnce, PiecesInv
<1>5. CASE Remainder.lo < Remainder.hi
  <2>1. \A f \in Pushed' : \A b \in 0 .. Size[f] - 1 :
          \E p \in Gone \cup Queued \cup Unsent' \cup {Remainder} : p.f = f /\ p.lo <= b /\ b < p.hi
    BY <1>2, <1>4 DEF PiecesInv, Covered
  <2> QED BY <1>1, <1>2, <1>3, <1>4, <1>5, <2>1, AddKeepsPieces
<1>6. CASE Remainder.lo = Remainder.hi
  <2> DEFINE X == {}
  <2>1. Gone' = Gone \cup X /\ Queued' = Queued /\ q_' = q_
    BY <1>1, <1>2, <1>6 DEF Gone, Queued
  <2>2. \A p : p \notin X
    OBVIOUS
  <2> HIDE DEF X
  <2> QED BY <1>1, <1>2, <1>3, <1>6, <2>1, <2>2, GiveUpKeepsPieces
<1> QED BY <1>2, <1>5, <1>6

LEMMA AckKeepsPieces == ASSUME IInv, PiecesInv, WorkerAckWoken PROVE PiecesInv'
<1>1. wpc = "ackwoken" /\ m > 0 /\ UNCHANGED <<q_, m, sent, accepted, apc, aframe>>
  BY DEF WorkerAckWoken, svc, app, PiecesInv, MtuKnown
<1>2. /\ Unsent = {Remainder} /\ Remainder \in Slices /\ Remainder.lo \in Nat /\ Remainder.hi \in Nat
      /\ Remainder.lo <= Remainder.hi /\ \A p \in Queued : p.f # Remainder.f
  BY <1>1, RestInHand DEF IsCut
<1>3. Queued' = Queued /\ MtuKnown'
  BY <1>1 DEF Queued, MtuKnown
<1>4. CASE cur' = Remainder /\ wpc' = "arm" /\ Remainder.lo < Remainder.hi /\ UNCHANGED lost
  <2> DEFINE X == {}
  <2>1. Gone' = Gone \cup X /\ Unsent' = Unsent
    BY <1>1, <1>2, <1>4, UnsentCasesNext DEF Gone, ToCut
  <2>2. \A p : p \notin X
    OBVIOUS
  <2> HIDE DEF X
  <2> QED BY <1>1, <1>3, <1>4, <2>1, <2>2, GiveUpKeepsPieces
<1>5. CASE wpc' \in {"lock", "exited"} /\ Remainder.lo = Remainder.hi /\ UNCHANGED lost
  <2> DEFINE X == {}
  <2>1. Gone' = Gone \cup X /\ Unsent' = {} /\ wpc' \notin ToCut
    BY <1>1, <1>5, UnsentCasesNext DEF Gone, ToCut, IsCut
  <2>2. \A p : p \notin X
    OBVIOUS
  <2> HIDE DEF X
  <2> QED BY <1>1, <1>2, <1>3, <1>5, <2>1, <2>2, GiveUpKeepsPieces
<1>6. CASE /\ wpc' = "exited" /\ Remainder.lo < Remainder.hi
           /\ lost' = lost \cup {[slice |-> Remainder, why |-> "stopped"]}
  <2>1. Gone' = Gone \cup {Remainder}
    <3>1. {l.slice : l \in lost'} = {l.slice : l \in lost} \cup {Remainder}
      BY <1>6, LostOne, Zenon
    <3> QED BY <1>1, <3>1, Zenon DEF Gone
  <2>2. Unsent' = {} /\ wpc' \notin ToCut
    BY <1>6, UnsentCasesNext DEF ToCut, IsCut
  <2> QED BY <1>1, <1>2, <1>3, <1>6, <2>1, <2>2, GiveUpKeepsPieces
<1> QED BY <1>2, <1>4, <1>5, <1>6 DEF WorkerAckWoken

\* The facts about a frame that is pushed.
LEMMA PushKeepsPieces ==
    ASSUME IInv, PiecesInv, PushFrame
    PROVE  /\ PiecesInv' /\ Gone' = Gone /\ Unsent' = Unsent /\ Pushed' = Pushed \cup {aframe}
           /\ Queued' = Queued \cup {[f |-> aframe, lo |-> 0, hi |-> Size[aframe]]}
<1> DEFINE x == [f |-> aframe, lo |-> 0, hi |-> Size[aframe]]
<1>1. /\ apc = "push" /\ apc' = "notify" /\ q_' = Append(q_, x) /\ accepted' = Append(accepted, aframe)
      /\ UNCHANGED <<wpc, cur, m, sent, lost>>
  BY DEF PushFrame, wrk
<1>2. aframe \in Frames /\ accepted \in Seq(Frames) /\ Size[aframe] \in Nat \ {0} /\ aframe \notin Pushed
  BY <1>1, FramesAssumption DEF IInv, TypeOK, DataOK, HandsFull, PiecesInv, FramesOnce
<1>3. Pushed' = Pushed \cup {aframe}
  BY <1>1, <1>2, ElementsAppend DEF Pushed
<1>4. x \in Slices /\ x.lo = 0 /\ x.hi = Size[aframe] /\ x.f = aframe /\ x.lo < x.hi
  BY <1>2 DEF Slices
<1> HIDE DEF x
<1>5. Unsent' = Unsent
  BY <1>1 DEF Unsent, Remainder, Chunk
<1>6. \A p \in Gone \cup Queued \cup Unsent : p.f # aframe
  BY <1>2 DEF PiecesInv, RangesOK
<1>7. FramesOnce' /\ MtuKnown'
  <2>1. /\ Len(accepted) \in Nat /\ Len(accepted') = Len(accepted) + 1
        /\ accepted'[Len(accepted) + 1] = aframe
        /\ \A k \in 1 .. Len(accepted) : accepted'[k] = accepted[k] /\ accepted[k] \in Pushed
    BY <1>1, <1>2 DEF Pushed
  <2>2. \A k \in 1 .. Len(accepted) + 1 : k \in 1 .. Len(accepted) \/ k = Len(accepted) + 1
    BY <2>1
  <2> QED BY <1>1, <1>2, <2>1, <2>2, SMTT(30) DEF PiecesInv, FramesOnce, MtuKnown
<1>8. \A f \in Pushed' : \A b \in 0 .. Size[f] - 1 :
        \E p \in Gone \cup Queued \cup Unsent' \cup {x} : p.f = f /\ p.lo <= b /\ b < p.hi
  <2> SUFFICES ASSUME NEW f \in Pushed', NEW b \in 0 .. Size[f] - 1
               PROVE  \E p \in Gone \cup Queued \cup Unsent' \cup {x} : p.f = f /\ p.lo <= b /\ b < p.hi
    OBVIOUS
  <2>1. CASE f \in Pushed
    BY <1>5, <2>1 DEF PiecesInv, Covered
  <2>2. CASE f = aframe
    BY <1>2, <1>4, <2>2
  <2> QED BY <1>3, <2>1, <2>2
<1>9. PiecesInv' /\ Queued' = Queued \cup {x} /\ Gone' = Gone
  <2>1. x.f \in Pushed' /\ x.hi <= Size[x.f]
    BY <1>2, <1>3, <1>4
  <2> QED BY <1>1, <1>3, <1>4, <1>5, <1>6, <1>7, <1>8, <2>1, AddKeepsPieces
<1> QED BY <1>3, <1>5, <1>9 DEF x

LEMMA DrainKeepsPieces == ASSUME IInv, PiecesInv, StopDrain PROVE PiecesInv'
<1>1. /\ q_' = <<>> /\ UNCHANGED <<wpc, cur, m, sent, accepted, apc, aframe>>
      /\ lost' = lost \cup {[slice |-> q_[i], why |-> "stopped"] : i \in 1 .. Len(q_)}
  BY DEF StopDrain, wrk, app
<1>2. Gone' = Gone \cup Queued
  <2>1. {l.slice : l \in lost'} = {l.slice : l \in lost} \cup Queued
    <3> DEFINE X == {[slice |-> q_[i], why |-> "stopped"] : i \in 1 .. Len(q_)}
    <3>1. (\A x \in X : x.slice \in Queued) /\ \A p \in Queued : \E x \in X : x.slice = p
      <4> DEFINE e(p) == [slice |-> p, why |-> "stopped"]
      <4>1. \A p : e(p).slice = p
        OBVIOUS
      <4>2. X = {e(p) : p \in Queued}
        BY DEF Queued
      <4> HIDE DEF e, X
      <4> QED BY <4>1, <4>2, Zenon
    <3>2. lost' = lost \cup X
      BY <1>1
    <3> HIDE DEF X
    <3> QED BY <3>1, <3>2, Zenon
  <2> QED BY <1>1, <2>1, Zenon DEF Gone
<1>3. Queued' = {} /\ Unsent' = Unsent /\ MtuKnown'
  BY <1>1 DEF Queued, Unsent, Remainder, Chunk, PiecesInv, MtuKnown
<1>4. (\A p \in Queued : p.lo < p.hi) /\ (wpc' \in ToCut => cur'.lo < cur'.hi)
  BY <1>1 DEF PiecesInv, RangesOK, ToCut
<1>5. \A p \in Unsent' : p \notin Queued
  BY <1>3 DEF PiecesInv, OneLeft
<1> QED BY <1>1, <1>2, <1>3, <1>4, <1>5, GiveUpKeepsPieces

LEMMA PiecesNext == IInv /\ PiecesInv /\ [Next]_vars => PiecesInv'
<1> SUFFICES ASSUME IInv, PiecesInv, [Next]_vars PROVE PiecesInv'
  OBVIOUS
<1>1. CASE WorkerWoken
  <2>1. CASE wpc' = "mtu"
    BY <1>1, <2>1, TakeKeepsPieces DEF WorkerWoken, app, hist
  <2>2. CASE wpc' # "mtu"
    <3>1. /\ wpc = "woken" /\ wpc' \in {"lock", "exited"}
          /\ UNCHANGED <<q_, cur, m, sent, lost, accepted, apc, aframe>>
      BY <1>1, <2>2 DEF WorkerWoken, app, hist
    <3>2. MtuKnown' /\ FramesOnce'
      BY <3>1 DEF MtuKnown, FramesOnce, PiecesInv, Pushed
    <3> QED BY <3>1, <3>2, NothingMoved DEF ToCut, IsCut
  <2> QED BY <2>1, <2>2
<1>2. CASE WorkerSendAccepted \/ WorkerDisarm \/ WorkerRequeue \/ WorkerAckWoken \/ PushFrame \/ StopDrain
  BY <1>2, SendKeepsPieces, DisarmKeepsPieces, RequeueKeepsPieces, AckKeepsPieces, PushKeepsPieces,
     DrainKeepsPieces
<1>3. CASE ~(\/ WorkerWoken \/ WorkerSendAccepted \/ WorkerDisarm \/ WorkerRequeue \/ WorkerAckWoken
             \/ PushFrame \/ StopDrain)
  BY <1>3, QuietSteps, NothingMoved
<1> QED BY <1>1, <1>2, <1>3

LEMMA PiecesInit == Init => PiecesInv
<1> SUFFICES ASSUME Init PROVE PiecesInv
  OBVIOUS
<1>1. Gone = {} /\ Queued = {} /\ Pushed = {} /\ Unsent = {}
  BY DEF Init, Gone, Queued, Pushed, Unsent
<1> QED BY <1>1 DEF Init, PiecesInv, FramesOnce, MtuKnown, RangesOK, OneLeft, CutFromFront, Covered, NoByteTwice

LEMMA PiecesInvariance == Spec => []PiecesInv
  BY Invariance, PiecesInit, PiecesNext, PTL DEF Spec

\* No byte is handed to the modem twice and a frame's chunks leave in order, whatever
\* is rejected and put back, acknowledged late, or cut short by shutdown().
THEOREM NoByteTwiceAlways == Spec => []NoByteTwice
<1>1. PiecesInv => NoByteTwice
  BY DEF PiecesInv
<1> QED BY <1>1, PiecesInvariance, PTL

\* workerLoop_() hands over no empty chunk, even if the modem never reports an MTU:
\* with the fallback in place every call moves the offset.
THEOREM NoEmptyChunkAlways == Spec => []NoEmptyChunk
<1>1. PiecesInv => NoEmptyChunk
  BY DEF PiecesInv, RangesOK, Gone, NoEmptyChunk
<1> QED BY <1>1, PiecesInvariance, PTL

\* Every byte of a frame that sendAudioFrame() took is in exactly one place.
THEOREM NothingVanishesEver == Spec => []NothingVanishes
<1>1. ASSUME PiecesInv PROVE NothingVanishes
  <2> SUFFICES ASSUME NEW i \in 1 .. Len(accepted), NEW b \in 0 .. Size[accepted[i]] - 1
               PROVE  Cardinality({p \in Pieces(accepted[i]) : p.lo <= b /\ b < p.hi}) = 1
    BY DEF NothingVanishes
  <2> DEFINE f == accepted[i]
             There == {p \in Pieces(f) : p.lo <= b /\ b < p.hi}
  <2>1. Pieces(f) = {p \in Gone \cup Queued \cup Unsent : p.f = f}
    BY DEF Pieces, Gone, Queued
  <2>2. f \in Pushed
    BY DEF Pushed
  <2>3. PICK x \in Gone \cup Queued \cup Unsent : x.f = f /\ x.lo <= b /\ b < x.hi
    BY <1>1, <2>2 DEF PiecesInv, Covered
  <2>4. ASSUME NEW y \in There PROVE y = x
    <3>1. y \in Gone \cup Queued \cup Unsent /\ y.f = f /\ y.lo <= b /\ b < y.hi
      BY <2>1, <2>4
    <3>2. x.lo \in Nat /\ x.hi \in Nat /\ y.lo \in Nat /\ y.hi \in Nat /\ b \in Int
      BY <1>1, <2>3, <3>1 DEF PiecesInv, RangesOK, Slices
    <3>3. CASE x \in Gone /\ y \in Gone
      BY <1>1, <2>3, <3>1, <3>2, <3>3 DEF PiecesInv, CutFromFront
    <3>4. CASE x \in Gone /\ y \in Queued \cup Unsent
      BY <1>1, <2>3, <3>1, <3>2, <3>4 DEF PiecesInv, CutFromFront
    <3>5. CASE y \in Gone /\ x \in Queued \cup Unsent
      BY <1>1, <2>3, <3>1, <3>2, <3>5 DEF PiecesInv, CutFromFront
    <3>6. CASE x \in Queued \cup Unsent /\ y \in Queued \cup Unsent
      BY <1>1, <2>3, <3>1, <3>6 DEF PiecesInv, OneLeft, Queued, Unsent
    <3> QED BY <2>3, <3>1, <3>3, <3>4, <3>5, <3>6
  <2>5. There = {x}
    BY <2>1, <2>3, <2>4
  <2> QED BY <2>5, FS_Singleton
<1> QED BY <1>1, PiecesInvariance, PTL

-----------------------------------------------------------------------------
(* The order of frames none of whose chunks was rejected.                   *)

LEMMA BeforeIsStrict ==
    ASSUME FramesOnce, NEW f, NEW g, accepted \in Seq(Frames), Before(f, g)
    PROVE  ~Before(g, f) /\ f # g
<1>1. PICK i, j \in 1 .. Len(accepted) : i < j /\ accepted[i] = f /\ accepted[j] = g
  BY DEF Before
<1>2. \A k \in 1 .. Len(accepted) : (accepted[k] = f => k = i) /\ (accepted[k] = g => k = j)
  BY <1>1 DEF FramesOnce
<1> QED BY <1>1, <1>2 DEF Before

LEMMA InOrderMeans ==
    \A f, g \in Frames : <<f, g>> \in InOrder <=> (f \in Rejected \/ g \in Rejected \/ Before(f, g))
BY DEF InOrder

LEMMA InOrderMeansNext ==
    \A f, g \in Frames : <<f, g>> \in InOrder' <=> (f \in Rejected' \/ g \in Rejected' \/ Before(f, g)')
BY DEF InOrder

\* The property in these words.
LEMMA OrderMeans ==
    OrderOfUnrejected <=> \A i, j \in 1 .. Len(sent) :
        Before(sent[i].f, sent[j].f) /\ sent[i].f \notin Rejected /\ sent[j].f \notin Rejected => i < j
BY DEF OrderOfUnrejected, Rejected

LEMMA OrderMeansNext ==
    OrderOfUnrejected' <=> (\A i, j \in 1 .. Len(sent) :
        Before(sent[i].f, sent[j].f) /\ sent[i].f \notin Rejected /\ sent[j].f \notin Rejected => i < j)'
BY OrderMeans, PTL

\* A step that brings no piece to a place from another frame's.
LEMMA OrderStays ==
    ASSUME OrderInv, UNCHANGED <<sent, accepted>>, lost \subseteq lost', q_' = q_ \/ q_' = <<>>,
           Queued' \subseteq Queued, \A r \in Unsent' : \E p \in Unsent : p.f = r.f,
           wpc' = "requeue" => cur'.f \in Rejected'
    PROVE  OrderInv'
<1>1. \A f, g : Before(f, g)' <=> Before(f, g)
  BY DEF Before
<1>2. Rejected \subseteq Rejected'
  BY DEF Rejected
<1>3. InOrder \subseteq InOrder'
  BY <1>1, <1>2 DEF InOrder
<1>4. QueueInOrder'
  <2>1. \A i, j \in 1 .. Len(q_') : i < j => <<q_'[i].f, q_'[j].f>> \in InOrder'
    BY <1>3 DEF OrderInv, QueueInOrder
  <2>2. \A r \in Unsent', p \in Queued' : <<r.f, p.f>> \in InOrder'
    BY <1>3 DEF OrderInv, QueueInOrder
  <2>3. \A i \in 1 .. Len(sent'), p \in Queued' \cup Unsent' :
          sent'[i].f = p.f \/ <<sent'[i].f, p.f>> \in InOrder'
    BY <1>3 DEF OrderInv, QueueInOrder
  <2> QED BY <2>1, <2>2, <2>3 DEF QueueInOrder
<1>5. OrderOfUnrejected'
  BY <1>1, <1>2, OrderMeans, OrderMeansNext DEF OrderInv
<1> QED BY <1>4, <1>5 DEF OrderInv

LEMMA TakeKeepsOrder ==
    ASSUME IInv, PiecesInv, OrderInv, WorkerWoken, wpc' = "mtu" PROVE OrderInv'
<1>1. /\ q_ # <<>> /\ cur' = Head(q_) /\ q_' = Tail(q_) /\ wpc = "woken"
      /\ UNCHANGED <<accepted, sent, lost, apc, aframe>>
  BY DEF WorkerWoken, app, hist
<1>2. Unsent' = {q_[1]} /\ Queued = Queued' \cup {q_[1]}
  BY <1>1, TakeKeepsPieces
<1>3. /\ Len(q_) \in Nat \ {0} /\ Len(q_') = Len(q_) - 1
      /\ \A k \in 1 .. Len(q_) - 1 : q_'[k] = q_[k + 1] /\ k + 1 \in 1 .. Len(q_)
  BY <1>1 DEF IInv, TypeOK, DataOK
<1>4. InOrder' = InOrder
  BY <1>1 DEF InOrder, Rejected, Before
<1>5. \A i, j \in 1 .. Len(q_') : i < j => <<q_'[i].f, q_'[j].f>> \in InOrder
  <2> SUFFICES ASSUME NEW i \in 1 .. Len(q_'), NEW j \in 1 .. Len(q_'), i < j
               PROVE  <<q_'[i].f, q_'[j].f>> \in InOrder
    OBVIOUS
  <2>1. /\ i + 1 \in 1 .. Len(q_) /\ j + 1 \in 1 .. Len(q_) /\ i + 1 < j + 1
        /\ q_'[i] = q_[i + 1] /\ q_'[j] = q_[j + 1]
    BY <1>3
  <2>2. <<q_[i + 1].f, q_[j + 1].f>> \in InOrder
    BY <2>1 DEF OrderInv, QueueInOrder
  <2> QED BY <2>1, <2>2
<1>6. \A p \in Queued' : <<q_[1].f, p.f>> \in InOrder
  <2> SUFFICES ASSUME NEW k \in 1 .. Len(q_) - 1 PROVE <<q_[1].f, q_[k + 1].f>> \in InOrder
    BY <1>3 DEF Queued
  <2>1. 1 \in 1 .. Len(q_) /\ k + 1 \in 1 .. Len(q_) /\ 1 < k + 1
    BY <1>3
  <2> QED BY <2>1 DEF OrderInv, QueueInOrder
<1>7. QueueInOrder'
  BY <1>1, <1>2, <1>4, <1>5, <1>6 DEF OrderInv, QueueInOrder
<1>8. OrderOfUnrejected'
  BY <1>1 DEF OrderInv, OrderOfUnrejected, Before
<1> QED BY <1>7, <1>8 DEF OrderInv

LEMMA SendKeepsOrder == ASSUME IInv, PiecesInv, OrderInv, WorkerSendAccepted PROVE OrderInv'
<1>1. /\ wpc = "send" /\ wpc' = "ackwait" /\ sent' = Append(sent, Chunk)
      /\ UNCHANGED <<q_, cur, m, accepted, lost>>
  BY DEF WorkerSendAccepted, svc
<1>2. /\ sent \in Seq(Slices) /\ accepted \in Seq(Frames) /\ cur \in Slices /\ m \in Nat /\ m > 0
      /\ cur.lo < cur.hi /\ FramesOnce
  BY <1>1 DEF IInv, TypeOK, DataOK, HandsFull, PiecesInv, MtuKnown, RangesOK
<1>3. Chunk \in Slices /\ Chunk.f = cur.f /\ Remainder.f = cur.f
  BY <1>2, CutInTwo
<1>4. Unsent = {cur} /\ Unsent' = {Remainder}
  <2>1. Remainder' = Remainder
    BY <1>1 DEF Remainder, Chunk
  <2> QED BY <1>1, <2>1, UnsentCases, UnsentCasesNext DEF ToCut, IsCut
<1>5. Queued' = Queued /\ InOrder' = InOrder /\ Rejected' = Rejected /\ \A f, g : Before(f, g)' <=> Before(f, g)
  BY <1>1 DEF Queued, InOrder, Rejected, Before
<1>6. /\ Len(sent) \in Nat /\ Len(sent') = Len(sent) + 1 /\ sent'[Len(sent) + 1] = Chunk
      /\ \A k \in 1 .. Len(sent) : sent'[k] = sent[k] /\ sent[k].f \in Frames
      /\ \A k \in 1 .. Len(sent') : k \in 1 .. Len(sent) \/ k = Len(sent) + 1
  <2>1. /\ Len(sent) \in Nat /\ Len(sent') = Len(sent) + 1 /\ sent'[Len(sent) + 1] = Chunk
        /\ \A k \in 1 .. Len(sent) : sent'[k] = sent[k] /\ sent[k] \in Slices
    BY <1>1, <1>2, <1>3
  <2> QED BY <2>1 DEF Slices
<1>7. QueueInOrder'
  <2>1. \A i \in 1 .. Len(sent'), p \in Queued \cup Unsent' :
          sent'[i].f = p.f \/ <<sent'[i].f, p.f>> \in InOrder
    <3> SUFFICES ASSUME NEW i \in 1 .. Len(sent'), NEW p \in Queued \cup Unsent'
                 PROVE  sent'[i].f = p.f \/ <<sent'[i].f, p.f>> \in InOrder
      OBVIOUS
    <3>1. CASE i \in 1 .. Len(sent)
      <4>1. \E t \in Queued \cup Unsent : t.f = p.f
        BY <1>3, <1>4
      <4> QED BY <1>6, <3>1, <4>1 DEF OrderInv, QueueInOrder
    <3>2. CASE i = Len(sent) + 1
      BY <1>3, <1>4, <1>6, <3>2 DEF OrderInv, QueueInOrder
    <3> QED BY <1>6, <3>1, <3>2
  <2>2. \A t \in Unsent', p \in Queued : <<t.f, p.f>> \in InOrder
    BY <1>3, <1>4 DEF OrderInv, QueueInOrder
  <2>3. \A i, j \in 1 .. Len(q_) : i < j => <<q_[i].f, q_[j].f>> \in InOrder
    BY DEF OrderInv, QueueInOrder
  <2> QED BY <1>1, <1>5, <2>1, <2>2, <2>3 DEF QueueInOrder
<1>8. OrderOfUnrejected'
  <2> SUFFICES ASSUME NEW i \in 1 .. Len(sent'), NEW j \in 1 .. Len(sent'),
                      Before(sent'[i].f, sent'[j].f), sent'[i].f \notin Rejected,
                      sent'[j].f \notin Rejected
               PROVE  i < j
    BY <1>1, <1>5, OrderMeansNext DEF Before
  <2>1. CASE i \in 1 .. Len(sent) /\ j \in 1 .. Len(sent)
    BY <1>6, <2>1, OrderMeans DEF OrderInv
  <2>2. CASE i \in 1 .. Len(sent) /\ j = Len(sent) + 1
    BY <1>6, <2>2
  <2>3. CASE i = Len(sent) + 1
    <3>1. sent'[i].f = cur.f /\ cur.f \in Frames
      BY <1>2, <1>3, <1>6, <2>3 DEF Slices
    <3>2. sent'[j].f # cur.f /\ ~Before(sent'[j].f, cur.f)
      BY <1>2, <3>1, BeforeIsStrict
    <3>3. j \in 1 .. Len(sent) /\ sent'[j].f = sent[j].f /\ sent[j].f \in Frames
      BY <1>6, <2>3, <3>1, <3>2
    <3>4. <<sent[j].f, cur.f>> \in InOrder
      BY <1>4, <3>2, <3>3 DEF OrderInv, QueueInOrder
    <3> QED BY <3>1, <3>2, <3>3, <3>4, InOrderMeans
  <2> QED BY <1>6, <2>1, <2>2, <2>3
<1> QED BY <1>7, <1>8 DEF OrderInv

\* A piece goes to the end of the queue: it comes after all others, or its frame has
\* been rejected.
LEMMA AddKeepsOrder ==
    ASSUME OrderInv, q_ \in Seq(Slices), NEW x \in Slices, q_' = Append(q_, x),
           Queued' = Queued \cup {x}, UNCHANGED sent, Unsent' \subseteq Unsent,
           wpc' = "requeue" => cur'.f \in Rejected',
           InOrder \subseteq InOrder', \A p \in Queued \cup Unsent' : <<p.f, x.f>> \in InOrder',
           \A i \in 1 .. Len(sent) : <<sent[i].f, x.f>> \in InOrder'
    PROVE  QueueInOrder'
<1>1. /\ Len(q_) \in Nat /\ Len(q_') = Len(q_) + 1 /\ q_'[Len(q_) + 1] = x
      /\ \A k \in 1 .. Len(q_) : q_'[k] = q_[k] /\ q_[k] \in Queued
  BY DEF Queued
<1>2. ASSUME NEW i \in 1 .. Len(q_'), NEW j \in 1 .. Len(q_'), i < j
      PROVE  <<q_'[i].f, q_'[j].f>> \in InOrder'
  <2>1. i \in 1 .. Len(q_) /\ (j \in 1 .. Len(q_) \/ j = Len(q_) + 1)
    BY <1>1, <1>2
  <2> QED BY <1>1, <1>2, <2>1 DEF OrderInv, QueueInOrder
<1>3. \A t \in Unsent', p \in Queued' : <<t.f, p.f>> \in InOrder'
  BY DEF OrderInv, QueueInOrder
<1>4. \A i \in 1 .. Len(sent'), p \in Queued' \cup Unsent' :
        sent'[i].f = p.f \/ <<sent'[i].f, p.f>> \in InOrder'
  BY DEF OrderInv, QueueInOrder
<1> QED BY <1>2, <1>3, <1>4 DEF QueueInOrder

\* Frames of the pieces.
LEMMA PieceFrames ==
    ASSUME IInv, PiecesInv
    PROVE  /\ \A p \in Queued \cup Unsent : p.f \in Frames /\ p.f \in Pushed
           /\ \A i \in 1 .. Len(sent) : sent[i].f \in Frames /\ sent[i].f \in Pushed
  BY DEF PiecesInv, RangesOK, Slices, Gone

LEMMA RequeueKeepsOrder == ASSUME IInv, PiecesInv, OrderInv, WorkerRequeue PROVE OrderInv'
<1>1. /\ wpc = "requeue" /\ wpc' = "lock" /\ UNCHANGED <<sent, lost, accepted>>
      /\ q_' = IF Remainder.lo < Remainder.hi THEN Append(q_, Remainder) ELSE q_
  BY DEF WorkerRequeue, hist
<1>2. Unsent' = {} /\ q_ \in Seq(Slices)
  BY <1>1, UnsentCasesNext DEF ToCut, IsCut, IInv, TypeOK, DataOK
<1>3. CASE q_' = q_
  BY <1>1, <1>2, <1>3, OrderStays DEF Queued
<1>4. CASE q_' = Append(q_, Remainder)
  <2>1. Remainder \in Slices /\ Remainder.f = cur.f /\ cur.f \in Rejected /\ Remainder.f \in Frames
    BY <1>1, RestInHand DEF IsCut, OrderInv, QueueInOrder, Slices
  <2>2. Queued' = Queued \cup {Remainder}
    BY <1>2, <1>4, <2>1, ElementsAppend DEF Queued
  <2>3. InOrder' = InOrder
    BY <1>1 DEF InOrder, Rejected, Before
  <2>4. \A f \in Frames : <<f, Remainder.f>> \in InOrder
    BY <2>1, InOrderMeans
  <2>5. QueueInOrder'
    BY <1>1, <1>2, <1>4, <2>1, <2>2, <2>3, <2>4, PieceFrames, AddKeepsOrder
  <2>6. OrderOfUnrejected'
    BY <1>1 DEF OrderInv, OrderOfUnrejected, Before
  <2> QED BY <2>5, <2>6 DEF OrderInv
<1> QED BY <1>1, <1>3, <1>4

LEMMA PushKeepsOrder == ASSUME IInv, PiecesInv, OrderInv, PushFrame PROVE OrderInv'
<1> DEFINE x == [f |-> aframe, lo |-> 0, hi |-> Size[aframe]]
<1>1. /\ apc = "push" /\ q_' = Append(q_, x) /\ accepted' = Append(accepted, aframe)
      /\ UNCHANGED <<wpc, cur, m, sent, lost>>
  BY DEF PushFrame, wrk
<1>2. aframe \in Frames /\ accepted \in Seq(Frames) /\ aframe \notin Pushed /\ q_ \in Seq(Slices)
  BY <1>1 DEF IInv, TypeOK, DataOK, HandsFull, PiecesInv, FramesOnce
<1>3. x \in Slices /\ x.f = aframe
  BY <1>2, FramesAssumption DEF Slices
<1>4. Unsent' = Unsent /\ Queued' = Queued \cup {x}
  BY PushKeepsPieces
<1> HIDE DEF x
<1>5. /\ Len(accepted) \in Nat /\ Len(accepted') = Len(accepted) + 1
      /\ accepted'[Len(accepted) + 1] = aframe
      /\ \A k \in 1 .. Len(accepted) : accepted'[k] = accepted[k] /\ accepted[k] \in Pushed
      /\ \A k \in 1 .. Len(accepted') : k \in 1 .. Len(accepted) \/ k = Len(accepted) + 1
  BY <1>1, <1>2 DEF Pushed
<1>6. \A f, g : Before(f, g) => Before(f, g)'
  BY <1>5 DEF Before
<1>7. ASSUME NEW f \in Pushed, NEW g, g = aframe PROVE Before(f, g)'
  <2>0. PICK k \in 1 .. Len(accepted) : accepted[k] = f
    BY <1>7 DEF Pushed
  <2>1. /\ k \in 1 .. Len(accepted') /\ Len(accepted) + 1 \in 1 .. Len(accepted')
        /\ k < Len(accepted) + 1 /\ accepted'[k] = accepted[k]
    BY <1>5
  <2> QED BY <1>5, <1>7, <2>0, <2>1 DEF Before
<1>8. \A f, g : Before(f, g)' /\ g # aframe => Before(f, g)
  BY <1>2, <1>5 DEF Before
<1>9. Rejected' = Rejected
  BY <1>1 DEF Rejected
<1>10. InOrder \subseteq InOrder' /\ \A f \in Frames \cap Pushed : <<f, aframe>> \in InOrder'
  <2>1. InOrder \subseteq InOrder'
    BY <1>6, <1>9 DEF InOrder
  <2> QED BY <1>2, <1>7, <2>1, InOrderMeansNext
<1>11. QueueInOrder'
  <2>1. wpc' = "requeue" => cur'.f \in Rejected'
    BY <1>1, <1>9 DEF OrderInv, QueueInOrder
  <2> QED BY <1>1, <1>2, <1>3, <1>4, <1>10, <2>1, PieceFrames, AddKeepsOrder
<1>12. OrderOfUnrejected'
  BY <1>1, <1>2, <1>8, <1>9, PieceFrames, OrderMeans, OrderMeansNext DEF OrderInv
<1> QED BY <1>11, <1>12 DEF OrderInv

LEMMA OrderNext == IInv /\ PiecesInv /\ OrderInv /\ [Next]_vars => OrderInv'
<1> SUFFICES ASSUME IInv, PiecesInv, OrderInv, [Next]_vars PROVE OrderInv'
  OBVIOUS
<1>1. CASE WorkerWoken /\ wpc' # "mtu"
  <2>1. wpc = "woken" /\ wpc' \in {"lock", "exited"} /\ UNCHANGED <<q_, sent, lost, accepted>>
    BY <1>1 DEF WorkerWoken, hist
  <2>2. Unsent' = {}
    BY <2>1, UnsentCasesNext DEF ToCut, IsCut
  <2> QED BY <2>1, <2>2, OrderStays DEF Queued
<1>2. CASE WorkerDisarm
  <2>1. /\ wpc = "reject" /\ wpc' = "requeue" /\ UNCHANGED <<q_, cur, m, sent, accepted>>
        /\ lost' = lost \cup {[slice |-> Chunk, why |-> "rejected"]}
    BY <1>2 DEF WorkerDisarm
  <2>2. cur \in Slices /\ m \in Nat
    BY <2>1 DEF IInv, TypeOK, DataOK, HandsFull
  <2>3. Chunk.f = cur.f /\ Remainder.f = cur.f
    BY <2>2 DEF Slices, Chunk, Remainder
  <2>4. Unsent = {cur} /\ Unsent' = {Remainder}
    <3>1. Remainder' = Remainder
      BY <2>1 DEF Remainder, Chunk
    <3> QED BY <2>1, <3>1, UnsentCases, UnsentCasesNext DEF ToCut, IsCut
  <2>5. cur'.f \in Rejected'
    <3> DEFINE e == [slice |-> Chunk, why |-> "rejected"]
    <3>1. e \in lost' /\ e.why = "rejected" /\ e.slice = Chunk
      BY <2>1
    <3> HIDE DEF e
    <3> QED BY <2>1, <2>3, <3>1 DEF Rejected
  <2> QED BY <2>1, <2>3, <2>4, <2>5, OrderStays DEF Queued
<1>3. CASE WorkerAckWoken
  <2>1. /\ wpc = "ackwoken" /\ UNCHANGED <<q_, sent, accepted>> /\ lost \subseteq lost'
        /\ wpc' \in {"exited", "lock"} \/ (wpc' = "arm" /\ cur' = Remainder)
    BY <1>3 DEF WorkerAckWoken, svc
  <2>2. Unsent' \subseteq Unsent
    BY <2>1, UnsentCases, UnsentCasesNext DEF ToCut, IsCut
  <2> QED BY <2>1, <2>2, OrderStays DEF Queued
<1>4. CASE StopDrain
  <2>1. q_' = <<>> /\ UNCHANGED <<wpc, cur, m, sent, accepted>> /\ lost \subseteq lost'
    BY <1>4 DEF StopDrain, wrk
  <2>2. Unsent' = Unsent /\ Queued' = {}
    BY <2>1 DEF Unsent, Remainder, Chunk, Queued
  <2>3. wpc' = "requeue" => cur'.f \in Rejected'
    BY <2>1 DEF OrderInv, QueueInOrder, Rejected
  <2> QED BY <2>1, <2>2, <2>3, OrderStays
<1>5. CASE ~(\/ WorkerWoken \/ WorkerSendAccepted \/ WorkerDisarm \/ WorkerRequeue \/ WorkerAckWoken
             \/ PushFrame \/ StopDrain)
  <2>1. UNCHANGED <<q_, cur, sent, lost, accepted>> /\ (wpc' = "requeue" => wpc = "requeue")
    BY <1>5, QuietSteps
  <2>2. Unsent' = Unsent
    BY <1>5, QuietSteps, NothingMoved
  <2>3. wpc' = "requeue" => cur'.f \in Rejected'
    BY <2>1 DEF OrderInv, QueueInOrder, Rejected
  <2> QED BY <2>1, <2>2, <2>3, OrderStays DEF Queued
<1> QED BY <1>1, <1>2, <1>3, <1>4, <1>5, TakeKeepsOrder, SendKeepsOrder, RequeueKeepsOrder, PushKeepsOrder

\* As long as the modem rejects nothing the frames leave in the order in which
\* sendAudioFrame() took them, and after a rejection those that were not rejected still do.
THEOREM OrderOfUnrejectedAlways == Spec => []OrderOfUnrejected
<1>1. Init => OrderInv
  BY DEF Init, OrderInv, QueueInOrder, OrderOfUnrejected, Queued, Unsent
<1>2. OrderInv => OrderOfUnrejected
  BY DEF OrderInv
<1> QED BY <1>1, <1>2, OrderNext, Invariance, PiecesInvariance, PTL DEF Spec

-----------------------------------------------------------------------------
(* The service implements the one-chunk channel: the safety part of         *)
(* ImplementsChannel.  That every chunk comes back is left to TLC.          *)

LEMMA SendIsTransmit ==
    ASSUME IInv, PiecesInv, WorkerSendAccepted PROVE Channel!Next
<1>1. /\ wpc = "send" /\ outstanding' = outstanding \cup {Chunk} /\ sent' = Append(sent, Chunk)
  BY DEF WorkerSendAccepted
<1>2. cur \in Slices /\ m \in Nat /\ m > 0 /\ cur.lo < cur.hi /\ Unsent = {cur} /\ ~Awaiting
  BY <1>1, UnsentCases DEF IInv, TypeOK, DataOK, HandsFull, PacedByAck, PiecesInv, MtuKnown, RangesOK, ToCut
<1>3. /\ Chunk \in Slices /\ Chunk.f = cur.f /\ Chunk.lo = cur.lo /\ Chunk.lo < Chunk.hi
      /\ Chunk.hi <= cur.hi
  BY <1>2, CutInTwo
<1>4. Chunk \in FrameChunks
  <2>1. cur.f \in Frames /\ cur.hi <= Size[cur.f] /\ Size[cur.f] \in Nat /\ cur.lo \in Nat /\ cur.hi \in Nat
    BY <1>2, FramesAssumption DEF PiecesInv, RangesOK, Slices
  <2>2. Chunk \in [f : {cur.f}, lo : 0 .. Size[cur.f], hi : 0 .. Size[cur.f]]
    BY <1>3, <2>1 DEF Slices
  <2> QED BY <2>1, <2>2, Zenon DEF FrameChunks
<1>5. \A i \in 1 .. Len(sent) : sent[i].f = Chunk.f => sent[i].hi <= Chunk.lo
  BY <1>2, <1>3 DEF PiecesInv, CutFromFront, Gone
<1>6. Channel!Transmit(Chunk)
  BY <1>1, <1>2, <1>3, <1>5 DEF Channel!Transmit, Awaiting
<1> QED BY <1>4, <1>6 DEF Channel!Next

LEMMA OthersReleaseOrStutter ==
    ASSUME IInv, [Next]_vars, ~WorkerSendAccepted
    PROVE  Channel!Release \/ UNCHANGED <<Awaiting, sent>>
<1>0. OneInFlight
  BY DEF IInv
<1> USE DEF svc, wrk, app, ctl, modem, hist, Awaiting
<1>1. CASE AbortData \/ ModemCompletes
  <2>1. CASE UNCHANGED <<outstanding, tpc, sent>>
    BY <2>1
  <2>2. CASE sent' = sent /\ \E c \in outstanding : Complete(c)
    BY <1>0, <2>2 DEF Complete, OneInFlight, Channel!Release
  <2> QED BY <1>1, <2>1, <2>2 DEF AbortData, ModemCompletes
<1>2. CASE OnDataAckStore
  BY <1>0, <1>2 DEF OnDataAckStore, OneInFlight, Channel!Release
<1>3. CASE OnDataAckNotify
  BY <1>3 DEF OnDataAckNotify
<1>4. CASE ~(AbortData \/ ModemCompletes \/ OnDataAckStore \/ OnDataAckNotify)
  <2>1. UNCHANGED <<outstanding, tpc, sent>>
    <3>1. CASE Worker \/ SpuriousWakeup
      BY <3>1 DEF Worker, WorkerStart, WorkerWait, WorkerBlock, WorkerWoken, WorkerLoadMtu,
                  WorkerProbeMtu, WorkerStoreMtu, WorkerArm, WorkerSendRejected, WorkerDisarm,
                  WorkerRequeue, WorkerAckWait, WorkerAckBlock, WorkerAckWoken, SpuriousWakeup
    <3>2. CASE App \/ TelSdk
      BY <1>4, <3>2 DEF App, SendAudioFrame, PushFrame, NotifyFrame, CheckPointer, WrappedCall,
                        TelSdk, OnServiceChange, OnCapabilitiesChange
    <3>3. CASE Control
      BY <3>3 DEF Control, InitCall, InInit, InitAcquire, InitRegister, InitCapabilities, InitGate,
                  InitRun, StartWorker, ShutdownCall, InStop, StopStore, StopNotify, StopJoin,
                  StopDrain, ShutdownRelease
    <3>4. CASE UNCHANGED vars
      BY <3>4 DEF vars
    <3> QED BY <3>1, <3>2, <3>3, <3>4 DEF Next
  <2> QED BY <2>1
<1> QED BY <1>1, <1>2, <1>3, <1>4

\* The uplink never does what the channel may not: it transmits only when the chunk
\* before is back, never an empty chunk, and never goes back inside a frame.
THEOREM UplinkIsChannel == Spec => Channel!SafeSpec
<1>1. Init => Channel!Init
  BY DEF Init, Channel!Init
<1>2. IInv /\ PiecesInv /\ [Next]_vars => [Channel!Next]_<<Awaiting, sent>>
  BY SendIsTransmit, OthersReleaseOrStutter DEF Channel!Next
<1>3. IInv /\ PiecesInv /\ [Next]_vars
        => [Channel!Next]_<<outstanding # {} \/ tpc = "store", sent>>
  BY <1>2 DEF Awaiting
<1> QED BY <1>1, <1>3, Invariance, PiecesInvariance, PTL DEF Spec, Channel!SafeSpec
=============================================================================
