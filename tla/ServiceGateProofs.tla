--------------------------- MODULE ServiceGateProofs ---------------------------
(***************************************************************************)
(* Proofs about ServiceGate, for any number of changes.                    *)
(*                                                                         *)
(* The argument: while a listener is registered, a fact of the manager     *)
(* that nobody is about to report is known.  The last callback to come for *)
(* a fact carries its present value (QueueIsCurrent); the callback that    *)
(* runs has the present value of its own fact (ArgIsCurrent) and of the    *)
(* fact it asked for (OtherIsCurrent), unless a later callback waits.  So  *)
(* the callback after which none waits stores the present gate.            *)
(***************************************************************************)
EXTENDS ServiceGate, TLAPS

Value(f) == IF f = "state" THEN inService ELSE available
OtherFact(f) == IF f = "state" THEN "status" ELSE "state"

\* A callback for the fact f waits.
Awaited(f) == \E k \in 1 .. Len(events) : events[k].fact = f

\* The calls of init() and shutdown() that have been made decide who listens.
Sessions ==
    /\ listening <=> cpc \in {"state", "status", "gate", "up"}
    /\ ntn_ <=> cpc # "idle"
    /\ ~listening => events = <<>>
    /\ tpc # "idle" => arg \in Event
    /\ stray => tpc # "idle"

\* The last callback to come for a fact carries its present value.
QueueIsCurrent ==
    \A k \in 1 .. Len(events) :
        (\A j \in k + 1 .. Len(events) : events[j].fact # events[k].fact)
        => events[k].value = Value(events[k].fact)

\* The running callback of this session, if none waits for its fact, has its
\* present value.
ArgIsCurrent ==
    listening /\ ~stray /\ tpc # "idle" /\ ~Awaited(arg.fact) => arg.value = Value(arg.fact)

\* So it is with the fact it asked the manager for.
OtherIsCurrent ==
    listening /\ ~stray /\ tpc = "store" /\ ~Awaited(OtherFact(arg.fact))
    => other = Value(OtherFact(arg.fact))

GateInv == TypeOK /\ Sessions /\ QueueIsCurrent /\ ArgIsCurrent /\ OtherIsCurrent
           /\ LastCallbackDecides

\* The first callback in the queue and those behind it, by their places.
LEMMA HeadTailPlaces ==
    ASSUME NEW q \in Seq(Event), q # <<>>
    PROVE  /\ Head(q) = q[1] /\ Head(q) \in Event /\ Tail(q) \in Seq(Event)
           /\ Len(q) \in Nat \ {0} /\ Len(Tail(q)) = Len(q) - 1
           /\ \A k \in 1 .. Len(q) - 1 : Tail(q)[k] = q[k + 1]
  OBVIOUS

\* A callback that is queued comes last, and the others keep their places.
LEMMA AppendPlaces ==
    ASSUME NEW q \in Seq(Event), NEW e \in Event
    PROVE  /\ Append(q, e) \in Seq(Event)
           /\ Len(q) \in Nat /\ Len(Append(q, e)) = Len(q) + 1
           /\ Append(q, e)[Len(q) + 1] = e
           /\ \A k \in 1 .. Len(q) : Append(q, e)[k] = q[k]
  OBVIOUS

LEMMA GateInit == Init => GateInv
<1> SUFFICES ASSUME Init PROVE GateInv
  OBVIOUS
<1>1. <<>> \in Seq(Event)
  OBVIOUS
<1>2. changes \in 0 .. MaxChanges
  BY ChangesAssumption DEF Init
<1>3. TypeOK
  BY <1>1, <1>2, Zenon DEF Init, TypeOK
<1>4. Sessions
  BY DEF Init, Sessions
<1>5. QueueIsCurrent /\ ArgIsCurrent /\ OtherIsCurrent /\ LastCallbackDecides
  BY DEF Init, QueueIsCurrent, ArgIsCurrent, OtherIsCurrent, LastCallbackDecides, Quiet
<1> QED BY <1>3, <1>4, <1>5 DEF GateInv

\* A change of one of the two facts: the last callback to come is the one that reports it.
LEMMA ChangeKeepsGate ==
    ASSUME GateInv, NEW f \in Facts, Value(f)' = ~Value(f),
           Value(OtherFact(f))' = Value(OtherFact(f)), Notify(f, ~Value(f)),
           inService' \in BOOLEAN, available' \in BOOLEAN,
           changes < MaxChanges, changes' = changes + 1,
           UNCHANGED <<ntn_, listening, serviceOk_, control, callback, hist>>
    PROVE  GateInv'
<1> USE DEF GateInv, control, callback, hist
<1> DEFINE e == [fact |-> f, value |-> ~Value(f)]
<1>1. e \in Event /\ e.fact = f /\ e.value = ~Value(f)
  BY DEF Event, Value, TypeOK
<1>2. CASE listening
  <2>1. events' = Append(events, e)
    BY <1>2 DEF Notify
  <2>2. /\ events' \in Seq(Event) /\ Len(events) \in Nat /\ Len(events') = Len(events) + 1
        /\ events'[Len(events) + 1] = e /\ \A k \in 1 .. Len(events) : events'[k] = events[k]
    BY <1>1, <2>1, AppendPlaces DEF TypeOK
  <2>3. TypeOK' /\ Sessions'
    BY <1>2, <2>2, ChangesAssumption DEF TypeOK, Sessions
  <2>4. QueueIsCurrent'
    <3> SUFFICES ASSUME NEW k \in 1 .. Len(events'),
                        \A j \in k + 1 .. Len(events') : events'[j].fact # events'[k].fact
                 PROVE  events'[k].value = Value(events[k].fact)'
      BY DEF QueueIsCurrent
    <3>1. CASE k = Len(events) + 1
      <4>1. events'[k].fact = f /\ events'[k].value = ~Value(f)
        BY <3>1, <2>2, <1>1
      <4> QED BY <4>1 DEF Value
    <3>2. CASE k # Len(events) + 1
      <4>1. k \in 1 .. Len(events) /\ events'[k] = events[k] /\ events[k] \in Event
        BY <3>2, <2>2 DEF TypeOK
      <4>2. events[k].fact # f
        BY <4>1, <2>2, <1>1
      <4>3. \A j \in k + 1 .. Len(events) : events[j].fact # events[k].fact
        BY <4>1, <2>2
      <4>4. events[k].value = Value(events[k].fact)
        BY <4>1, <4>3 DEF QueueIsCurrent
      <4>5. events[k].fact = OtherFact(f)
        BY <4>1, <4>2 DEF Event, Facts, OtherFact
      <4> QED BY <4>1, <4>4, <4>5 DEF Value
    <3> QED BY <3>1, <3>2
  <2>5. Awaited(f)' /\ \A g \in Facts : Awaited(g) => Awaited(g)'
    BY <2>2, <1>1 DEF Awaited
  <2>6. ArgIsCurrent'
    <3> SUFFICES ASSUME ~stray, tpc # "idle", ~Awaited(arg.fact)'
                 PROVE  arg.value = Value(arg.fact)'
      BY DEF ArgIsCurrent
    <3>1. arg.fact \in Facts
      BY DEF Sessions, Event
    <3>2. arg.fact = OtherFact(f) /\ ~Awaited(arg.fact)
      BY <3>1, <2>5 DEF OtherFact, Facts
    <3> QED BY <1>2, <3>2 DEF ArgIsCurrent
  <2>7. OtherIsCurrent'
    <3> SUFFICES ASSUME ~stray, tpc = "store", ~Awaited(OtherFact(arg.fact))'
                 PROVE  other = Value(OtherFact(arg.fact))'
      BY DEF OtherIsCurrent, OtherFact
    <3>1. OtherFact(arg.fact) \in Facts
      BY DEF OtherFact, Facts
    <3>2. OtherFact(arg.fact) = OtherFact(f) /\ ~Awaited(OtherFact(arg.fact))
      BY <3>1, <2>5 DEF OtherFact, Facts
    <3> QED BY <1>2, <3>2 DEF OtherIsCurrent
  <2>8. LastCallbackDecides'
    BY <2>2 DEF LastCallbackDecides, Quiet
  <2> QED BY <2>3, <2>4, <2>6, <2>7, <2>8
<1>3. CASE ~listening
  <2>1. events' = <<>> /\ cpc # "up" /\ ~listening' /\ cpc' # "up"
    BY <1>3 DEF Notify, Sessions
  <2>2. TypeOK' /\ Sessions'
    BY <1>3, <2>1, ChangesAssumption DEF TypeOK, Sessions
  <2> QED BY <2>1, <2>2 DEF QueueIsCurrent, ArgIsCurrent, OtherIsCurrent, LastCallbackDecides, Quiet
<1> QED BY <1>2, <1>3 DEF TypeOK

LEMMA GateNext == GateInv /\ [Next]_vars => GateInv'
<1> SUFFICES ASSUME GateInv, [Next]_vars PROVE GateInv'
  OBVIOUS
<1> USE DEF GateInv, manager, control, callback, hist
<1>1. CASE NtnStateChanges
  <2>1. "state" \in Facts /\ Value("state") = inService /\ OtherFact("state") = "status"
        /\ Value("status") = available
    BY DEF Facts, Value, OtherFact
  <2>2. Value("state")' = ~Value("state") /\ Value(OtherFact("state"))' = Value(OtherFact("state"))
    BY <1>1, <2>1 DEF NtnStateChanges, Value, OtherFact
  <2>3. inService' \in BOOLEAN /\ available' \in BOOLEAN
    BY <1>1 DEF NtnStateChanges, TypeOK
  <2> QED BY <1>1, <2>1, <2>2, <2>3, ChangeKeepsGate DEF NtnStateChanges
<1>2. CASE ServiceStatusChanges
  <2>1. "status" \in Facts /\ Value("status") = available /\ OtherFact("status") = "state"
        /\ Value("state") = inService
    BY DEF Facts, Value, OtherFact
  <2>2. Value("status")' = ~Value("status") /\ Value(OtherFact("status"))' = Value(OtherFact("status"))
    BY <1>2, <2>1 DEF ServiceStatusChanges, Value, OtherFact
  <2>3. inService' \in BOOLEAN /\ available' \in BOOLEAN
    BY <1>2 DEF ServiceStatusChanges, TypeOK
  <2> QED BY <1>2, <2>1, <2>2, <2>3, ChangeKeepsGate DEF ServiceStatusChanges
<1>3. CASE Deliver
  <2>1. /\ arg' = events[1] /\ arg' \in Event /\ events' \in Seq(Event)
        /\ Len(events) \in Nat \ {0} /\ Len(events') = Len(events) - 1
        /\ \A k \in 1 .. Len(events) - 1 : events'[k] = events[k + 1]
    BY <1>3, HeadTailPlaces DEF Deliver, TypeOK
  <2>2. listening /\ ~stray
    BY <1>3 DEF Deliver, Sessions, TypeOK
  <2>3. TypeOK' /\ Sessions'
    BY <1>3, <2>1, <2>2 DEF Deliver, TypeOK, Sessions
  <2>4. QueueIsCurrent'
    <3> SUFFICES ASSUME NEW k \in 1 .. Len(events'),
                        \A j \in k + 1 .. Len(events') : events'[j].fact # events'[k].fact
                 PROVE  events'[k].value = Value(events[k].fact)'
      BY DEF QueueIsCurrent
    <3>1. events'[k] = events[k + 1] /\ k + 1 \in 1 .. Len(events)
      BY <2>1
    <3>2. \A j \in (k + 1) + 1 .. Len(events) : events[j].fact # events[k + 1].fact
      <4> SUFFICES ASSUME NEW j \in (k + 1) + 1 .. Len(events)
                   PROVE  events[j].fact # events[k + 1].fact
        OBVIOUS
      <4>1. j - 1 \in k + 1 .. Len(events') /\ events'[j - 1] = events[j]
        BY <2>1
      <4> QED BY <4>1, <3>1
    <3>3. events[k + 1].value = Value(events[k + 1].fact)
      BY <3>1, <3>2 DEF QueueIsCurrent
    <3> QED BY <1>3, <3>1, <3>3 DEF Deliver, Value
  <2>5. ArgIsCurrent'
    <3> SUFFICES ASSUME ~Awaited(arg.fact)'
                 PROVE  arg'.value = Value(arg.fact)'
      BY DEF ArgIsCurrent
    <3>1. \A j \in 1 + 1 .. Len(events) : events[j].fact # events[1].fact
      <4> SUFFICES ASSUME NEW j \in 1 + 1 .. Len(events)
                   PROVE  events[j].fact # events[1].fact
        OBVIOUS
      <4>1. j - 1 \in 1 .. Len(events') /\ events'[j - 1] = events[j]
        BY <2>1
      <4> QED BY <4>1, <2>1 DEF Awaited
    <3>2. events[1].value = Value(events[1].fact)
      BY <2>1, <3>1 DEF QueueIsCurrent
    <3> QED BY <1>3, <2>1, <3>2 DEF Deliver, Value
  <2>6. OtherIsCurrent' /\ LastCallbackDecides'
    BY <1>3 DEF Deliver, OtherIsCurrent, LastCallbackDecides, Quiet
  <2> QED BY <2>3, <2>4, <2>5, <2>6
<1>4. CASE AskOther
  <2>1. TypeOK'
    BY <1>4 DEF AskOther, TypeOK
  <2>2. Sessions' /\ QueueIsCurrent'
    BY <1>4 DEF AskOther, Sessions, QueueIsCurrent, Value
  <2>3. ArgIsCurrent'
    BY <1>4 DEF AskOther, ArgIsCurrent, Awaited, Value
  <2>4. OtherIsCurrent'
    <3> SUFFICES ASSUME listening PROVE other' = Value(OtherFact(arg.fact))'
      BY <1>4 DEF AskOther, OtherIsCurrent
    <3>1. ntn_ = TRUE
      BY DEF Sessions, TypeOK
    <3> QED BY <1>4, <3>1 DEF AskOther, Value, OtherFact, TypeOK
  <2>5. LastCallbackDecides'
    BY <1>4 DEF AskOther, LastCallbackDecides, Quiet
  <2> QED BY <2>1, <2>2, <2>3, <2>4, <2>5
<1>5. CASE StoreGate
  <2>1. TypeOK'
    <3>1. arg.value \in BOOLEAN
      BY <1>5 DEF StoreGate, Sessions, Event
    <3> QED BY <1>5, <3>1 DEF StoreGate, TypeOK
  <2>2. Sessions' /\ QueueIsCurrent' /\ ArgIsCurrent' /\ OtherIsCurrent'
    BY <1>5 DEF StoreGate, Sessions, QueueIsCurrent, ArgIsCurrent, OtherIsCurrent, Value
  <2>3. LastCallbackDecides'
    <3> SUFFICES ASSUME cpc = "up", events = <<>>, ~stray
                 PROVE  serviceOk_' = Gate'
      BY <1>5 DEF StoreGate, LastCallbackDecides, Quiet
    <3>1. listening /\ ~Awaited(arg.fact) /\ ~Awaited(OtherFact(arg.fact))
      BY DEF Sessions, Awaited
    <3>2. arg.value = Value(arg.fact) /\ other = Value(OtherFact(arg.fact))
      BY <1>5, <3>1 DEF StoreGate, ArgIsCurrent, OtherIsCurrent
    <3>3. arg.fact \in Facts
      BY <1>5 DEF StoreGate, Sessions, Event
    <3> QED BY <1>5, <3>2, <3>3 DEF StoreGate, Gate, Value, OtherFact, Facts, TypeOK
  <2> QED BY <2>1, <2>2, <2>3
<1>6. CASE InitRegister
  <2>1. ~listening /\ events = <<>>
    BY <1>6 DEF InitRegister, Sessions, TypeOK
  <2>2. TypeOK' /\ Sessions'
    BY <1>6, <2>1 DEF InitRegister, TypeOK, Sessions
  <2>3. stray' = (tpc # "idle") /\ events' = <<>> /\ tpc' = tpc
    BY <1>6, <2>1 DEF InitRegister
  <2>4. QueueIsCurrent'
    BY <2>3 DEF QueueIsCurrent
  <2>5. ArgIsCurrent' /\ OtherIsCurrent'
    BY <2>3 DEF ArgIsCurrent, OtherIsCurrent
  <2>6. LastCallbackDecides'
    BY <1>6 DEF InitRegister, LastCallbackDecides, Quiet
  <2> QED BY <2>2, <2>4, <2>5, <2>6
<1>7. CASE InitReadState
  <2>1. TypeOK' /\ Sessions'
    BY <1>7 DEF InitReadState, TypeOK, Sessions
  <2> QED BY <1>7, <2>1 DEF InitReadState, QueueIsCurrent, ArgIsCurrent, OtherIsCurrent, Awaited,
             Value, LastCallbackDecides, Quiet
<1>8. CASE InitReadStatus
  <2>1. TypeOK' /\ Sessions'
    BY <1>8 DEF InitReadStatus, TypeOK, Sessions
  <2> QED BY <1>8, <2>1 DEF InitReadStatus, QueueIsCurrent, ArgIsCurrent, OtherIsCurrent, Awaited,
             Value, LastCallbackDecides, Quiet
<1>9. CASE InitStoreGate
  <2>1. TypeOK' /\ Sessions'
    BY <1>9 DEF InitStoreGate, TypeOK, Sessions
  <2> QED BY <1>9, <2>1 DEF InitStoreGate, QueueIsCurrent, ArgIsCurrent, OtherIsCurrent, Awaited,
             Value, LastCallbackDecides, Quiet
<1>10. CASE ShutdownDeregister
  <2>0. <<>> \in Seq(Event)
    OBVIOUS
  <2>1. TypeOK'
    BY <1>10, <2>0, ZenonT(60) DEF ShutdownDeregister, TypeOK
  <2>2. Sessions'
    BY <1>10 DEF ShutdownDeregister, Sessions, TypeOK
  <2> QED BY <1>10, <2>1, <2>2 DEF ShutdownDeregister, QueueIsCurrent, ArgIsCurrent, OtherIsCurrent,
             LastCallbackDecides, Quiet
<1>11. CASE ShutdownReset
  <2>1. TypeOK'
    BY <1>11, ZenonT(60) DEF ShutdownReset, TypeOK
  <2>2. Sessions'
    BY <1>11 DEF ShutdownReset, TypeOK, Sessions
  <2> QED BY <1>11, <2>1, <2>2 DEF ShutdownReset, QueueIsCurrent, ArgIsCurrent, OtherIsCurrent, Awaited,
             Value, LastCallbackDecides, Quiet
<1>12. CASE UNCHANGED vars
  BY <1>12 DEF vars, TypeOK, Sessions, QueueIsCurrent, ArgIsCurrent, OtherIsCurrent, Awaited,
     Value, LastCallbackDecides, Quiet, Gate
<1> QED
  BY <1>1, <1>2, <1>3, <1>4, <1>5, <1>6, <1>7, <1>8, <1>9, <1>10, <1>11, <1>12
     DEF Next, TelSdk, InCall

LEMMA GateInvariant == Spec => []GateInv
  BY GateInit, GateNext, PTL DEF Spec

\* After the last callback of a session has stored, serviceOk_ is the conjunction of
\* the NTN state and the service status as they are, for any number of changes and
\* any interleaving of callbacks with init() and shutdown().
THEOREM GateIsRight == Spec => []LastCallbackDecides
  BY GateInvariant, PTL DEF GateInv
================================================================================
