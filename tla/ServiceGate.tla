----------------------------- MODULE ServiceGate -----------------------------
(***************************************************************************)
(* serviceOk_ of C_SatCommService: the gate that lets the worker send.     *)
(*                                                                         *)
(* The gate is the conjunction of two facts of the NTN manager, the NTN    *)
(* state and the service status.  init() reads both and stores the gate;   *)
(* after registerListener() the TelSDK thread runs onNtnStateChange and    *)
(* onServiceStatusChange, each of which takes one fact from its argument   *)
(* and asks the manager for the other.  Callbacks are delivered in order,  *)
(* some time after the change; shutdown() may come at any time.            *)
(***************************************************************************)
EXTENDS Integers, Sequences

CONSTANT MaxChanges        \* bound: changes of state or status while listening
ASSUME ChangesAssumption == MaxChanges \in Nat

VARIABLES
    inService,    \* manager: NtnState is IN_SERVICE
    available,    \* manager: ServiceStatus is SERVICE_AVAILABLE
    changes,      \* manager: how many changes so far
    events,       \* callbacks to be delivered, oldest first
    ntn_, listening,
    serviceOk_,
    cpc, ns, ss,  \* control thread and the locals of init()
    tpc, arg, other, \* TelSDK thread: pc, argument, the fact it asked for
    stray,        \* history: the running callback began in an earlier session
    last          \* history: who stored serviceOk_ last in this session

manager == <<inService, available, changes>>
control == <<cpc, ns, ss>>
callback == <<tpc, arg, other>>
hist == <<stray, last>>
vars == <<manager, events, ntn_, listening, serviceOk_, control, callback, hist>>

Facts == {"state", "status"}
Event == [fact : Facts, value : BOOLEAN]
NoEvent == [fact |-> "none", value |-> FALSE]

Init ==
    /\ inService \in BOOLEAN /\ available \in BOOLEAN /\ changes = 0
    /\ events = <<>>
    /\ ntn_ = FALSE /\ listening = FALSE /\ serviceOk_ = FALSE
    /\ cpc = "idle" /\ ns = FALSE /\ ss = FALSE
    /\ tpc = "idle" /\ arg = NoEvent /\ other = FALSE
    /\ stray = FALSE /\ last = "nobody"

-----------------------------------------------------------------------------
(* The manager.                                                             *)

\* Listeners hear of a change later; without a listener nobody does.
Notify(f, v) ==
    events' = IF listening THEN Append(events, [fact |-> f, value |-> v]) ELSE events

NtnStateChanges ==
    /\ changes < MaxChanges
    /\ inService' = ~inService /\ changes' = changes + 1
    /\ Notify("state", ~inService)
    /\ UNCHANGED <<available, ntn_, listening, serviceOk_, control, callback, hist>>

ServiceStatusChanges ==
    /\ changes < MaxChanges
    /\ available' = ~available /\ changes' = changes + 1
    /\ Notify("status", ~available)
    /\ UNCHANGED <<inService, ntn_, listening, serviceOk_, control, callback, hist>>

-----------------------------------------------------------------------------
(* onNtnStateChange(state) and onServiceStatusChange(status).               *)

Deliver ==
    /\ tpc = "idle" /\ events # <<>>
    /\ arg' = Head(events) /\ events' = Tail(events)
    /\ tpc' = "ask"
    /\ UNCHANGED <<manager, ntn_, listening, serviceOk_, control, other, hist>>

\* Mutant: both callbacks ask for the service status.
AskStatusAlways ==
    /\ tpc = "ask"
    /\ other' = (ntn_ /\ available)
    /\ tpc' = "store"
    /\ UNCHANGED <<manager, events, ntn_, listening, serviceOk_, control, arg, hist>>

\* getServiceStatus() or getNtnState(): without ntn_ they answer
\* SERVICE_UNAVAILABLE and DISABLED.
AskOther ==
    /\ tpc = "ask"
    /\ other' = (ntn_ /\ IF arg.fact = "state" THEN available ELSE inService)
    /\ tpc' = "store"
    /\ UNCHANGED <<manager, events, ntn_, listening, serviceOk_, control, arg, hist>>

StoreGate ==
    /\ tpc = "store"
    /\ serviceOk_' = (arg.value /\ other)
    /\ last' = IF stray THEN "stray" ELSE "callback"
    /\ stray' = FALSE
    /\ tpc' = "idle" /\ arg' = NoEvent /\ other' = FALSE
    /\ UNCHANGED <<manager, events, ntn_, listening, control>>

-----------------------------------------------------------------------------
(* init() and shutdown(), as far as they touch the gate.                    *)

InitRegister ==
    /\ cpc = "idle" /\ ~ntn_
    /\ ntn_' = TRUE /\ listening' = TRUE
    /\ stray' = (tpc # "idle") /\ last' = "nobody"
    /\ cpc' = "state"
    /\ UNCHANGED <<manager, events, serviceOk_, ns, ss, callback>>

InitReadState ==
    /\ cpc = "state"
    /\ ns' = inService
    /\ cpc' = "status"
    /\ UNCHANGED <<manager, events, ntn_, listening, serviceOk_, ss, callback, hist>>

InitReadStatus ==
    /\ cpc = "status"
    /\ ss' = available
    /\ cpc' = "gate"
    /\ UNCHANGED <<manager, events, ntn_, listening, serviceOk_, ns, callback, hist>>

InitStoreGate ==
    /\ cpc = "gate"
    /\ serviceOk_' = (ns /\ ss)
    /\ last' = "init"
    /\ cpc' = "up" /\ ns' = FALSE /\ ss' = FALSE
    /\ UNCHANGED <<manager, events, ntn_, listening, callback, stray>>

\* deregisterListener(): callbacks not yet begun are not delivered any more.
ShutdownDeregister ==
    /\ cpc = "up"
    /\ listening' = FALSE /\ events' = <<>>
    /\ cpc' = "reset"
    /\ UNCHANGED <<manager, ntn_, serviceOk_, ns, ss, callback, hist>>

ShutdownReset ==
    /\ cpc = "reset"
    /\ ntn_' = FALSE
    /\ cpc' = "idle"
    /\ UNCHANGED <<manager, events, listening, serviceOk_, ns, ss, callback, hist>>

-----------------------------------------------------------------------------
TelSdk == Deliver \/ AskOther \/ StoreGate
InCall == InitReadState \/ InitReadStatus \/ InitStoreGate \/ ShutdownReset
Next == \/ NtnStateChanges \/ ServiceStatusChanges
        \/ TelSdk \/ InitRegister \/ InCall \/ ShutdownDeregister

Spec == Init /\ [][Next]_vars /\ WF_vars(TelSdk) /\ WF_vars(InCall)

-----------------------------------------------------------------------------
TypeOK ==
    /\ inService \in BOOLEAN /\ available \in BOOLEAN /\ changes \in 0 .. MaxChanges
    /\ events \in Seq(Event)
    /\ ntn_ \in BOOLEAN /\ listening \in BOOLEAN /\ serviceOk_ \in BOOLEAN
    /\ cpc \in {"idle", "state", "status", "gate", "up", "reset"}
    /\ ns \in BOOLEAN /\ ss \in BOOLEAN
    /\ tpc \in {"idle", "ask", "store"} /\ arg \in Event \cup {NoEvent}
    /\ other \in BOOLEAN
    /\ stray \in BOOLEAN /\ last \in {"nobody", "init", "callback", "stray"}

Quiet == cpc = "up" /\ events = <<>> /\ tpc = "idle"
Gate  == inService /\ available

\* Once a callback of this session has stored after init(), the gate is right
\* whenever no callback is pending: each callback combines its argument with the
\* other fact as it is now, and the last of them sees both facts as they stay.
\* (Before that it may be wrong: init() may store what it read before a callback
\* over what that callback stored.)
LastCallbackDecides == Quiet /\ last = "callback" => serviceOk_ = Gate
==============================================================================
