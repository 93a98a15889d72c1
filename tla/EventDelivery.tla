---------------------------- MODULE EventDelivery ----------------------------
(***************************************************************************)
(* How events of the simulation server reach listeners in the clients:     *)
(* EventServiceHelper at the server, an EventManager in each client.       *)
(*                                                                         *)
(* A client opens a stream (registerForEvents) and tells the server, in    *)
(* calls of their own (updateFilter), which filters it wants; gRPC does    *)
(* not order the two.  The server writes an event to the streams of the    *)
(* clients whose filters name it.  The client hands each event it reads to *)
(* a task: with the policy "deferred" (sensor and location reports) tasks  *)
(* run one after the other, with "async" (all other events) side by side.  *)
(*                                                                         *)
(* Listeners register and deregister from one thread of their client;      *)
(* registrations of several threads are serialised by listenerMutex_.      *)
(***************************************************************************)
EXTENDS Naturals, Sequences, SequencesExt

CONSTANTS
    Clients, Listeners, Filters,
    Owner,                      \* the client of each listener
    MaxEvents,                  \* bound: events raised
    MaxChanges                  \* bound: registrations, deregistrations, failed updates

ASSUME DeliveryAssumption ==
    Owner \in [Listeners -> Clients] /\ MaxEvents \in Nat /\ MaxChanges \in Nat

VARIABLES
    policy_,                    \* of the EventManagers
    events, changes,            \* the filter of each event raised; changes so far
    eventQ_, writes,            \* server: events to dispatch, eventWriter tasks
    clients_,                   \* server: [writer, filters] of each client it knows
    calls,                      \* clients whose registerForEvents is on its way
    stream,                     \* events written to a client and not yet read
    epc,                        \* event thread: "connect", "update", "read", "done"
    connected,                  \* connectedToSimulationServer_
    rpc,                        \* registering thread: "idle", or "update": it holds
                                \* listenerMutex_ and is to tell the server
    mtx_,                       \* who is in updateFilters: "none", "events", "user"
    request,                    \* the filters in the updateFilter call under way
    listeners_,                 \* listeners of each filter that has an entry
    alive,                      \* listeners that somebody still holds
    tasks,                      \* events read and not yet handled
    exiting,                    \* clients whose EventManager is being destroyed
    heard, due, fresh           \* events each listener was given; events it is to
                                \* be given; clients whose last list reached the server
                                \* since it knows their stream

server == <<eventQ_, writes, clients_, calls, stream>>
client == <<epc, connected, rpc, mtx_, request, listeners_, alive, tasks, exiting>>
vars == <<policy_, events, changes, server, client, heard, due, fresh>>

NoEntry == [writer |-> FALSE, filters |-> {}]
Keys(c) == DOMAIN listeners_[c]
Of(c, f) == IF f \in Keys(c) THEN listeners_[c][f] ELSE {}

Init ==
    /\ policy_ \in {"async", "deferred"}
    /\ events = <<>> /\ changes = 0
    /\ eventQ_ = <<>> /\ writes = <<>>
    /\ clients_ = [c \in Clients |-> NoEntry]
    /\ calls = {} /\ stream = [c \in Clients |-> <<>>]
    /\ epc = [c \in Clients |-> "connect"] /\ connected = {}
    /\ rpc = [c \in Clients |-> "idle"] /\ mtx_ = [c \in Clients |-> "none"]
    /\ request = [c \in Clients |-> {}]
    /\ listeners_ = [c \in Clients |-> <<>>]
    /\ alive = Listeners /\ tasks = [c \in Clients |-> <<>>] /\ exiting = {}
    /\ heard = [l \in Listeners |-> <<>>] /\ due = [l \in Listeners |-> {}] /\ fresh = {}

-----------------------------------------------------------------------------
(* The client: connection, registration, filters.                           *)

\* getEvents: the stream is asked for, and waiting registrations go on.
Connect(c) ==
    /\ epc[c] = "connect" /\ c \notin exiting
    /\ calls' = calls \cup {c}
    /\ connected' = connected \cup {c}
    /\ epc' = [epc EXCEPT ![c] = "update"]
    /\ UNCHANGED <<policy_, events, changes, eventQ_, writes, clients_, stream, rpc, mtx_,
                   request, listeners_, alive, tasks, exiting, heard, due, fresh>>

\* A client's listeners_ with ls under the filter f, and without f.
With(fn, f, ls) == [g \in DOMAIN fn \cup {f} |-> IF g = f THEN ls ELSE fn[g]]
Without(fn, f) == [g \in DOMAIN fn \ {f} |-> fn[g]]

\* registerListener: it waits for the connection; the first listener of a filter
\* has the server told.
RegisterListener(l, f) ==
    LET c == Owner[l] IN
    /\ changes < MaxChanges
    /\ c \in connected \ exiting /\ rpc[c] = "idle"
    /\ l \in alive /\ l \notin Of(c, f)
    /\ changes' = changes + 1
    /\ listeners_' = [listeners_ EXCEPT ![c] = With(@, f, Of(c, f) \cup {l})]
    /\ rpc' = [rpc EXCEPT ![c] = IF f \in Keys(c) THEN "idle" ELSE "update"]
    /\ UNCHANGED <<policy_, events, server, epc, connected, mtx_, request, alive, tasks, exiting,
                   heard, due, fresh>>

\* deregisterListener: an expired listener counts until an event finds it out.
DeregisterListener(l, f) ==
    LET c == Owner[l]
        last == Of(c, f) = {l}
    IN
    /\ changes < MaxChanges
    /\ c \notin exiting /\ rpc[c] = "idle"
    /\ l \in alive \cap Of(c, f)
    /\ changes' = changes + 1
    /\ listeners_' = [listeners_ EXCEPT ![c] = IF last THEN Without(@, f)
                                               ELSE With(@, f, Of(c, f) \ {l})]
    /\ rpc' = [rpc EXCEPT ![c] = IF last THEN "update" ELSE "idle"]
    /\ due' = [due EXCEPT ![l] = {e \in @ : events[e] # f}]
    /\ UNCHANGED <<policy_, events, server, epc, connected, mtx_, request, alive, tasks, exiting,
                   heard, fresh>>

\* updateFilters: the call is made with mtx_ held; the event thread reads listeners_
\* without listenerMutex_.
UpdateFilters(c, who) ==
    /\ mtx_[c] = "none"
    /\ \/ who = "events" /\ epc[c] = "update"
       \/ who = "user" /\ rpc[c] = "update"
    /\ mtx_' = [mtx_ EXCEPT ![c] = who]
    /\ request' = [request EXCEPT ![c] = Keys(c)]
    /\ UNCHANGED <<policy_, events, changes, server, epc, connected, rpc, listeners_, alive, tasks,
                   exiting, heard, due, fresh>>

\* The listener is destroyed.
Expire(l) ==
    /\ l \in alive
    /\ alive' = alive \ {l}
    /\ due' = [due EXCEPT ![l] = {}]
    /\ UNCHANGED <<policy_, events, changes, server, epc, connected, rpc, mtx_, request, listeners_,
                   tasks, exiting, heard, fresh>>

-----------------------------------------------------------------------------
(* The server.                                                              *)

\* registerForEvents: a new entry, whatever filters the client has sent before.
RegisterForEvents(c) ==
    /\ c \in calls
    /\ calls' = calls \ {c}
    /\ clients_' = [clients_ EXCEPT ![c] = [writer |-> TRUE, filters |-> {}]]
    /\ fresh' = fresh \ {c}
    /\ UNCHANGED <<policy_, events, changes, eventQ_, writes, stream, client, heard, due>>

\* What the end of updateFilter means to the client.
Returned(c) ==
    /\ mtx_[c] # "none"
    /\ mtx_' = [mtx_ EXCEPT ![c] = "none"]
    /\ epc' = IF mtx_[c] = "events" THEN [epc EXCEPT ![c] = "read"] ELSE epc
    /\ rpc' = IF mtx_[c] = "user" THEN [rpc EXCEPT ![c] = "idle"] ELSE rpc

\* Mutant: the list of before is not cleared.
UpdateFilterAdds(c) ==
    /\ Returned(c)
    /\ clients_' = [clients_ EXCEPT ![c].filters = @ \cup request[c]]
    /\ fresh' = IF clients_[c].writer THEN fresh \cup {c} ELSE fresh
    /\ UNCHANGED <<policy_, events, changes, eventQ_, writes, calls, stream, connected, request,
                   listeners_, alive, tasks, exiting, heard, due>>

\* updateFilter: the client's list replaces the one before; an unknown client is made.
UpdateFilter(c) ==
    /\ Returned(c)
    /\ clients_' = [clients_ EXCEPT ![c].filters = request[c]]
    /\ fresh' = IF clients_[c].writer THEN fresh \cup {c} ELSE fresh
    /\ UNCHANGED <<policy_, events, changes, eventQ_, writes, calls, stream, connected, request,
                   listeners_, alive, tasks, exiting, heard, due>>

\* The call fails; the client notes it in its log and does not try again.
UpdateFilterFails(c) ==
    /\ changes < MaxChanges
    /\ Returned(c)
    /\ changes' = changes + 1
    /\ fresh' = fresh \ {c}
    /\ UNCHANGED <<policy_, events, server, connected, request, listeners_, alive, tasks,
                   exiting, heard, due>>

\* updateEventQueue, called by a manager of the server.
UpdateEventQueue(f) ==
    LET e == Len(events) + 1
        Promised(l) == LET c == Owner[l] IN
                       l \in alive \cap Of(c, f) /\ c \in fresh \ exiting /\ f \in clients_[c].filters
    IN
    /\ Len(events) < MaxEvents
    /\ events' = Append(events, f)
    /\ eventQ_' = Append(eventQ_, e)
    /\ due' = [l \in Listeners |-> IF Promised(l) THEN due[l] \cup {e} ELSE due[l]]
    /\ UNCHANGED <<policy_, changes, writes, clients_, calls, stream, client, heard, fresh>>

\* Mutant: what has come in behind the event is thrown away with it.
EventDispatcherClears ==
    /\ eventQ_ # <<>>
    /\ writes' = Append(writes, Head(eventQ_))
    /\ eventQ_' = <<>>
    /\ UNCHANGED <<policy_, events, changes, clients_, calls, stream, client, heard, due, fresh>>

\* eventDispatcher, one turn: a task to write the event is added.
EventDispatcher ==
    /\ eventQ_ # <<>>
    /\ writes' = Append(writes, Head(eventQ_))
    /\ eventQ_' = Tail(eventQ_)
    /\ UNCHANGED <<policy_, events, changes, clients_, calls, stream, client, heard, due, fresh>>

Wanted(c, e) == clients_[c].writer /\ events[e] \in clients_[c].filters

\* Mutant: the writers run side by side.
EventWriterAny ==
    \E i \in DOMAIN writes :
        /\ writes' = RemoveAt(writes, i)
        /\ stream' = [c \in Clients |-> IF Wanted(c, writes[i]) /\ epc[c] # "done"
                                        THEN Append(stream[c], writes[i]) ELSE stream[c]]
        /\ UNCHANGED <<policy_, events, changes, eventQ_, clients_, calls, client, heard, due, fresh>>

\* eventWriter, one task after the other; a cancelled stream takes nothing.
EventWriter ==
    /\ writes # <<>>
    /\ writes' = Tail(writes)
    /\ stream' = [c \in Clients |-> IF Wanted(c, Head(writes)) /\ epc[c] # "done"
                                    THEN Append(stream[c], Head(writes)) ELSE stream[c]]
    /\ UNCHANGED <<policy_, events, changes, eventQ_, clients_, calls, client, heard, due, fresh>>

-----------------------------------------------------------------------------
(* The client: events, and its end.                                         *)

ReadEvent(c) ==
    /\ epc[c] = "read" /\ stream[c] # <<>>
    /\ tasks' = [tasks EXCEPT ![c] = Append(@, Head(stream[c]))]
    /\ stream' = [stream EXCEPT ![c] = Tail(@)]
    /\ UNCHANGED <<policy_, events, changes, eventQ_, writes, clients_, calls, epc, connected, rpc,
                   mtx_, request, listeners_, alive, exiting, heard, due, fresh>>

\* handleEventNotifications, under listenerMutex_: the living listeners of the filter
\* are called, the expired ones forgotten; the filter keeps its entry.
HandleEvent(c, i) ==
    LET e == tasks[c][i]
        called == Of(c, events[e]) \cap alive
    IN
    /\ policy_ = "deferred" => i = 1
    /\ rpc[c] = "idle"
    /\ tasks' = [tasks EXCEPT ![c] = RemoveAt(@, i)]
    /\ heard' = [l \in Listeners |-> IF l \in called THEN Append(heard[l], e) ELSE heard[l]]
    /\ listeners_' = IF events[e] \in Keys(c)
                     THEN [listeners_ EXCEPT ![c][events[e]] = called] ELSE listeners_
    /\ UNCHANGED <<policy_, events, changes, server, epc, connected, rpc, mtx_, request, alive,
                   exiting, due, fresh>>

\* ~EventManager, once connected: the server forgets the client, then the stream is cancelled; the
\* task queue finishes what runs and drops what does not.
Cleanup(c) ==
    /\ c \in connected \ exiting /\ rpc[c] = "idle"
    /\ exiting' = exiting \cup {c}
    /\ clients_' = [clients_ EXCEPT ![c] = NoEntry]
    /\ fresh' = fresh \ {c}
    /\ due' = [l \in Listeners |-> IF Owner[l] = c THEN {} ELSE due[l]]
    /\ UNCHANGED <<policy_, events, changes, eventQ_, writes, calls, stream, epc, connected, rpc,
                   mtx_, request, listeners_, alive, tasks, heard>>

Cancel(c) ==
    /\ c \in exiting /\ epc[c] = "read"
    /\ epc' = [epc EXCEPT ![c] = "done"]
    /\ stream' = [stream EXCEPT ![c] = <<>>]
    /\ tasks' = IF policy_ = "deferred" THEN [tasks EXCEPT ![c] = <<>>] ELSE tasks
    /\ UNCHANGED <<policy_, events, changes, eventQ_, writes, clients_, calls, connected, rpc, mtx_,
                   request, listeners_, alive, exiting, heard, due, fresh>>

-----------------------------------------------------------------------------
ClientStep(c) == \/ Connect(c) \/ UpdateFilter(c) \/ UpdateFilterFails(c)
                 \/ RegisterForEvents(c) \/ ReadEvent(c)
                 \/ \E who \in {"events", "user"} : UpdateFilters(c, who)
                 \/ \E i \in DOMAIN tasks[c] : HandleEvent(c, i)
                 \/ Cancel(c)
User == \/ \E l \in Listeners, f \in Filters : RegisterListener(l, f) \/ DeregisterListener(l, f)
        \/ \E l \in Listeners : Expire(l)
        \/ \E c \in Clients : Cleanup(c)
Next == \/ \E c \in Clients : ClientStep(c)
        \/ EventDispatcher \/ EventWriter
        \/ \E f \in Filters : UpdateEventQueue(f)
        \/ User

Spec == Init /\ [][Next]_vars

\* The server's threads, the event threads and their tasks run and calls arrive; nobody
\* has to register or to raise events.
FairSpec == Spec /\ WF_vars(EventDispatcher) /\ WF_vars(EventWriter)
                 /\ \A c \in Clients : WF_vars(ClientStep(c))

-----------------------------------------------------------------------------
(* Properties.                                                              *)

\* Every variable has its type; an event is at one place of the server.
TypeOK ==
    /\ policy_ \in {"async", "deferred"}
    /\ events \in Seq(Filters) /\ changes \in 0 .. MaxChanges
    /\ {ToSet(eventQ_), ToSet(writes)} \subseteq SUBSET DOMAIN events
    /\ ToSet(eventQ_) \cap ToSet(writes) = {}
    /\ clients_ \in [Clients -> [writer : BOOLEAN, filters : SUBSET Filters]]
    /\ epc \in [Clients -> {"connect", "update", "read", "done"}]
    /\ rpc \in [Clients -> {"idle", "update"}] /\ mtx_ \in [Clients -> {"none", "events", "user"}]
    /\ request \in [Clients -> SUBSET Filters]
    /\ {calls, connected, exiting, fresh} \subseteq SUBSET Clients
    /\ \A c \in Clients : Keys(c) \subseteq Filters
    /\ \A c \in Clients, f \in Filters : \A l \in Of(c, f) : Owner[l] = c
    /\ alive \subseteq Listeners

\* The server's list of a client is the client's own, when the client's last one since it
\* has a stream has arrived and no call is under way: no update is overtaken by an older one, none
\* leaves a filter behind.
FiltersAgree ==
    \A c \in fresh : mtx_[c] = "none" /\ rpc[c] = "idle" => clients_[c].filters = Keys(c)

\* A listener is given no event twice; reports, which are handled by deferred tasks,
\* are given in the order in which the server raised them.
HeardInOrder ==
    \A l \in Listeners : \A i, j \in DOMAIN heard[l] :
        i < j => /\ heard[l][i] # heard[l][j]
                 /\ policy_ = "deferred" => heard[l][i] < heard[l][j]

\* An event raised when the server knows the filters of a listener is given to it,
\* unless it is deregistered, is destroyed or its client ends.
DueIsHeard ==
    \A l \in Listeners : \A e \in 1 .. MaxEvents :
        e \in due[l] ~> (e \in ToSet(heard[l]) \/ e \notin due[l])
==============================================================================
