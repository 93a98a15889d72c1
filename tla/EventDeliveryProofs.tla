-------------------------- MODULE EventDeliveryProofs --------------------------
(***************************************************************************)
(* Proofs about EventDelivery, for any clients, listeners, filters and     *)
(* numbers of events and changes.                                          *)
(*                                                                         *)
(* FiltersAgree rests on the two locks of the client: a call of the        *)
(* registering thread carries the filters as they stay until it returns    *)
(* (listenerMutex_ is held), a call of the event thread carries them       *)
(* unless another call is to follow (CallCarriesKeys).                     *)
(*                                                                         *)
(* HeardInOrder rests on the order of the places an event goes through:    *)
(* handled, waiting as a task, in the stream, to be written, to be         *)
(* dispatched.  Events are older in the earlier place, and in order within *)
(* each; only among the tasks may an async client pick any.                *)
(***************************************************************************)
EXTENDS EventDelivery, SequenceTheorems, TLAPS

FilterTypes ==
    /\ policy_ \in {"async", "deferred"} /\ changes \in 0 .. MaxChanges
    /\ events \in Seq(Filters)
    /\ clients_ \in [Clients -> [writer : BOOLEAN, filters : SUBSET Filters]]
    /\ epc \in [Clients -> {"connect", "update", "read", "done"}]
    /\ rpc \in [Clients -> {"idle", "update"}] /\ mtx_ \in [Clients -> {"none", "events", "user"}]
    /\ request \in [Clients -> SUBSET Filters]
    /\ calls \subseteq Clients /\ connected \subseteq Clients /\ exiting \subseteq Clients
    /\ fresh \subseteq Clients /\ alive \subseteq Listeners

\* The listeners a client knows are its own.
ListenersOwned ==
    /\ DOMAIN listeners_ = Clients
    /\ \A c \in Clients : /\ Keys(c) \subseteq Filters
                          /\ \A f \in Keys(c) : \A l \in listeners_[c][f] : Owner[l] = c

\* The filters in a call are the client's, unless a later call is to tell the server.
CallCarriesKeys ==
    \A c \in Clients :
        /\ mtx_[c] = "user" => rpc[c] = "update" /\ request[c] = Keys(c)
        /\ mtx_[c] = "events" /\ rpc[c] = "idle" => request[c] = Keys(c)

FilterInv == FilterTypes /\ ListenersOwned /\ CallCarriesKeys /\ FiltersAgree

\* Only a change of the registered filters can upset the agreement.
LEMMA OthersKeepFilters ==
    ASSUME FilterInv, FilterTypes',
           UNCHANGED <<listeners_, rpc, mtx_, request, clients_>>, fresh' \subseteq fresh
    PROVE  FilterInv'
  BY DEF FilterInv, ListenersOwned, CallCarriesKeys, FiltersAgree, Keys

\* What registering and deregistering a listener make of the client's map: when a
\* filter comes or goes the server is to be told.
LEMMA MapChangeKeepsFilters ==
    ASSUME FilterInv, NEW c \in Clients, NEW map, DOMAIN map \subseteq Filters,
           rpc[c] = "idle", listeners_' = [listeners_ EXCEPT ![c] = map],
           rpc' = [rpc EXCEPT ![c] = IF DOMAIN map = Keys(c) THEN "idle" ELSE "update"],
           \A f \in DOMAIN map : \A l \in map[f] : Owner[l] = c,
           changes' \in 0 .. MaxChanges,
           UNCHANGED <<policy_, events, server, epc, connected, mtx_, request, alive, exiting, fresh>>
    PROVE  FilterInv'
<1> USE DEF FilterInv, server
<1>1. FilterTypes'
  BY DEF FilterTypes
<1>2. /\ DOMAIN listeners_' = Clients /\ listeners_'[c] = map
      /\ \A d \in Clients \ {c} : listeners_'[d] = listeners_[d]
  BY DEF ListenersOwned
<1>3. ListenersOwned'
  BY <1>2 DEF ListenersOwned, Keys
<1>4. CallCarriesKeys'
  BY <1>2 DEF FilterTypes, CallCarriesKeys, Keys
<1>5. FiltersAgree'
  BY <1>2 DEF FilterTypes, FiltersAgree, Keys
<1> QED BY <1>1, <1>3, <1>4, <1>5

LEMMA FilterInit == Init => FilterInv
<1> SUFFICES ASSUME Init PROVE FilterInv
  OBVIOUS
<1>1. FilterTypes
  <2>1. <<>> \in Seq(Filters) /\ 0 \in 0 .. MaxChanges
    BY DeliveryAssumption
  <2>2. NoEntry \in [writer : BOOLEAN, filters : SUBSET Filters]
    BY DEF NoEntry
  <2> QED BY <2>1, <2>2, Zenon DEF Init, FilterTypes
<1>2. ListenersOwned
  BY DEF Init, ListenersOwned, Keys
<1>3. CallCarriesKeys /\ FiltersAgree
  BY DEF Init, CallCarriesKeys, FiltersAgree
<1> QED BY <1>1, <1>2, <1>3 DEF FilterInv

LEMMA FilterNext == FilterInv /\ [Next]_vars => FilterInv'
<1> SUFFICES ASSUME FilterInv, [Next]_vars PROVE FilterInv'
  OBVIOUS
<1> USE DeliveryAssumption DEF FilterInv, server, client
<1>1. ASSUME NEW c \in Clients, Connect(c) PROVE FilterInv'
  BY <1>1, OthersKeepFilters DEF Connect, FilterTypes
<1>2. ASSUME NEW l \in Listeners, NEW f \in Filters, RegisterListener(l, f) PROVE FilterInv'
  <2> DEFINE c == Owner[l]
             map == With(listeners_[c], f, Of(c, f) \cup {l})
  <2>1. c \in Clients /\ DOMAIN map = Keys(c) \cup {f} /\ DOMAIN map \subseteq Filters
    BY DEF With, Keys, ListenersOwned
  <2>2. \A g \in DOMAIN map : \A k \in map[g] : Owner[k] = c
    BY <2>1 DEF With, Keys, Of, ListenersOwned
  <2>3. /\ rpc[c] = "idle" /\ listeners_' = [listeners_ EXCEPT ![c] = map]
        /\ rpc' = [rpc EXCEPT ![c] = IF f \in Keys(c) THEN "idle" ELSE "update"]
        /\ changes' \in 0 .. MaxChanges
        /\ UNCHANGED <<policy_, events, server, epc, connected, mtx_, request, alive, exiting, fresh>>
    BY <1>2 DEF RegisterListener, FilterTypes
  <2> HIDE DEF map
  <2>4. f \in Keys(c) <=> DOMAIN map = Keys(c)
    BY <2>1
  <2> HIDE DEF c
  <2> QED BY <2>1, <2>2, <2>3, <2>4, MapChangeKeepsFilters
<1>3. ASSUME NEW l \in Listeners, NEW f \in Filters, DeregisterListener(l, f) PROVE FilterInv'
  <2> DEFINE c == Owner[l]
             map == IF Of(c, f) = {l} THEN Without(listeners_[c], f)
                    ELSE With(listeners_[c], f, Of(c, f) \ {l})
  <2>1. c \in Clients /\ f \in Keys(c)
    BY <1>3 DEF DeregisterListener, Of
  <2>2. DOMAIN map \subseteq Filters /\ (Of(c, f) = {l} <=> DOMAIN map # Keys(c))
    BY <2>1 DEF With, Without, Keys, ListenersOwned
  <2>3. \A g \in DOMAIN map : \A k \in map[g] : Owner[k] = c
    BY <2>1 DEF With, Without, Keys, Of, ListenersOwned
  <2>4. /\ rpc[c] = "idle" /\ listeners_' = [listeners_ EXCEPT ![c] = map]
        /\ rpc' = [rpc EXCEPT ![c] = IF Of(c, f) = {l} THEN "update" ELSE "idle"]
        /\ changes' \in 0 .. MaxChanges
        /\ UNCHANGED <<policy_, events, server, epc, connected, mtx_, request, alive, exiting, fresh>>
    BY <1>3 DEF DeregisterListener, FilterTypes
  <2> HIDE DEF map, c
  <2>5. rpc' = [rpc EXCEPT ![c] = IF DOMAIN map = Keys(c) THEN "idle" ELSE "update"]
    BY <2>2, <2>4
  <2> QED BY <2>1, <2>2, <2>3, <2>4, <2>5, MapChangeKeepsFilters
<1>4. ASSUME NEW c \in Clients, NEW who \in {"events", "user"}, UpdateFilters(c, who)
      PROVE  FilterInv'
  <2>1. FilterTypes' /\ ListenersOwned'
    BY <1>4 DEF UpdateFilters, FilterTypes, ListenersOwned, Keys
  <2>2. CallCarriesKeys' /\ FiltersAgree'
    BY <1>4 DEF UpdateFilters, FilterTypes, CallCarriesKeys, FiltersAgree, Keys
  <2> QED BY <2>1, <2>2
<1>5. ASSUME NEW l \in Listeners, Expire(l) PROVE FilterInv'
  BY <1>5, OthersKeepFilters DEF Expire, FilterTypes
<1>6. ASSUME NEW c \in Clients, RegisterForEvents(c) PROVE FilterInv'
  <2>1. FilterTypes' /\ ListenersOwned'
    BY <1>6 DEF RegisterForEvents, FilterTypes, ListenersOwned, Keys
  <2>2. CallCarriesKeys' /\ FiltersAgree'
    BY <1>6 DEF RegisterForEvents, FilterTypes, CallCarriesKeys, FiltersAgree, Keys
  <2> QED BY <2>1, <2>2
<1>7. ASSUME NEW c \in Clients, UpdateFilter(c) PROVE FilterInv'
  <2>1. /\ mtx_[c] # "none" /\ mtx_' = [mtx_ EXCEPT ![c] = "none"]
        /\ rpc' = IF mtx_[c] = "user" THEN [rpc EXCEPT ![c] = "idle"] ELSE rpc
        /\ clients_' = [clients_ EXCEPT ![c].filters = request[c]]
        /\ fresh' \subseteq fresh \cup {c} /\ UNCHANGED <<listeners_, request>>
    BY <1>7 DEF UpdateFilter, Returned
  <2>2. FilterTypes'
    BY <1>7 DEF UpdateFilter, Returned, FilterTypes
  <2>3. ListenersOwned' /\ CallCarriesKeys'
    BY <2>1 DEF FilterTypes, ListenersOwned, CallCarriesKeys, Keys
  <2>4. clients_'[c].filters = request[c] /\ \A d \in Clients \ {c} : clients_'[d] = clients_[d]
    BY <2>1 DEF FilterTypes
  <2>5. FiltersAgree'
    BY <2>1, <2>4 DEF FilterTypes, CallCarriesKeys, FiltersAgree, Keys
  <2> QED BY <2>2, <2>3, <2>5
<1>8. ASSUME NEW f \in Filters, UpdateEventQueue(f) PROVE FilterInv'
  BY <1>8, OthersKeepFilters DEF UpdateEventQueue, FilterTypes
<1>9. CASE EventDispatcher
  BY <1>9, OthersKeepFilters DEF EventDispatcher, FilterTypes
<1>10. CASE EventWriter
  BY <1>10, OthersKeepFilters DEF EventWriter, FilterTypes
<1>11. ASSUME NEW c \in Clients, ReadEvent(c) PROVE FilterInv'
  BY <1>11, OthersKeepFilters DEF ReadEvent, FilterTypes
<1>12. ASSUME NEW c \in Clients, NEW i \in DOMAIN tasks[c], HandleEvent(c, i) PROVE FilterInv'
  <2> DEFINE f == events[tasks[c][i]]
             called == Of(c, f) \cap alive
  <2>1. listeners_' = IF f \in Keys(c) THEN [listeners_ EXCEPT ![c][f] = called] ELSE listeners_
    BY <1>12 DEF HandleEvent
  <2>2. UNCHANGED <<policy_, events, changes, server, epc, connected, rpc, mtx_, request, alive,
                    exiting, fresh>>
    BY <1>12 DEF HandleEvent
  <2>3. FilterTypes'
    BY <2>2 DEF FilterTypes
  <2> HIDE DEF f
  <2>4. /\ DOMAIN listeners_' = Clients /\ \A d \in Clients : Keys(d)' = Keys(d)
        /\ \A d \in Clients : \A g \in Keys(d) : listeners_'[d][g] \subseteq listeners_[d][g]
    BY <2>1 DEF ListenersOwned, Keys, Of
  <2>5. ListenersOwned' /\ CallCarriesKeys' /\ FiltersAgree'
    BY <2>2, <2>4 DEF FilterTypes, ListenersOwned, CallCarriesKeys, FiltersAgree
  <2> QED BY <2>3, <2>5
<1>13. ASSUME NEW c \in Clients, Cleanup(c) PROVE FilterInv'
  <2>1. NoEntry \in [writer : BOOLEAN, filters : SUBSET Filters]
    BY DEF NoEntry
  <2>2. FilterTypes' /\ ListenersOwned'
    BY <1>13, <2>1 DEF Cleanup, FilterTypes, ListenersOwned, Keys
  <2>3. CallCarriesKeys' /\ FiltersAgree'
    BY <1>13 DEF Cleanup, FilterTypes, CallCarriesKeys, FiltersAgree, Keys
  <2> QED BY <2>2, <2>3
<1>14. ASSUME NEW c \in Clients, Cancel(c) PROVE FilterInv'
  BY <1>14, OthersKeepFilters DEF Cancel, FilterTypes
<1>15. CASE UNCHANGED vars
  BY <1>15, OthersKeepFilters DEF vars, FilterTypes
<1>16. ASSUME NEW c \in Clients, UpdateFilterFails(c) PROVE FilterInv'
  <2>1. /\ mtx_[c] # "none" /\ mtx_' = [mtx_ EXCEPT ![c] = "none"]
        /\ rpc' = IF mtx_[c] = "user" THEN [rpc EXCEPT ![c] = "idle"] ELSE rpc
        /\ fresh' = fresh \ {c} /\ UNCHANGED <<listeners_, request, clients_>>
    BY <1>16 DEF UpdateFilterFails, Returned
  <2>2. FilterTypes'
    BY <1>16 DEF UpdateFilterFails, Returned, FilterTypes
  <2>3. ListenersOwned' /\ CallCarriesKeys'
    BY <2>1 DEF FilterTypes, ListenersOwned, CallCarriesKeys, Keys
  <2>4. FiltersAgree'
    BY <2>1 DEF FilterTypes, CallCarriesKeys, FiltersAgree, Keys
  <2> QED BY <2>2, <2>3, <2>4
<1> QED
  BY <1>1, <1>2, <1>3, <1>4, <1>5, <1>6, <1>7, <1>8, <1>9, <1>10, <1>11, <1>12, <1>13, <1>14, <1>15, <1>16
     DEF Next, ClientStep, User

LEMMA FilterInvariant == Spec => []FilterInv
  BY FilterInit, FilterNext, PTL DEF Spec

\* Once a client's last filters have arrived on its stream and no call is under way, the
\* server has the client's own list, whichever thread's call came last.
THEOREM ServerKnowsFilters == Spec => []FiltersAgree
  BY FilterInvariant, PTL DEF FilterInv
-----------------------------------------------------------------------------
(* The order of events.                                                     *)

\* The events of s are in the order in which they were raised.
Rising(s) == \A i, j \in 1 .. Len(s) : i < j => s[i] < s[j]

\* Those of s are older than those of t.
Before(s, t) == \A x \in ToSet(s), y \in ToSet(t) : x < y

Raised == 1 .. Len(events)

PlaceTypes ==
    /\ eventQ_ \in Seq(Raised) /\ writes \in Seq(Raised)
    /\ stream \in [Clients -> Seq(Raised)] /\ tasks \in [Clients -> Seq(Raised)]
    /\ heard \in [Listeners -> Seq(Raised)]

\* From the task list of a client back to the event queue of the server.
PlacesInOrder ==
    /\ Rising(eventQ_) /\ Rising(writes) /\ Before(writes, eventQ_)
    /\ \A c \in Clients :
         /\ Rising(stream[c]) /\ Before(stream[c], writes) /\ Before(stream[c], eventQ_)
         /\ Rising(tasks[c]) /\ Before(tasks[c], stream[c]) /\ Before(tasks[c], writes)
         /\ Before(tasks[c], eventQ_)

\* What a listener has heard is over, and older than what its client has yet to read;
\* with deferred tasks, than what it has yet to handle.
HeardIsOver ==
    \A l \in Listeners :
        /\ Before(heard[l], stream[Owner[l]]) /\ Before(heard[l], writes) /\ Before(heard[l], eventQ_)
        /\ ToSet(heard[l]) \cap ToSet(tasks[Owner[l]]) = {}
        /\ policy_ = "deferred" => Before(heard[l], tasks[Owner[l]])

OrderInv == PlaceTypes /\ PlacesInOrder /\ HeardIsOver /\ HeardInOrder

\* The events of a queue, when one is added and when the first is taken.
LEMMA AppendSet ==
    ASSUME NEW S, NEW s \in Seq(S), NEW x \in S
    PROVE  Append(s, x) \in Seq(S) /\ ToSet(Append(s, x)) = ToSet(s) \cup {x}
<1>1. /\ Append(s, x) \in Seq(S) /\ DOMAIN Append(s, x) = 1 .. Len(s) + 1 /\ DOMAIN s = 1 .. Len(s)
      /\ Append(s, x)[Len(s) + 1] = x /\ Len(s) \in Nat
      /\ \A k \in 1 .. Len(s) : Append(s, x)[k] = s[k]
  OBVIOUS
<1>2. 1 .. Len(s) + 1 = (1 .. Len(s)) \cup {Len(s) + 1}
  BY <1>1
<1> QED BY <1>1, <1>2 DEF ToSet

LEMMA TailSet ==
    ASSUME NEW S, NEW s \in Seq(S), s # <<>>
    PROVE  Tail(s) \in Seq(S) /\ Head(s) \in S /\ ToSet(s) = ToSet(Tail(s)) \cup {Head(s)}
<1>1. /\ Tail(s) \in Seq(S) /\ Head(s) \in S /\ Head(s) = s[1] /\ Len(s) \in Nat \ {0}
      /\ DOMAIN Tail(s) = 1 .. Len(s) - 1 /\ DOMAIN s = 1 .. Len(s)
      /\ \A k \in 1 .. Len(s) - 1 : Tail(s)[k] = s[k + 1]
  OBVIOUS
<1>2. ASSUME NEW x \in ToSet(s) PROVE x \in ToSet(Tail(s)) \cup {Head(s)}
  <2>1. PICK k \in 1 .. Len(s) : s[k] = x
    BY <1>1, <1>2 DEF ToSet
  <2>2. CASE k # 1
    <3>1. k - 1 \in 1 .. Len(s) - 1 /\ Tail(s)[k - 1] = s[k]
      BY <1>1, <2>2
    <3> QED BY <1>1, <2>1, <3>1 DEF ToSet
  <2> QED BY <1>1, <2>1, <2>2
<1>3. ASSUME NEW x \in ToSet(Tail(s)) PROVE x \in ToSet(s)
  <2>1. PICK k \in 1 .. Len(s) - 1 : Tail(s)[k] = x
    BY <1>1, <1>3 DEF ToSet
  <2> QED BY <1>1, <2>1 DEF ToSet
<1>4. Head(s) \in ToSet(s)
  BY <1>1 DEF ToSet
<1> QED BY <1>1, <1>2, <1>3, <1>4

\* An event that is newer than the others may be added.
LEMMA AppendRises ==
    ASSUME NEW s \in Seq(Nat), Rising(s), NEW x \in Nat, \A y \in ToSet(s) : y < x
    PROVE  Rising(Append(s, x))
<1>1. /\ Len(Append(s, x)) = Len(s) + 1 /\ DOMAIN s = 1 .. Len(s) /\ Len(s) \in Nat
      /\ Append(s, x)[Len(s) + 1] = x
      /\ \A k \in 1 .. Len(s) : Append(s, x)[k] = s[k]
  OBVIOUS
<1>2. \A k \in 1 .. Len(s) : s[k] < x
  BY <1>1 DEF ToSet
<1>3. \A k \in 1 .. Len(s) + 1 : k \in 1 .. Len(s) \/ k = Len(s) + 1
  BY <1>1
<1> QED BY <1>1, <1>2, <1>3 DEF Rising

\* The first of a rising queue is the oldest.
LEMMA TailRises ==
    ASSUME NEW s \in Seq(Nat), s # <<>>, Rising(s)
    PROVE  Rising(Tail(s)) /\ \A y \in ToSet(Tail(s)) : Head(s) < y
<1>1. /\ Head(s) = s[1] /\ Len(s) \in Nat \ {0} /\ Len(Tail(s)) = Len(s) - 1
      /\ DOMAIN Tail(s) = 1 .. Len(s) - 1
      /\ \A k \in 1 .. Len(s) - 1 : Tail(s)[k] = s[k + 1]
  OBVIOUS
<1>2. Rising(Tail(s))
  BY <1>1 DEF Rising
<1>3. \A k \in 1 .. Len(s) - 1 : Head(s) < Tail(s)[k]
  BY <1>1 DEF Rising
<1> QED BY <1>1, <1>2, <1>3 DEF ToSet

\* An event goes from the front of one place to the end of the one before.
LEMMA MoveFront ==
    ASSUME NEW s \in Seq(Nat), s # <<>>, NEW t \in Seq(Nat), Rising(s), Rising(t), Before(t, s)
    PROVE  /\ Rising(Tail(s)) /\ Rising(Append(t, Head(s))) /\ Before(Append(t, Head(s)), Tail(s))
           /\ Before(t, Tail(s))
<1>1. Head(s) \in Nat /\ ToSet(s) = ToSet(Tail(s)) \cup {Head(s)}
  BY TailSet
<1>2. ToSet(Append(t, Head(s))) = ToSet(t) \cup {Head(s)}
  BY <1>1, AppendSet
<1>3. Rising(Tail(s)) /\ \A y \in ToSet(Tail(s)) : Head(s) < y
  BY TailRises
<1>4. Rising(Append(t, Head(s)))
  BY <1>1, AppendRises DEF Before
<1> QED BY <1>1, <1>2, <1>3, <1>4 DEF Before

\* Any event is taken out of a rising list.
LEMMA TakeOut ==
    ASSUME NEW S, S \subseteq Nat, NEW s \in Seq(S), Rising(s), NEW i \in 1 .. Len(s)
    PROVE  /\ RemoveAt(s, i) \in Seq(S) /\ Rising(RemoveAt(s, i)) /\ s[i] \in ToSet(s)
           /\ ToSet(RemoveAt(s, i)) \subseteq ToSet(s) \ {s[i]}
           /\ i = 1 => \A y \in ToSet(RemoveAt(s, i)) : s[1] < y
<1> DEFINE a == SubSeq(s, 1, i - 1)
           b == SubSeq(s, i + 1, Len(s))
           r == RemoveAt(s, i)
<1>1. Len(s) \in Nat /\ DOMAIN s = 1 .. Len(s)
  OBVIOUS
<1>2. a \in Seq(S) /\ Len(a) = i - 1 /\ \A k \in 1 .. i - 1 : a[k] = s[k]
  BY <1>1
<1>3. b \in Seq(S) /\ Len(b) = Len(s) - i /\ \A k \in 1 .. Len(s) - i : b[k] = s[i + k]
  <2>1. i + 1 \in 1 .. Len(s) + 1 /\ Len(s) \in (i + 1) - 1 .. Len(s)
    BY <1>1
  <2>2. b \in Seq(S) /\ Len(b) = Len(s) - (i + 1) + 1
        /\ \A k \in 1 .. Len(s) - (i + 1) + 1 : b[k] = s[(i + 1) + k - 1]
    BY <2>1, SubSeqProperties
  <2> HIDE DEF b
  <2> QED BY <1>1, <2>2
<1>4. r = a \o b
  BY DEF RemoveAt
<1> HIDE DEF a, b, r
<1>5. /\ r \in Seq(S) /\ Len(r) = Len(s) - 1 /\ DOMAIN r = 1 .. Len(s) - 1
      /\ \A k \in 1 .. Len(s) - 1 : r[k] = IF k <= i - 1 THEN a[k] ELSE b[k - (i - 1)]
  <2>1. r \in Seq(S) /\ Len(r) = Len(a) + Len(b)
        /\ \A k \in 1 .. Len(a) + Len(b) : r[k] = IF k <= Len(a) THEN a[k] ELSE b[k - Len(a)]
    BY <1>2, <1>3, <1>4, ConcatProperties
  <2>2. Len(a) + Len(b) = Len(s) - 1 /\ DOMAIN r = 1 .. Len(r)
    BY <1>1, <1>2, <1>3, <2>1
  <2> QED BY <1>2, <2>1, <2>2
<1>6. \A k \in 1 .. Len(s) - 1 : r[k] = IF k <= i - 1 THEN s[k] ELSE s[k + 1]
  <2> SUFFICES ASSUME NEW k \in 1 .. Len(s) - 1 PROVE r[k] = IF k <= i - 1 THEN s[k] ELSE s[k + 1]
    OBVIOUS
  <2>1. CASE k <= i - 1
    BY <1>1, <1>2, <1>5, <2>1
  <2>2. CASE ~(k <= i - 1)
    <3>1. k - (i - 1) \in 1 .. Len(s) - i /\ i + (k - (i - 1)) = k + 1
      BY <1>1, <2>2
    <3> QED BY <1>3, <1>5, <2>2, <3>1
  <2> QED BY <2>1, <2>2
<1>7. \A k \in 1 .. Len(s) : s[k] \in Nat
  <2>1. \A k \in 1 .. Len(s) : s[k] \in S
    OBVIOUS
  <2> QED BY <2>1
<1>8. Rising(r)
  BY <1>1, <1>5, <1>6, <1>7 DEF Rising
<1>9. ASSUME NEW y \in ToSet(r) PROVE y \in ToSet(s) /\ y # s[i] /\ (i = 1 => s[1] < y)
  <2>1. PICK k \in 1 .. Len(s) - 1 : r[k] = y
    BY <1>5, <1>9 DEF ToSet
  <2>2. PICK j \in 1 .. Len(s) : s[j] = y /\ j # i
    BY <1>1, <1>6, <2>1
  <2>3. y # s[i] /\ (i = 1 => s[1] < y)
    BY <1>1, <1>7, <2>2 DEF Rising
  <2> QED BY <1>1, <2>2, <2>3 DEF ToSet
<1>10. s[i] \in ToSet(s)
  BY <1>1 DEF ToSet
<1> QED BY <1>5, <1>8, <1>9, <1>10 DEF r

LEMMA NotMoved ==
    ASSUME OrderInv, UNCHANGED <<policy_, events, eventQ_, writes, stream, tasks, heard>>
    PROVE  OrderInv'
  BY DEF OrderInv, PlaceTypes, PlacesInOrder, HeardIsOver, HeardInOrder, Raised

LEMMA OrderInit == Init => OrderInv
<1> SUFFICES ASSUME Init PROVE OrderInv
  OBVIOUS
<1>1. <<>> \in Seq(Raised) /\ ToSet(<<>>) = {} /\ Rising(<<>>)
  BY DEF ToSet, Rising
<1>2. PlaceTypes
  BY <1>1, Zenon DEF Init, PlaceTypes
<1>3. PlacesInOrder
  BY <1>1 DEF Init, PlacesInOrder, Before
<1>4. HeardIsOver /\ HeardInOrder
  BY <1>1, DeliveryAssumption DEF Init, HeardIsOver, HeardInOrder, Before
<1> QED BY <1>2, <1>3, <1>4 DEF OrderInv

\* A new event is newer than all others.
LEMMA RaisedInOrder ==
    ASSUME FilterInv, OrderInv, NEW f \in Filters, UpdateEventQueue(f)
    PROVE  OrderInv'
<1> DEFINE e == Len(events) + 1
<1> USE DEF OrderInv
<1>1. /\ events' = Append(events, f) /\ eventQ_' = Append(eventQ_, e)
      /\ UNCHANGED <<policy_, writes, stream, tasks, heard>>
  BY DEF UpdateEventQueue, client
<1>2. Len(events) \in Nat /\ Raised' = 1 .. e /\ e \in Raised' /\ Raised \subseteq Raised' /\ Raised' \subseteq Nat
  BY <1>1 DEF FilterInv, FilterTypes, Raised
<1>3. \A s \in Seq(Raised) : s \in Seq(Raised') /\ s \in Seq(Nat) /\ \A y \in ToSet(s) : y < e
  <2> SUFFICES ASSUME NEW s \in Seq(Raised)
               PROVE  s \in Seq(Raised') /\ s \in Seq(Nat) /\ \A y \in ToSet(s) : y < e
    OBVIOUS
  <2>1. Seq(Raised) \subseteq Seq(Raised') /\ Seq(Raised) \subseteq Seq(Nat)
    BY <1>2, SeqMonotonic
  <2>2. \A k \in DOMAIN s : s[k] \in Raised
    OBVIOUS
  <2> QED BY <1>2, <2>1, <2>2 DEF ToSet, Raised
<1>4. /\ eventQ_ \in Seq(Raised) /\ writes \in Seq(Raised)
      /\ \A c \in Clients : stream[c] \in Seq(Raised) /\ tasks[c] \in Seq(Raised)
      /\ \A l \in Listeners : heard[l] \in Seq(Raised)
  BY DEF PlaceTypes
<1>5. eventQ_' \in Seq(Raised') /\ ToSet(eventQ_') = ToSet(eventQ_) \cup {e}
  <2>1. eventQ_ \in Seq(Raised') /\ e \in Raised'
    BY <1>2, <1>3, <1>4
  <2>2. Append(eventQ_, e) \in Seq(Raised') /\ ToSet(Append(eventQ_, e)) = ToSet(eventQ_) \cup {e}
    BY <2>1, AppendSet
  <2> QED BY <1>1, <2>2
<1>6. Rising(eventQ_')
  BY <1>1, <1>2, <1>3, <1>4, AppendRises DEF PlacesInOrder
<1> HIDE DEF e
<1>7. PlaceTypes'
  <2>1. stream' \in [Clients -> Seq(Raised')] /\ tasks' \in [Clients -> Seq(Raised')]
    BY <1>1, <1>3, <1>4 DEF PlaceTypes
  <2>2. heard' \in [Listeners -> Seq(Raised')]
    BY <1>1, <1>3, <1>4 DEF PlaceTypes
  <2> QED BY <1>1, <1>3, <1>4, <1>5, <2>1, <2>2 DEF PlaceTypes
<1>8. PlacesInOrder'
  BY <1>1, <1>3, <1>4, <1>5, <1>6 DEF PlacesInOrder, Before
<1>9. HeardIsOver'
  BY <1>1, <1>3, <1>4, <1>5, DeliveryAssumption DEF HeardIsOver, Before
<1>10. HeardInOrder'
  BY <1>1 DEF HeardInOrder
<1> QED BY <1>7, <1>8, <1>9, <1>10

\* An event is dispatched, is written to the streams that want it, is read.
LEMMA DispatchedInOrder == ASSUME FilterInv, OrderInv, EventDispatcher PROVE OrderInv'
<1> USE DEF OrderInv
<1>1. /\ eventQ_ # <<>> /\ writes' = Append(writes, Head(eventQ_)) /\ eventQ_' = Tail(eventQ_)
      /\ UNCHANGED <<policy_, events, stream, tasks, heard>>
  BY DEF EventDispatcher, client
<1>2. Raised' = Raised /\ Raised \subseteq Nat
  BY <1>1 DEF FilterInv, FilterTypes, Raised
<1>3. eventQ_ \in Seq(Raised) /\ writes \in Seq(Raised)
  BY DEF PlaceTypes
<1>4. eventQ_' \in Seq(Raised) /\ Head(eventQ_) \in Raised /\ ToSet(eventQ_) = ToSet(eventQ_') \cup {Head(eventQ_)}
  BY <1>1, <1>3, TailSet
<1>5. writes' \in Seq(Raised) /\ ToSet(writes') = ToSet(writes) \cup {Head(eventQ_)}
  BY <1>1, <1>3, <1>4, AppendSet
<1>6. Rising(eventQ_') /\ Rising(writes') /\ Before(writes', eventQ_')
  <2>1. eventQ_ \in Seq(Nat) /\ writes \in Seq(Nat)
    BY <1>2, <1>3, SeqMonotonic
  <2> QED BY <1>1, <2>1, MoveFront DEF PlacesInOrder
<1>7. PlaceTypes'
  BY <1>1, <1>2, <1>4, <1>5 DEF PlaceTypes
<1>8. PlacesInOrder'
  BY <1>1, <1>4, <1>5, <1>6 DEF PlacesInOrder, Before
<1>9. HeardIsOver'
  BY <1>1, <1>4, <1>5, DeliveryAssumption DEF HeardIsOver, Before
<1>10. HeardInOrder'
  BY <1>1 DEF HeardInOrder
<1> QED BY <1>7, <1>8, <1>9, <1>10

LEMMA WrittenInOrder == ASSUME FilterInv, OrderInv, EventWriter PROVE OrderInv'
<1> DEFINE e == Head(writes)
<1> USE DEF OrderInv
<1>1. /\ writes # <<>> /\ writes' = Tail(writes)
      /\ \A c \in Clients : stream'[c] = Append(stream[c], e) \/ stream'[c] = stream[c]
      /\ DOMAIN stream' = Clients
      /\ stream' = [c \in Clients |-> stream'[c]]
      /\ UNCHANGED <<policy_, events, eventQ_, tasks, heard>>
  BY DEF EventWriter, client
<1>2. Raised' = Raised /\ Raised \subseteq Nat
  BY <1>1 DEF FilterInv, FilterTypes, Raised
<1>3. writes \in Seq(Raised) /\ \A c \in Clients : stream[c] \in Seq(Raised)
  BY DEF PlaceTypes
<1>4. writes' \in Seq(Raised) /\ e \in Raised /\ ToSet(writes) = ToSet(writes') \cup {e}
  BY <1>1, <1>3, TailSet
<1>5. \A c \in Clients : stream'[c] \in Seq(Raised) /\ ToSet(stream'[c]) \subseteq ToSet(stream[c]) \cup {e}
  <2> SUFFICES ASSUME NEW c \in Clients
               PROVE  stream'[c] \in Seq(Raised) /\ ToSet(stream'[c]) \subseteq ToSet(stream[c]) \cup {e}
    OBVIOUS
  <2>1. Append(stream[c], e) \in Seq(Raised) /\ ToSet(Append(stream[c], e)) = ToSet(stream[c]) \cup {e}
    BY <1>3, <1>4, AppendSet
  <2> QED BY <1>1, <1>3, <2>1
<1>6. writes \in Seq(Nat) /\ \A c \in Clients : stream[c] \in Seq(Nat)
  BY <1>2, <1>3, SeqMonotonic
<1>7. \A c \in Clients : Rising(writes') /\ Rising(stream'[c]) /\ Before(stream'[c], writes')
  BY <1>1, <1>6, MoveFront, ZenonT(60) DEF PlacesInOrder
<1>8. Rising(writes')
  BY <1>1, <1>6, TailRises DEF PlacesInOrder
<1> HIDE DEF e
<1>9. PlaceTypes'
  BY <1>1, <1>2, <1>4, <1>5 DEF PlaceTypes
<1>10. PlacesInOrder'
  BY <1>1, <1>4, <1>5, <1>7, <1>8, ZenonT(60) DEF PlacesInOrder, Before
<1>11. HeardIsOver'
  BY <1>1, <1>4, <1>5, DeliveryAssumption DEF HeardIsOver, Before
<1>12. HeardInOrder'
  BY <1>1 DEF HeardInOrder
<1> QED BY <1>9, <1>10, <1>11, <1>12

LEMMA ReadInOrder ==
    ASSUME FilterInv, OrderInv, NEW c \in Clients, ReadEvent(c) PROVE OrderInv'
<1> DEFINE e == Head(stream[c])
<1> USE DEF OrderInv
<1>1. /\ stream[c] # <<>> /\ stream'[c] = Tail(stream[c]) /\ tasks'[c] = Append(tasks[c], e)
      /\ \A d \in Clients \ {c} : stream'[d] = stream[d] /\ tasks'[d] = tasks[d]
      /\ stream' = [d \in Clients |-> stream'[d]] /\ tasks' = [d \in Clients |-> tasks'[d]]
      /\ UNCHANGED <<policy_, events, eventQ_, writes, heard>>
  BY DEF ReadEvent, PlaceTypes
<1>2. Raised' = Raised /\ Raised \subseteq Nat
  BY <1>1 DEF FilterInv, FilterTypes, Raised
<1>3. stream[c] \in Seq(Raised) /\ tasks[c] \in Seq(Raised)
  BY DEF PlaceTypes
<1>4. stream'[c] \in Seq(Raised) /\ e \in Raised /\ ToSet(stream[c]) = ToSet(stream'[c]) \cup {e}
  BY <1>1, <1>3, TailSet
<1>5. tasks'[c] \in Seq(Raised) /\ ToSet(tasks'[c]) = ToSet(tasks[c]) \cup {e}
  BY <1>1, <1>3, <1>4, AppendSet
<1>6. Rising(stream'[c]) /\ Rising(tasks'[c]) /\ Before(tasks'[c], stream'[c])
  <2>1. stream[c] \in Seq(Nat) /\ tasks[c] \in Seq(Nat)
    BY <1>2, <1>3, SeqMonotonic
  <2> QED BY <1>1, <2>1, MoveFront DEF PlacesInOrder
<1> HIDE DEF e
<1>7. PlaceTypes'
  <2>1. \A d \in Clients : stream'[d] \in Seq(Raised) /\ tasks'[d] \in Seq(Raised)
    BY <1>1, <1>4, <1>5 DEF PlaceTypes
  <2> QED BY <1>1, <1>2, <2>1 DEF PlaceTypes
<1>8. PlacesInOrder'
  BY <1>1, <1>4, <1>5, <1>6 DEF PlacesInOrder, Before
<1>9. \A l \in Listeners : \A x \in ToSet(heard[l]) : Owner[l] = c => x \in Nat /\ x < e /\ x # e
  <2>1. \A l \in Listeners : \A x \in ToSet(heard[l]) : x \in Nat
    <3>1. \A l \in Listeners : \A k \in DOMAIN heard[l] : heard[l][k] \in Raised
      BY DEF PlaceTypes
    <3> QED BY <1>2, <3>1 DEF ToSet
  <2>2. e \in Nat
    BY <1>2, <1>4
  <2> QED BY <1>4, <2>1, <2>2 DEF HeardIsOver, Before
<1>10. HeardIsOver'
  <2> SUFFICES ASSUME NEW l \in Listeners
               PROVE /\ Before(heard[l], stream'[Owner[l]]) /\ Before(heard[l], writes)
                     /\ Before(heard[l], eventQ_)
                     /\ ToSet(heard[l]) \cap ToSet(tasks'[Owner[l]]) = {}
                     /\ policy_ = "deferred" => Before(heard[l], tasks'[Owner[l]])
    BY <1>1 DEF HeardIsOver
  <2>1. CASE Owner[l] = c
    BY <1>4, <1>5, <1>9, <2>1 DEF HeardIsOver, Before
  <2>2. CASE Owner[l] # c
    <3>1. stream'[Owner[l]] = stream[Owner[l]] /\ tasks'[Owner[l]] = tasks[Owner[l]]
      BY <1>1, <2>2, DeliveryAssumption
    <3> QED BY <3>1 DEF HeardIsOver
  <2> QED BY <2>1, <2>2
<1>11. HeardInOrder'
  BY <1>1 DEF HeardInOrder
<1> QED BY <1>7, <1>8, <1>10, <1>11

\* A listener hears an event that was waiting for its client: any of those, or the oldest.
LEMMA HandledInOrder ==
    ASSUME FilterInv, OrderInv, NEW c \in Clients, NEW i \in DOMAIN tasks[c], HandleEvent(c, i)
    PROVE  OrderInv'
<1> DEFINE e == tasks[c][i]
<1> USE DEF OrderInv
<1>1. /\ policy_ = "deferred" => i = 1
      /\ tasks'[c] = RemoveAt(tasks[c], i) /\ \A d \in Clients \ {c} : tasks'[d] = tasks[d]
      /\ tasks' = [d \in Clients |-> tasks'[d]]
      /\ heard' = [l \in Listeners |-> heard'[l]]
      /\ UNCHANGED <<policy_, events, eventQ_, writes, stream>>
  BY DEF HandleEvent, PlaceTypes, server
<1>2. \A l \in Listeners : heard'[l] = heard[l] \/ (heard'[l] = Append(heard[l], e) /\ Owner[l] = c)
  <2>1. \A l \in Listeners : heard'[l] = IF l \in Of(c, events[e]) \cap alive
                                         THEN Append(heard[l], e) ELSE heard[l]
    BY DEF HandleEvent
  <2>2. \A l \in Of(c, events[e]) : Owner[l] = c
    BY DEF FilterInv, ListenersOwned, Of
  <2> QED BY <2>1, <2>2
<1>3. Raised' = Raised /\ Raised \subseteq Nat
  BY <1>1 DEF FilterInv, FilterTypes, Raised
<1>4. tasks[c] \in Seq(Raised) /\ i \in 1 .. Len(tasks[c]) /\ Rising(tasks[c]) /\ e \in Raised
      /\ \A l \in Listeners : heard[l] \in Seq(Raised)
  <2>1. tasks[c] \in Seq(Raised) /\ \A l \in Listeners : heard[l] \in Seq(Raised)
    BY DEF PlaceTypes
  <2>2. Rising(tasks[c])
    BY DEF PlacesInOrder
  <2> QED BY <2>1, <2>2
<1>5. /\ tasks'[c] \in Seq(Raised) /\ Rising(tasks'[c]) /\ e \in ToSet(tasks[c])
      /\ ToSet(tasks'[c]) \subseteq ToSet(tasks[c]) \ {e}
      /\ i = 1 => \A y \in ToSet(tasks'[c]) : e < y
  BY <1>1, <1>3, <1>4, TakeOut
<1>6. \A l \in Listeners :
        /\ heard'[l] \in Seq(Raised)
        /\ \/ heard'[l] = heard[l]
           \/ Owner[l] = c /\ ToSet(heard'[l]) = ToSet(heard[l]) \cup {e} /\ heard'[l] = Append(heard[l], e)
  <2> SUFFICES ASSUME NEW l \in Listeners
               PROVE  /\ heard'[l] \in Seq(Raised)
                      /\ \/ heard'[l] = heard[l]
                         \/ /\ Owner[l] = c /\ ToSet(heard'[l]) = ToSet(heard[l]) \cup {e}
                            /\ heard'[l] = Append(heard[l], e)
    OBVIOUS
  <2>1. Append(heard[l], e) \in Seq(Raised) /\ ToSet(Append(heard[l], e)) = ToSet(heard[l]) \cup {e}
    BY <1>4, AppendSet
  <2> QED BY <1>2, <1>4, <2>1
<1> HIDE DEF e
<1>7. PlaceTypes'
  <2>1. \A d \in Clients : tasks'[d] \in Seq(Raised)
    BY <1>1, <1>5 DEF PlaceTypes
  <2> QED BY <1>1, <1>3, <1>6, <2>1 DEF PlaceTypes
<1>8. PlacesInOrder'
  BY <1>1, <1>5 DEF PlacesInOrder, Before
<1>9. HeardIsOver'
  <2> SUFFICES ASSUME NEW l \in Listeners
               PROVE /\ Before(heard'[l], stream[Owner[l]]) /\ Before(heard'[l], writes)
                     /\ Before(heard'[l], eventQ_)
                     /\ ToSet(heard'[l]) \cap ToSet(tasks'[Owner[l]]) = {}
                     /\ policy_ = "deferred" => Before(heard'[l], tasks'[Owner[l]])
    BY <1>1 DEF HeardIsOver
  <2>1. /\ Before(heard[l], stream[Owner[l]]) /\ Before(heard[l], writes)
        /\ Before(heard[l], eventQ_)
        /\ ToSet(heard[l]) \cap ToSet(tasks[Owner[l]]) = {}
        /\ policy_ = "deferred" => Before(heard[l], tasks[Owner[l]])
    BY DEF HeardIsOver
  <2>2. CASE Owner[l] = c
    <3>1. ToSet(heard'[l]) \subseteq ToSet(heard[l]) \cup {e}
      BY <1>6
    <3>2. Before(tasks[c], stream[c]) /\ Before(tasks[c], writes) /\ Before(tasks[c], eventQ_)
      BY DEF PlacesInOrder
    <3> QED BY <1>1, <1>5, <2>1, <2>2, <3>1, <3>2 DEF Before
  <2>3. CASE Owner[l] # c
    <3>1. heard'[l] = heard[l] /\ tasks'[Owner[l]] = tasks[Owner[l]]
      BY <1>1, <1>6, <2>3, DeliveryAssumption
    <3> QED BY <2>1, <3>1
  <2> QED BY <2>2, <2>3
<1>10. HeardInOrder'
  <2> SUFFICES ASSUME NEW l \in Listeners, NEW p \in DOMAIN heard'[l], NEW q \in DOMAIN heard'[l], p < q
               PROVE  /\ heard'[l][p] # heard'[l][q]
                      /\ policy_ = "deferred" => heard'[l][p] < heard'[l][q]
    BY <1>1 DEF HeardInOrder
  <2>1. CASE heard'[l] = heard[l]
    BY <2>1 DEF HeardInOrder
  <2>2. CASE Owner[l] = c /\ heard'[l] = Append(heard[l], e)
    <3>1. /\ DOMAIN heard[l] = 1 .. Len(heard[l]) /\ Len(heard[l]) \in Nat
          /\ DOMAIN heard'[l] = 1 .. Len(heard[l]) + 1
          /\ heard'[l][Len(heard[l]) + 1] = e
          /\ \A k \in 1 .. Len(heard[l]) : heard'[l][k] = heard[l][k]
      BY <1>4, <2>2
    <3>2. p \in 1 .. Len(heard[l]) /\ (q \in 1 .. Len(heard[l]) \/ q = Len(heard[l]) + 1)
      BY <3>1
    <3>3. CASE q \in 1 .. Len(heard[l])
      BY <3>1, <3>2, <3>3 DEF HeardInOrder
    <3>4. CASE q = Len(heard[l]) + 1
      <4>1. heard'[l][p] \in ToSet(heard[l]) /\ heard'[l][q] = e
        BY <3>1, <3>2, <3>4 DEF ToSet
      <4>2. e \notin ToSet(heard[l]) /\ (policy_ = "deferred" => \A x \in ToSet(heard[l]) : x < e)
        BY <1>5, <2>2 DEF HeardIsOver, Before
      <4> QED BY <4>1, <4>2
    <3> QED BY <3>2, <3>3, <3>4
  <2> QED BY <1>6, <2>1, <2>2
<1> QED BY <1>7, <1>8, <1>9, <1>10

LEMMA CancelKeepsOrder ==
    ASSUME FilterInv, OrderInv, NEW c \in Clients, Cancel(c) PROVE OrderInv'
<1> USE DEF OrderInv
<1>1. /\ stream'[c] = <<>> /\ (tasks'[c] = <<>> \/ tasks'[c] = tasks[c])
      /\ \A d \in Clients \ {c} : stream'[d] = stream[d] /\ tasks'[d] = tasks[d]
      /\ stream' = [d \in Clients |-> stream'[d]] /\ tasks' = [d \in Clients |-> tasks'[d]]
      /\ UNCHANGED <<policy_, events, eventQ_, writes, heard>>
  BY DEF Cancel, PlaceTypes
<1>2. <<>> \in Seq(Raised) /\ ToSet(<<>>) = {} /\ Rising(<<>>) /\ Raised' = Raised
  BY <1>1 DEF ToSet, Rising, Raised
<1>3. \A d \in Clients :
        /\ stream'[d] \in Seq(Raised) /\ Rising(stream'[d]) /\ ToSet(stream'[d]) \subseteq ToSet(stream[d])
        /\ tasks'[d] \in Seq(Raised) /\ Rising(tasks'[d]) /\ ToSet(tasks'[d]) \subseteq ToSet(tasks[d])
  <2> SUFFICES ASSUME NEW d \in Clients
      PROVE /\ stream'[d] \in Seq(Raised) /\ Rising(stream'[d]) /\ ToSet(stream'[d]) \subseteq ToSet(stream[d])
            /\ tasks'[d] \in Seq(Raised) /\ Rising(tasks'[d]) /\ ToSet(tasks'[d]) \subseteq ToSet(tasks[d])
    OBVIOUS
  <2>1. stream[d] \in Seq(Raised) /\ Rising(stream[d]) /\ tasks[d] \in Seq(Raised) /\ Rising(tasks[d])
    BY DEF PlaceTypes, PlacesInOrder
  <2>2. (stream'[d] = <<>> \/ stream'[d] = stream[d]) /\ (tasks'[d] = <<>> \/ tasks'[d] = tasks[d])
    BY <1>1
  <2> QED BY <1>2, <2>1, <2>2
<1>4. PlaceTypes'
  BY <1>1, <1>2, <1>3 DEF PlaceTypes
<1>5. PlacesInOrder'
  BY <1>1, <1>3 DEF PlacesInOrder, Before
<1>6. HeardIsOver'
  BY <1>1, <1>3, DeliveryAssumption DEF HeardIsOver, Before
<1>7. HeardInOrder'
  BY <1>1 DEF HeardInOrder
<1> QED BY <1>4, <1>5, <1>6, <1>7

LEMMA OrderNext == FilterInv /\ OrderInv /\ [Next]_vars => OrderInv'
<1> SUFFICES ASSUME FilterInv, OrderInv, [Next]_vars PROVE OrderInv'
  OBVIOUS
<1>1. ASSUME NEW c \in Clients,
             \/ Connect(c) \/ UpdateFilter(c) \/ UpdateFilterFails(c) \/ RegisterForEvents(c) \/ Cleanup(c)
             \/ \E who \in {"events", "user"} : UpdateFilters(c, who)
      PROVE  OrderInv'
  BY <1>1, NotMoved
     DEF Connect, UpdateFilter, UpdateFilterFails, RegisterForEvents, Cleanup, UpdateFilters, server, client
<1>2. ASSUME NEW l \in Listeners,
             Expire(l) \/ \E f \in Filters : RegisterListener(l, f) \/ DeregisterListener(l, f)
      PROVE  OrderInv'
  BY <1>2, NotMoved DEF Expire, RegisterListener, DeregisterListener, server
<1>3. CASE UNCHANGED vars
  BY <1>3, NotMoved DEF vars, server, client
<1> QED
  BY <1>1, <1>2, <1>3, RaisedInOrder, DispatchedInOrder, WrittenInOrder, ReadInOrder, HandledInOrder,
     CancelKeepsOrder DEF Next, ClientStep, User

\* A listener is given no event twice, and reports, which deferred tasks handle one
\* after the other, in the order in which the server raised them.
THEOREM HeardOnceInOrder == Spec => []HeardInOrder
<1>1. OrderInv => HeardInOrder
  BY DEF OrderInv
<1> QED BY <1>1, FilterInvariant, OrderInit, OrderNext, PTL DEF Spec

\* Every variable of the event service keeps its type, and an event is at one place of
\* the server.
THEOREM DeliveryTyped == Spec => []TypeOK
<1>1. ASSUME FilterInv, OrderInv PROVE TypeOK
  <2>1. ToSet(eventQ_) \subseteq DOMAIN events /\ ToSet(writes) \subseteq DOMAIN events
    <3>1. (\A k \in DOMAIN eventQ_ : eventQ_[k] \in Raised) /\ \A k \in DOMAIN writes : writes[k] \in Raised
      BY <1>1 DEF OrderInv, PlaceTypes
    <3>2. DOMAIN events = Raised
      BY <1>1 DEF FilterInv, FilterTypes, Raised
    <3> QED BY <3>1, <3>2 DEF ToSet
  <2>2. ToSet(eventQ_) \cap ToSet(writes) = {}
    <3>1. \A x \in ToSet(writes) : x \in Nat
      BY <1>1, <2>1 DEF FilterInv, FilterTypes
    <3> QED BY <1>1, <3>1 DEF OrderInv, PlacesInOrder, Before
  <2>3. \A c \in Clients, f \in Filters : \A l \in Of(c, f) : Owner[l] = c
    BY <1>1 DEF FilterInv, ListenersOwned, Of
  <2> QED BY <1>1, <2>1, <2>2, <2>3 DEF FilterInv, FilterTypes, ListenersOwned, TypeOK
<1> QED BY <1>1, FilterInvariant, OrderInit, OrderNext, PTL DEF Spec
================================================================================
