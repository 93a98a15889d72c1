----------------------------- MODULE FactoryHelper -----------------------------
(***************************************************************************)
(* telux::common::FactoryHelper::getManager as SatcomFactoryStub uses it,  *)
(* with NtnManagerStub's asynchronous initialisation.                      *)
(*                                                                         *)
(* Clients ask for the manager and pass a callback; C_SatCommService::init *)
(* is such a client and waits for the callback whatever getManager         *)
(* returned.  The manager's init thread asks the server, stores the status *)
(* and, after a delay, runs initCb, which forgets a failed manager and     *)
(* calls the clients' callbacks.  factoryMutex_ is held only inside a      *)
(* step, but initCb takes it twice.                                        *)
(*                                                                         *)
(* A weak pointer to a manager can be locked as long as a client holds it; *)
(* the destructor waits for the init thread, which goes on to run initCb.  *)
(***************************************************************************)
EXTENDS Integers, Sequences, FiniteSets

CONSTANTS
    Clients,        \* getManager calls, each with a callback of its own
    MaxManagers,    \* bound: managers created
    Outcomes        \* what initialisation may end in

ASSUME FactoryAssumption ==
    /\ MaxManagers \in Nat
    /\ Outcomes \subseteq {"AVAILABLE", "FAILED", "UNAVAILABLE"}

Managers == 1 .. MaxManagers
Nobody   == 0

VARIABLES
    weakManager,   \* the manager the factory remembers, or Nobody
    callbacks,     \* clients whose callbacks are stored
    created,       \* managers created so far
    status,        \* getServiceStatus() of each manager
    ipc, local,    \* init thread of each manager: pc, callbacks taken over
    cpc,           \* client: "new", "called", "released"
    held,          \* the manager the client was given
    direct,        \* clients a detached thread is about to call back
    heard          \* the statuses each client's callback got, in order

vars == <<weakManager, callbacks, created, status, ipc, local, cpc, held, direct, heard>>

Init ==
    /\ weakManager = Nobody /\ callbacks = {} /\ created = 0
    /\ status = [m \in Managers |-> "UNAVAILABLE"]
    /\ ipc = [m \in Managers |-> "none"] /\ local = [m \in Managers |-> {}]
    /\ cpc = [c \in Clients |-> "new"] /\ held = [c \in Clients |-> Nobody]
    /\ direct = {} /\ heard = [c \in Clients |-> <<>>]

\* Mutant: the weak pointer can be locked only once the manager is available.
LockedWhenAvailable ==
    IF /\ weakManager # Nobody /\ status[weakManager] = "AVAILABLE"
       /\ \E c \in Clients : held[c] = weakManager
    THEN weakManager ELSE Nobody

\* weakManager.lock(): the manager is still alive if somebody holds it.
Locked == IF \E c \in Clients : held[c] = weakManager THEN weakManager ELSE Nobody

-----------------------------------------------------------------------------
(* getManager(), under factoryMutex_.                                       *)

\* The manager has failed, but initCb has not forgotten it yet: nullptr, and the
\* callback is not stored.
GetFailed(c) ==
    /\ cpc[c] = "new" /\ Locked # Nobody /\ status[Locked] = "FAILED"
    /\ cpc' = [cpc EXCEPT ![c] = "called"]
    /\ UNCHANGED <<weakManager, callbacks, created, status, ipc, local, held, direct, heard>>

\* Mutant: the callback of a client that comes late is stored like the others.
GetAvailableStored(c) ==
    /\ cpc[c] = "new" /\ Locked # Nobody /\ status[Locked] = "AVAILABLE"
    /\ callbacks' = callbacks \cup {c}
    /\ held' = [held EXCEPT ![c] = Locked]
    /\ cpc' = [cpc EXCEPT ![c] = "called"]
    /\ UNCHANGED <<weakManager, created, status, ipc, local, direct, heard>>

\* A detached thread will call back.
GetAvailable(c) ==
    /\ cpc[c] = "new" /\ Locked # Nobody /\ status[Locked] = "AVAILABLE"
    /\ direct' = direct \cup {c}
    /\ held' = [held EXCEPT ![c] = Locked]
    /\ cpc' = [cpc EXCEPT ![c] = "called"]
    /\ UNCHANGED <<weakManager, callbacks, created, status, ipc, local, heard>>

GetInProgress(c) ==
    /\ cpc[c] = "new" /\ Locked # Nobody /\ status[Locked] = "UNAVAILABLE"
    /\ callbacks' = callbacks \cup {c}
    /\ held' = [held EXCEPT ![c] = Locked]
    /\ cpc' = [cpc EXCEPT ![c] = "called"]
    /\ UNCHANGED <<weakManager, created, status, ipc, local, direct, heard>>

GetNew(c) ==
    /\ cpc[c] = "new" /\ Locked = Nobody /\ created < MaxManagers
    /\ created' = created + 1
    /\ ipc' = [ipc EXCEPT ![created + 1] = "ask"]
    /\ weakManager' = created + 1
    /\ callbacks' = callbacks \cup {c}
    /\ held' = [held EXCEPT ![c] = created + 1]
    /\ cpc' = [cpc EXCEPT ![c] = "called"]
    /\ UNCHANGED <<status, local, direct, heard>>

\* The client drops its pointer.  With the last one the weak pointer expires, and
\* the destructor then waits for the init thread.
Release(c) ==
    /\ cpc[c] = "called" /\ held[c] # Nobody
    /\ held' = [held EXCEPT ![c] = Nobody]
    /\ cpc' = [cpc EXCEPT ![c] = "released"]
    /\ UNCHANGED <<weakManager, callbacks, created, status, ipc, local, direct, heard>>

Called(c, s) == heard' = [heard EXCEPT ![c] = Append(@, s)]

DirectCallback(c) ==
    /\ c \in direct
    /\ direct' = direct \ {c}
    /\ Called(c, "AVAILABLE")
    /\ UNCHANGED <<weakManager, callbacks, created, status, ipc, local, cpc, held>>

-----------------------------------------------------------------------------
(* NtnManagerStub::initSync and the initCb of getManager.                   *)

\* InitService answered, or failed (UNAVAILABLE): setSubSystemStatus.  Whatever the
\* status, the delay may be SKIP_CALLBACK; nobody is called back then.
SetStatus(m) ==
    /\ ipc[m] = "ask"
    /\ \E o \in Outcomes : status' = [status EXCEPT ![m] = o]
    /\ \E next \in {"delay", "silent"} : ipc' = [ipc EXCEPT ![m] = next]
    /\ UNCHANGED <<weakManager, callbacks, created, local, cpc, held, direct, heard>>

\* initCb: only AVAILABLE and FAILED are passed on; a failed manager is forgotten
\* under factoryMutex_, which is then released.
InitCb(m) ==
    /\ ipc[m] = "delay"
    /\ weakManager' = IF status[m] = "FAILED" THEN Nobody ELSE weakManager
    /\ ipc' = [ipc EXCEPT ![m] = IF status[m] = "UNAVAILABLE" THEN "silent" ELSE "take"]
    /\ UNCHANGED <<callbacks, created, status, local, cpc, held, direct, heard>>

\* Mutant: the stored callbacks are copied and not cleared.
TakeCallbacksCopy(m) ==
    /\ ipc[m] = "take"
    /\ local' = [local EXCEPT ![m] = callbacks]
    /\ ipc' = [ipc EXCEPT ![m] = "call"]
    /\ UNCHANGED <<weakManager, callbacks, created, status, cpc, held, direct, heard>>

\* initCompleteNotifier: take the stored callbacks over, under factoryMutex_.
TakeCallbacks(m) ==
    /\ ipc[m] = "take"
    /\ local' = [local EXCEPT ![m] = callbacks]
    /\ callbacks' = {}
    /\ ipc' = [ipc EXCEPT ![m] = "call"]
    /\ UNCHANGED <<weakManager, created, status, cpc, held, direct, heard>>

CallBack(m) ==
    /\ ipc[m] = "call"
    /\ \/ /\ \E c \in local[m] : /\ local' = [local EXCEPT ![m] = @ \ {c}]
                                 /\ Called(c, status[m])
          /\ UNCHANGED ipc
       \/ /\ local[m] = {}
          /\ ipc' = [ipc EXCEPT ![m] = "done"]
          /\ UNCHANGED <<local, heard>>
    /\ UNCHANGED <<weakManager, callbacks, created, status, cpc, held, direct>>

-----------------------------------------------------------------------------
InitThread(m) == SetStatus(m) \/ InitCb(m) \/ TakeCallbacks(m) \/ CallBack(m)
GetManager(c) == GetFailed(c) \/ GetAvailable(c) \/ GetInProgress(c) \/ GetNew(c)
Next == \/ \E c \in Clients : GetManager(c) \/ Release(c) \/ DirectCallback(c)
        \/ \E m \in Managers : InitThread(m)

\* Threads that were started run on; clients need not call or release.
Spec == /\ Init /\ [][Next]_vars
        /\ \A m \in Managers : WF_vars(InitThread(m))
        /\ \A c \in Clients : WF_vars(DirectCallback(c))

-----------------------------------------------------------------------------
TypeOK ==
    /\ weakManager \in 0 .. MaxManagers /\ callbacks \subseteq Clients
    /\ created \in 0 .. MaxManagers
    /\ status \in [Managers -> {"UNAVAILABLE", "AVAILABLE", "FAILED"}]
    /\ ipc \in [Managers -> {"none", "ask", "delay", "take", "call", "done", "silent"}]
    /\ local \in [Managers -> SUBSET Clients]
    /\ cpc \in [Clients -> {"new", "called", "released"}]
    /\ held \in [Clients -> 0 .. MaxManagers]
    /\ direct \subseteq Clients
    /\ heard \in [Clients -> Seq({"AVAILABLE", "FAILED"})]

\* A callback is called at most once, although it may be taken over by either of
\* two managers or handed to a detached thread.
CalledOnce == \A c \in Clients : Len(heard[c]) <= 1

\* As long as no initialisation has failed, all clients that hold a manager hold
\* the same one, however they come and go while it is initialised.
SharedManager ==
    (\A m \in Managers : status[m] # "FAILED")
    => \A c, d \in Clients : held[c] # Nobody /\ held[d] # Nobody => held[c] = held[d]

\* A client that was given a manager is called back, by the init thread of that
\* manager or of a later one or by a detached thread, unless initialisation ends
\* in UNAVAILABLE or is configured to skip the callback, where the code is silent.
HolderIsCalled ==
    \A c \in Clients : \A m \in Managers :
        held[c] = m ~> heard[c] # <<>> \/ ipc[m] = "silent"
================================================================================
