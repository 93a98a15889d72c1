-------------------------- MODULE FactoryHelperProofs --------------------------
(***************************************************************************)
(* Proofs about FactoryHelper, for any clients, managers and outcomes.     *)
(*                                                                         *)
(* CalledOnce is not inductive: it does not say where a callback waits.    *)
(* OnePlace says that a client's callback is stored, or taken over by one  *)
(* init thread, or in the hands of a detached thread, or called, and never *)
(* in two of these places.  SharedManager needs to know that it is the     *)
(* manager the factory remembers which is held, and that a failure is      *)
(* never forgotten: only a manager that is still asking changes its status.*)
(***************************************************************************)
EXTENDS FactoryHelper, TLAPS

\* A callback is in one place at a time, and nowhere before its client has called.
OnePlace ==
    \A c \in Clients :
        /\ cpc[c] = "new" => /\ c \notin callbacks /\ c \notin direct /\ heard[c] = <<>>
                             /\ \A m \in Managers : c \notin local[m]
        /\ c \in callbacks => /\ c \notin direct /\ heard[c] = <<>>
                              /\ \A m \in Managers : c \notin local[m]
        /\ c \in direct => heard[c] = <<>> /\ \A m \in Managers : c \notin local[m]
        /\ \A m \in Managers : c \in local[m] =>
               heard[c] = <<>> /\ \A n \in Managers : c \in local[n] => n = m

\* The init thread of a manager that was not created has not begun, one that has not
\* heard from the server leaves the status alone, and one that calls back has a
\* status to report.
ThreadStatus ==
    \A m \in Managers :
        /\ m > created => ipc[m] = "none"
        /\ ipc[m] \in {"none", "ask"} => status[m] = "UNAVAILABLE"
        /\ ipc[m] \in {"take", "call"} => status[m] \in {"AVAILABLE", "FAILED"}

\* Until an initialisation fails, whoever holds a manager holds the remembered one.
HoldsRemembered ==
    (\A m \in Managers : status[m] # "FAILED")
    => \A c \in Clients : held[c] # Nobody => held[c] = weakManager

FactoryInv == TypeOK /\ OnePlace /\ ThreadStatus /\ HoldsRemembered /\ CalledOnce

\* What weakManager.lock() returns is Nobody or the remembered manager, and Nobody
\* only if no client holds the remembered one.
LEMMA LockedFacts ==
    ASSUME TypeOK
    PROVE  /\ Locked \in 0 .. MaxManagers
           /\ Locked # Nobody => Locked = weakManager /\ Locked \in Managers
           /\ Locked = Nobody => \A c \in Clients : held[c] # Nobody => held[c] # weakManager
  BY FactoryAssumption DEF Locked, TypeOK, Nobody, Managers

\* The three facts that make FactoryInv an invariant of getManager and initCb.
LEMMA FactoryInit == Init => FactoryInv
  BY FactoryAssumption DEF Init, FactoryInv, TypeOK, OnePlace, ThreadStatus, HoldsRemembered,
     CalledOnce, Managers, Nobody

LEMMA FactoryNext == FactoryInv /\ [Next]_vars => FactoryInv'
<1> SUFFICES ASSUME FactoryInv, [Next]_vars PROVE FactoryInv'
  OBVIOUS
<1> USE FactoryAssumption DEF FactoryInv
<1>1. ASSUME NEW c \in Clients, GetFailed(c) PROVE FactoryInv'
  BY <1>1 DEF GetFailed, TypeOK, OnePlace, ThreadStatus, HoldsRemembered, CalledOnce
<1>2. ASSUME NEW c \in Clients, GetAvailable(c) PROVE FactoryInv'
  <2>1. TypeOK'
    BY <1>2, LockedFacts DEF GetAvailable, TypeOK
  <2>2. OnePlace'
    BY <1>2 DEF GetAvailable, TypeOK, OnePlace
  <2>3. ThreadStatus' /\ CalledOnce'
    BY <1>2 DEF GetAvailable, ThreadStatus, CalledOnce
  <2>4. HoldsRemembered'
    BY <1>2, LockedFacts DEF GetAvailable, TypeOK, HoldsRemembered
  <2> QED BY <2>1, <2>2, <2>3, <2>4
<1>3. ASSUME NEW c \in Clients, GetInProgress(c) PROVE FactoryInv'
  <2>1. TypeOK'
    BY <1>3, LockedFacts DEF GetInProgress, TypeOK
  <2>2. OnePlace'
    BY <1>3 DEF GetInProgress, TypeOK, OnePlace
  <2>3. ThreadStatus' /\ CalledOnce'
    BY <1>3 DEF GetInProgress, ThreadStatus, CalledOnce
  <2>4. HoldsRemembered'
    BY <1>3, LockedFacts DEF GetInProgress, TypeOK, HoldsRemembered
  <2> QED BY <2>1, <2>2, <2>3, <2>4
<1>4. ASSUME NEW c \in Clients, GetNew(c) PROVE FactoryInv'
  <2>0. created + 1 \in Managers /\ created' = created + 1
    BY <1>4 DEF GetNew, TypeOK, Managers
  <2>1. TypeOK'
    BY <1>4, <2>0 DEF GetNew, TypeOK, Managers
  <2>2. OnePlace'
    BY <1>4 DEF GetNew, TypeOK, OnePlace
  <2>3. ThreadStatus' /\ CalledOnce'
    BY <1>4, <2>0 DEF GetNew, ThreadStatus, CalledOnce, TypeOK, Managers
  <2>4. HoldsRemembered'
    BY <1>4, LockedFacts DEF GetNew, TypeOK, HoldsRemembered
  <2> QED BY <2>1, <2>2, <2>3, <2>4
<1>5. ASSUME NEW c \in Clients, Release(c) PROVE FactoryInv'
  BY <1>5 DEF Release, TypeOK, OnePlace, ThreadStatus, HoldsRemembered, CalledOnce, Nobody
<1>6. ASSUME NEW c \in Clients, DirectCallback(c) PROVE FactoryInv'
  <2>0. heard[c] = <<>>
    BY <1>6 DEF DirectCallback, OnePlace
  <2>1. heard' = [heard EXCEPT ![c] = <<"AVAILABLE">>]
    BY <1>6, <2>0 DEF DirectCallback, Called, TypeOK
  <2>2. TypeOK' /\ CalledOnce'
    BY <1>6, <2>1 DEF DirectCallback, TypeOK, CalledOnce
  <2>3. OnePlace'
    BY <1>6, <2>1 DEF DirectCallback, TypeOK, OnePlace
  <2>4. ThreadStatus' /\ HoldsRemembered'
    BY <1>6 DEF DirectCallback, ThreadStatus, HoldsRemembered
  <2> QED BY <2>2, <2>3, <2>4
<1>7. ASSUME NEW m \in Managers, SetStatus(m) PROVE FactoryInv'
  <2>1. PICK o \in Outcomes, next \in {"delay", "silent"} :
            status' = [status EXCEPT ![m] = o] /\ ipc' = [ipc EXCEPT ![m] = next]
    BY <1>7 DEF SetStatus
  <2>2. TypeOK'
    BY <1>7, <2>1 DEF SetStatus, TypeOK
  <2>3. OnePlace' /\ CalledOnce'
    BY <1>7 DEF SetStatus, OnePlace, CalledOnce
  <2>4. ThreadStatus'
    BY <1>7, <2>1 DEF SetStatus, TypeOK, ThreadStatus, Managers
  <2>5. (\A n \in Managers : status'[n] # "FAILED") => \A n \in Managers : status[n] # "FAILED"
    BY <1>7, <2>1 DEF SetStatus, TypeOK, ThreadStatus
  <2>6. HoldsRemembered'
    BY <1>7, <2>5 DEF SetStatus, HoldsRemembered
  <2> QED BY <2>2, <2>3, <2>4, <2>6
<1>8. ASSUME NEW m \in Managers, InitCb(m) PROVE FactoryInv'
  <2>1. TypeOK'
    BY <1>8 DEF InitCb, TypeOK, Nobody
  <2>2. OnePlace' /\ CalledOnce'
    BY <1>8 DEF InitCb, OnePlace, CalledOnce
  <2>3. ThreadStatus'
    BY <1>8 DEF InitCb, TypeOK, ThreadStatus, Managers
  <2>4. HoldsRemembered'
    BY <1>8 DEF InitCb, HoldsRemembered
  <2> QED BY <2>1, <2>2, <2>3, <2>4
<1>9. ASSUME NEW m \in Managers, TakeCallbacks(m) PROVE FactoryInv'
  <2>1. TypeOK' /\ CalledOnce' /\ HoldsRemembered'
    BY <1>9 DEF TakeCallbacks, TypeOK, CalledOnce, HoldsRemembered
  <2>2. OnePlace'
    BY <1>9 DEF TakeCallbacks, TypeOK, OnePlace
  <2>3. ThreadStatus'
    BY <1>9 DEF TakeCallbacks, TypeOK, ThreadStatus, Managers
  <2> QED BY <2>1, <2>2, <2>3
<1>10. ASSUME NEW m \in Managers, CallBack(m) PROVE FactoryInv'
  <2>1. ASSUME NEW c \in local[m], local' = [local EXCEPT ![m] = @ \ {c}], Called(c, status[m]),
               UNCHANGED <<ipc, weakManager, callbacks, created, status, cpc, held, direct>>
        PROVE FactoryInv'
    <3>1. c \in Clients
      BY <2>1 DEF TypeOK
    <3>2. heard[c] = <<>> /\ status[m] \in {"AVAILABLE", "FAILED"}
      BY <1>10, <2>1, <3>1 DEF CallBack, OnePlace, ThreadStatus
    <3>3. heard' = [heard EXCEPT ![c] = <<status[m]>>]
      BY <2>1, <3>1, <3>2 DEF Called, TypeOK
    <3>4. TypeOK' /\ CalledOnce'
      BY <2>1, <3>1, <3>2, <3>3 DEF TypeOK, CalledOnce
    <3>5. OnePlace'
      BY <2>1, <3>1, <3>3 DEF TypeOK, OnePlace
    <3>6. ThreadStatus' /\ HoldsRemembered'
      BY <2>1 DEF ThreadStatus, HoldsRemembered
    <3> QED BY <3>4, <3>5, <3>6
  <2>2. CASE /\ local[m] = {} /\ ipc' = [ipc EXCEPT ![m] = "done"]
             /\ UNCHANGED <<local, heard, weakManager, callbacks, created, status, cpc, held, direct>>
    BY <1>10, <2>2 DEF CallBack, TypeOK, OnePlace, ThreadStatus, HoldsRemembered, CalledOnce, Managers
  <2> QED BY <1>10, <2>1, <2>2 DEF CallBack
<1>11. CASE UNCHANGED vars
  BY <1>11 DEF vars, TypeOK, OnePlace, ThreadStatus, HoldsRemembered, CalledOnce
<1> QED
  BY <1>1, <1>2, <1>3, <1>4, <1>5, <1>6, <1>7, <1>8, <1>9, <1>10, <1>11
     DEF Next, GetManager, InitThread

LEMMA FactoryInvariant == Spec => []FactoryInv
  BY FactoryInit, FactoryNext, PTL DEF Spec

\* The variables of getManager and of the init threads keep their types; in
\* particular a callback is only ever told AVAILABLE or FAILED.
THEOREM FactoryTyped == Spec => []TypeOK
  BY FactoryInvariant, PTL DEF FactoryInv

\* Whatever the managers that are created, fail and are forgotten, no client's
\* callback is called twice.
THEOREM CallbackCalledOnce == Spec => []CalledOnce
  BY FactoryInvariant, PTL DEF FactoryInv

\* The factory shares one manager among all its clients as long as none has failed.
THEOREM ManagerIsShared == Spec => []SharedManager
<1>1. FactoryInv => SharedManager
  BY DEF FactoryInv, HoldsRemembered, SharedManager
<1> QED BY <1>1, FactoryInvariant, PTL
================================================================================
