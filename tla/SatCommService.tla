--------------------------- MODULE SatCommService ---------------------------
(***************************************************************************)
(* C_SatCommService: the ACK-paced NB-NTN audio uplink.                    *)
(*                                                                         *)
(* Four threads share the object:                                          *)
(*   worker   workerLoop_(), started by init() and joined by shutdown();   *)
(*   app      a client thread in sendAudioFrame(), abortUplink() or one of *)
(*            the thin wrappers around ntn_;                               *)
(*   control  the client thread that calls init() and shutdown();          *)
(*   TelSDK   the callback thread that runs the INtnListener overrides.    *)
(*                                                                         *)
(* A step is the code between two points at which another thread can       *)
(* observe it: an atomic load or store, a notify, acquiring mtx_, blocking *)
(* on cv_, a call into the NTN manager.  mtx_ is held across steps only by *)
(* the worker, so who holds it is a function of the worker's pc.           *)
(*                                                                         *)
(* A frame is a model value with a size; a Pdu is a slice of a frame, and  *)
(* bytes are never looked at by the code.  The NTN manager is external: it *)
(* accepts or rejects a chunk, and completes each accepted chunk exactly   *)
(* once through onDataAck, whatever the error code (onDataAck ignores it). *)
(***************************************************************************)
EXTENDS Integers, Sequences, FiniteSets

CONSTANTS
    Frames,        \* the sendAudioFrame() calls of the client
    Size,          \* bytes of each frame
    Mtus,          \* the values of maxDataSize the modem reports
    FallbackMtu,   \* 256 in the code
    NoFrame        \* stands for "no frame in hand"

ASSUME FramesAssumption == Size \in [Frames -> Nat \ {0}] /\ NoFrame \notin Frames
ASSUME MtuAssumption    == Mtus \subseteq Nat /\ FallbackMtu \in Nat \ {0}

VARIABLES
    ntn_,          \* TRUE iff the manager pointer is non-null
    listening,     \* this object is registered as INtnListener
    mtu_,          \* last known maxDataSize, 0 = unknown
    running_,
    inFlight_,     \* TRUE = awaiting ACK
    serviceOk_,    \* IN_SERVICE + AVAILABLE gate
    q_,            \* queue of slices
    wpc,           \* worker's program counter
    cur,           \* the slice the worker is sending, cur.lo is the offset
    m,             \* the worker's local copy of the MTU
    apc, aframe,   \* app thread: program counter, frame being enqueued
    cpc, ready,    \* control thread: program counter, last result of init()
    outstanding,   \* chunks accepted by the modem, not completed
    tpc,           \* TelSDK thread: inside onDataAck or not
    accepted,      \* history: frames pushed, in order
    sent,          \* history: chunks accepted by the modem, in order
    lost           \* history: slices that will never be sent, why

svc   == <<ntn_, listening, mtu_, running_, inFlight_, serviceOk_, q_>>
wrk   == <<wpc, cur, m>>
app   == <<apc, aframe>>
ctl   == <<cpc, ready>>
modem == <<outstanding, tpc>>
hist  == <<accepted, sent, lost>>
vars  == <<svc, wrk, app, ctl, modem, hist>>

\* A non-empty range of bytes [lo, hi) of a frame.
Slices  == [f : Frames, lo : Nat, hi : Nat]
NoSlice == [f |-> NoFrame, lo |-> 0, hi |-> 0]

WorkerPCs == {"none", "start", "lock", "wait", "block", "asleep", "woken",
              "mtu", "probe", "store", "arm", "send", "reject", "requeue",
              "ackwait", "ackblock", "ackasleep", "ackwoken", "exited"}
AppPCs     == {"idle", "push", "notify", "abort", "wrap"}
ControlPCs == {"idle", "acquire", "register", "caps", "gate", "run", "spawn",
               "stop", "notify", "join", "drain", "release"}
TelSdkPCs  == {"idle", "store", "notify"}
Reasons    == {"rejected", "stopped"}

\* The worker owns mtx_ from the moment it evaluates a wait predicate until it
\* blocks or unlocks.
WorkerHoldsMtx == wpc \in {"block", "woken", "ackblock", "ackwoken"}
WorkerAsleep   == wpc \in {"asleep", "ackasleep"}
WorkerAlive    == wpc \notin {"none", "exited"}

\* cv_.notify_one() and cv_.notify_all(): the worker is the only thread that
\* waits on cv_, and a notification nobody is waiting for is lost.
Notified == CASE wpc = "asleep"    -> "wait"
              [] wpc = "ackasleep" -> "ackwait"
              [] OTHER             -> wpc

Init ==
    /\ ntn_ = FALSE /\ listening = FALSE /\ mtu_ = 0
    /\ running_ = FALSE /\ inFlight_ = FALSE /\ serviceOk_ = FALSE
    /\ q_ = <<>>
    /\ wpc = "none" /\ cur = NoSlice /\ m = 0
    /\ apc = "idle" /\ aframe = NoFrame
    /\ cpc = "idle" /\ ready = FALSE
    /\ outstanding = {} /\ tpc = "idle"
    /\ accepted = <<>> /\ sent = <<>> /\ lost = {}

-----------------------------------------------------------------------------
(* The worker thread: workerLoop_().                                        *)

\* running_.store(true), the first statement of the thread.
WorkerStart ==
    /\ wpc = "start"
    /\ running_' = TRUE
    /\ wpc' = "lock"
    /\ UNCHANGED <<ntn_, listening, mtu_, inFlight_, serviceOk_, q_, cur, m,
                   app, ctl, modem, hist>>

\* The predicate of the wait for work.
WorkPredicate == ~running_ \/ (q_ # <<>> /\ serviceOk_ /\ ~inFlight_)

\* The worker has mtx_ (from unique_lock, or from cv_.wait taking it back) and
\* evaluates the predicate.  It keeps mtx_ until the next step.
WorkerWait ==
    /\ wpc \in {"lock", "wait"}
    /\ wpc' = IF WorkPredicate THEN "woken" ELSE "block"
    /\ UNCHANGED <<svc, cur, m, app, ctl, modem, hist>>

\* cv_.wait releases mtx_ and blocks, in one step.
WorkerBlock ==
    /\ wpc = "block"
    /\ wpc' = "asleep"
    /\ UNCHANGED <<svc, cur, m, app, ctl, modem, hist>>

\* Out of the wait, with mtx_: leave, go round again, or take the next Pdu.
WorkerWoken ==
    /\ wpc = "woken"
    /\ \/ /\ ~running_
          /\ wpc' = "exited"
          /\ UNCHANGED <<q_, cur>>
       \/ /\ running_
          /\ q_ = <<>> \/ ~serviceOk_ \/ inFlight_
          /\ wpc' = "lock"
          /\ UNCHANGED <<q_, cur>>
       \/ /\ running_
          /\ q_ # <<>> /\ serviceOk_ /\ ~inFlight_
          /\ cur' = Head(q_)
          /\ q_' = Tail(q_)
          /\ wpc' = "mtu"
    /\ UNCHANGED <<ntn_, listening, mtu_, running_, inFlight_, serviceOk_, m,
                   app, ctl, modem, hist>>

WorkerLoadMtu ==
    /\ wpc = "mtu"
    /\ m' = mtu_
    /\ wpc' = IF mtu_ = 0 THEN "probe" ELSE "arm"
    /\ UNCHANGED <<svc, cur, app, ctl, modem, hist>>

\* Mutant: no fallback when the modem reports nothing.
WorkerProbeMtuNoFallback ==
    /\ wpc = "probe"
    /\ \E c \in Mtus \cup {0} : m' = c
    /\ wpc' = "store"
    /\ UNCHANGED <<svc, cur, app, ctl, modem, hist>>

\* getNtnCapabilities() may fail, and may report 0.
WorkerProbeMtu ==
    /\ wpc = "probe"
    /\ \E c \in Mtus \cup {0} : m' = IF c = 0 THEN FallbackMtu ELSE c
    /\ wpc' = "store"
    /\ UNCHANGED <<svc, cur, app, ctl, modem, hist>>

WorkerStoreMtu ==
    /\ wpc = "store"
    /\ mtu_' = m
    /\ wpc' = "arm"
    /\ UNCHANGED <<ntn_, listening, running_, inFlight_, serviceOk_, q_,
                   cur, m, app, ctl, modem, hist>>

\* The chunk at the current offset: sendSz bytes, the remainder or m.
Chunk == [cur EXCEPT !.hi = IF cur.hi - cur.lo < m THEN cur.hi ELSE cur.lo + m]

\* Mutant: the offset advances by one byte too few.
RemainderOneShort == [cur EXCEPT !.lo = Chunk.hi - 1]

\* What is left of the Pdu behind that chunk.
Remainder == [cur EXCEPT !.lo = Chunk.hi]

\* inFlight_ is raised before the call, since the ACK may overtake its return.
WorkerArm ==
    /\ wpc = "arm"
    /\ inFlight_' = TRUE
    /\ wpc' = "send"
    /\ UNCHANGED <<ntn_, listening, mtu_, running_, serviceOk_, q_, cur, m,
                   app, ctl, modem, hist>>

\* sendChunk_(), accepted by the modem.
WorkerSendAccepted ==
    /\ wpc = "send"
    /\ outstanding' = outstanding \cup {Chunk}
    /\ sent' = Append(sent, Chunk)
    /\ wpc' = "ackwait"
    /\ UNCHANGED <<svc, cur, m, app, ctl, tpc, accepted, lost>>

\* sendChunk_() returned an error.
WorkerSendRejected ==
    /\ wpc = "send"
    /\ wpc' = "reject"
    /\ UNCHANGED <<svc, cur, m, app, ctl, modem, hist>>

\* The chunk that failed is given up; the client learns it from cb_.onDataAck.
WorkerDisarm ==
    /\ wpc = "reject"
    /\ inFlight_' = FALSE
    /\ lost' = lost \cup {[slice |-> Chunk, why |-> "rejected"]}
    /\ wpc' = "requeue"
    /\ UNCHANGED <<ntn_, listening, mtu_, running_, serviceOk_, q_, cur, m,
                   app, ctl, modem, accepted, sent>>

\* Mutant: the remainder is not pushed back.
WorkerRequeueNothing ==
    /\ wpc = "requeue"
    /\ cur' = NoSlice
    /\ wpc' = "lock"
    /\ UNCHANGED <<svc, m, app, ctl, modem, hist>>

\* "Push back remainder": at the back of the queue, under mtx_.
WorkerRequeue ==
    /\ wpc = "requeue"
    /\ q_' = IF Remainder.lo < Remainder.hi THEN Append(q_, Remainder) ELSE q_
    /\ cur' = NoSlice
    /\ wpc' = "lock"
    /\ UNCHANGED <<ntn_, listening, mtu_, running_, inFlight_, serviceOk_, m,
                   app, ctl, modem, hist>>

\* Mutant: the sense of inFlight_ is inverted.
AckPredicateInverted == ~running_ \/ inFlight_

\* The predicate of the wait for the ACK.
AckPredicate == ~running_ \/ ~inFlight_

WorkerAckWait ==
    /\ wpc = "ackwait"
    /\ wpc' = IF AckPredicate THEN "ackwoken" ELSE "ackblock"
    /\ UNCHANGED <<svc, cur, m, app, ctl, modem, hist>>

WorkerAckBlock ==
    /\ wpc = "ackblock"
    /\ wpc' = "ackasleep"
    /\ UNCHANGED <<svc, cur, m, app, ctl, modem, hist>>

\* Out of the wait for the ACK: return and abandon the Pdu, go on with its next
\* chunk, or be done with it.
WorkerAckWoken ==
    /\ wpc = "ackwoken"
    /\ \/ /\ ~running_
          /\ lost' = IF Remainder.lo < Remainder.hi
                     THEN lost \cup {[slice |-> Remainder, why |-> "stopped"]}
                     ELSE lost
          /\ cur' = NoSlice
          /\ wpc' = "exited"
       \/ /\ running_
          /\ Remainder.lo < Remainder.hi
          /\ cur' = Remainder
          /\ wpc' = "arm"
          /\ UNCHANGED lost
       \/ /\ running_
          /\ Remainder.lo = Remainder.hi
          /\ cur' = NoSlice
          /\ wpc' = "lock"
          /\ UNCHANGED lost
    /\ UNCHANGED <<svc, m, app, ctl, modem, accepted, sent>>

\* A condition variable may wake without being notified.
SpuriousWakeup ==
    /\ WorkerAsleep
    /\ wpc' = Notified
    /\ UNCHANGED <<svc, cur, m, app, ctl, modem, hist>>

Worker ==
    \/ WorkerStart \/ WorkerWait \/ WorkerBlock \/ WorkerWoken
    \/ WorkerLoadMtu \/ WorkerProbeMtu \/ WorkerStoreMtu
    \/ WorkerArm \/ WorkerSendAccepted \/ WorkerSendRejected
    \/ WorkerDisarm \/ WorkerRequeue
    \/ WorkerAckWait \/ WorkerAckBlock \/ WorkerAckWoken

-----------------------------------------------------------------------------
(* The app thread.                                                          *)

\* sendAudioFrame(): the pointer check, outside mtx_.
SendAudioFrame(f) ==
    /\ apc = "idle" /\ ntn_
    /\ f \notin {accepted[i] : i \in 1 .. Len(accepted)}
    /\ apc' = "push" /\ aframe' = f
    /\ UNCHANGED <<svc, wrk, ctl, modem, hist>>

\* Mutant: the newest frame goes first.
PushFrameFront ==
    /\ apc = "push" /\ ~WorkerHoldsMtx
    /\ q_' = <<[f |-> aframe, lo |-> 0, hi |-> Size[aframe]]>> \o q_
    /\ accepted' = Append(accepted, aframe)
    /\ apc' = "notify" /\ aframe' = NoFrame
    /\ UNCHANGED <<ntn_, listening, mtu_, running_, inFlight_, serviceOk_,
                   wrk, ctl, modem, sent, lost>>

PushFrame ==
    /\ apc = "push" /\ ~WorkerHoldsMtx
    /\ q_' = Append(q_, [f |-> aframe, lo |-> 0, hi |-> Size[aframe]])
    /\ accepted' = Append(accepted, aframe)
    /\ apc' = "notify" /\ aframe' = NoFrame
    /\ UNCHANGED <<ntn_, listening, mtu_, running_, inFlight_, serviceOk_,
                   wrk, ctl, modem, sent, lost>>

NotifyFrame ==
    /\ apc = "notify"
    /\ wpc' = Notified
    /\ apc' = "idle"
    /\ UNCHANGED <<svc, cur, m, aframe, ctl, modem, hist>>

\* abortUplink(), and the wrappers isNtnSupported .. updateSystemSelection-
\* Specifiers: check the pointer, then use it.
CheckPointer ==
    /\ apc = "idle" /\ ntn_
    /\ apc' \in {"abort", "wrap"}
    /\ UNCHANGED <<svc, wrk, aframe, ctl, modem, hist>>

\* A wrapper's call changes nothing here: what it makes the modem do arrives
\* through the listener.  The call reads ntn_ again; a call through a pointer
\* that shutdown() has reset since the check ends the process, so no behaviour
\* continues with it.
WrappedCall ==
    /\ apc = "wrap" /\ ntn_
    /\ apc' = "idle"
    /\ UNCHANGED <<svc, wrk, aframe, ctl, modem, hist>>

-----------------------------------------------------------------------------
(* The modem and the TelSDK callback thread.                                *)

\* The chunk is acknowledged, times out or is aborted: one onDataAck for the
\* registered listener, nothing if there is none.
Complete(c) ==
    /\ tpc = "idle" /\ c \in outstanding
    /\ outstanding' = outstanding \ {c}
    /\ tpc' = IF listening THEN "store" ELSE "idle"

ModemCompletes ==
    /\ \E c \in outstanding : Complete(c)
    /\ UNCHANGED <<svc, wrk, app, ctl, hist>>

\* abortUplink() calls abortData(): what is outstanding completes with an error.
AbortData ==
    /\ apc = "abort" /\ ntn_
    /\ IF outstanding = {} THEN UNCHANGED modem
                           ELSE \E c \in outstanding : Complete(c)
    /\ apc' = "idle"
    /\ UNCHANGED <<svc, wrk, aframe, ctl, hist>>

OnDataAckStore ==
    /\ tpc = "store"
    /\ inFlight_' = FALSE
    /\ tpc' = "notify"
    /\ UNCHANGED <<ntn_, listening, mtu_, running_, serviceOk_, q_,
                   wrk, app, ctl, outstanding, hist>>

OnDataAckNotify ==
    /\ tpc = "notify"
    /\ wpc' = Notified
    /\ tpc' = "idle"
    /\ UNCHANGED <<svc, cur, m, app, ctl, outstanding, hist>>

\* onNtnStateChange and onServiceStatusChange; ServiceGate models which value
\* they compute.
OnServiceChange ==
    /\ tpc = "idle" /\ listening
    /\ serviceOk_' \in BOOLEAN
    /\ UNCHANGED <<ntn_, listening, mtu_, running_, inFlight_, q_,
                   wrk, app, ctl, modem, hist>>

OnCapabilitiesChange ==
    /\ tpc = "idle" /\ listening
    /\ \E c \in Mtus : mtu_' = IF c > 0 THEN c ELSE mtu_
    /\ UNCHANGED <<ntn_, listening, running_, inFlight_, serviceOk_, q_,
                   wrk, app, ctl, modem, hist>>

-----------------------------------------------------------------------------
(* The control thread: init() and shutdown().                               *)

InitCall ==
    /\ cpc = "idle"
    /\ IF ntn_ THEN ready' = TRUE  /\ UNCHANGED cpc
               ELSE ready' = FALSE /\ cpc' = "acquire"
    /\ UNCHANGED <<svc, wrk, app, modem, hist>>

\* getNtnManager() and its callback: no manager, a manager that is not
\* available, or one that is.
InitAcquire ==
    /\ cpc = "acquire"
    /\ \/ UNCHANGED ntn_ /\ cpc' = "idle"
       \/ ntn_' = TRUE   /\ cpc' = "idle"
       \/ ntn_' = TRUE   /\ cpc' = "register"
    /\ UNCHANGED <<listening, mtu_, running_, inFlight_, serviceOk_, q_,
                   wrk, app, ready, modem, hist>>

InitRegister ==
    /\ cpc = "register"
    /\ \/ UNCHANGED listening /\ cpc' = "idle"
       \/ listening' = TRUE   /\ cpc' = "caps"
    /\ UNCHANGED <<ntn_, mtu_, running_, inFlight_, serviceOk_, q_,
                   wrk, app, ready, modem, hist>>

InitCapabilities ==
    /\ cpc = "caps"
    /\ \E c \in Mtus \cup {0} : mtu_' = IF c > 0 THEN c ELSE mtu_
    /\ cpc' = "gate"
    /\ UNCHANGED <<ntn_, listening, running_, inFlight_, serviceOk_, q_,
                   wrk, app, ready, modem, hist>>

InitGate ==
    /\ cpc = "gate"
    /\ serviceOk_' \in BOOLEAN
    /\ cpc' = "run"
    /\ UNCHANGED <<ntn_, listening, mtu_, running_, inFlight_, q_,
                   wrk, app, ready, modem, hist>>

\* Mutant: init() starts the session with inFlight_ lowered.
InitRunDisarmed ==
    /\ cpc = "run"
    /\ running_' = TRUE /\ inFlight_' = FALSE
    /\ cpc' = "spawn"
    /\ UNCHANGED <<ntn_, listening, mtu_, serviceOk_, q_,
                   wrk, app, ready, modem, hist>>

InitRun ==
    /\ cpc = "run"
    /\ running_' = TRUE
    /\ cpc' = "spawn"
    /\ UNCHANGED <<ntn_, listening, mtu_, inFlight_, serviceOk_, q_,
                   wrk, app, ready, modem, hist>>

StartWorker ==
    /\ cpc = "spawn"
    /\ wpc' = IF wpc = "none" THEN "start" ELSE wpc
    /\ ready' = TRUE
    /\ cpc' = "idle"
    /\ UNCHANGED <<svc, cur, m, app, modem, hist>>

ShutdownCall ==
    /\ cpc = "idle"
    /\ cpc' = "stop"
    /\ UNCHANGED <<svc, wrk, app, ready, modem, hist>>

StopStore ==
    /\ cpc = "stop"
    /\ running_' = FALSE
    /\ cpc' = "notify"
    /\ UNCHANGED <<ntn_, listening, mtu_, inFlight_, serviceOk_, q_,
                   wrk, app, ready, modem, hist>>

\* Mutant: nobody is notified.
StopSilently ==
    /\ cpc = "notify"
    /\ cpc' = "join"
    /\ UNCHANGED <<svc, wrk, app, ready, modem, hist>>

StopNotify ==
    /\ cpc = "notify"
    /\ wpc' = Notified
    /\ cpc' = "join"
    /\ UNCHANGED <<svc, cur, m, app, ready, modem, hist>>

\* Mutant: the worker is detached instead of joined.
StopDetach ==
    /\ cpc = "join"
    /\ cpc' = "drain"
    /\ UNCHANGED <<svc, wrk, app, ready, modem, hist>>

StopJoin ==
    /\ cpc = "join" /\ ~WorkerAlive
    /\ wpc' = "none"
    /\ cpc' = "drain"
    /\ UNCHANGED <<svc, cur, m, app, ready, modem, hist>>

StopDrain ==
    /\ cpc = "drain"
    /\ q_' = <<>>
    /\ lost' = lost \cup {[slice |-> q_[i], why |-> "stopped"] : i \in 1 .. Len(q_)}
    /\ cpc' = "release"
    /\ UNCHANGED <<ntn_, listening, mtu_, running_, inFlight_, serviceOk_,
                   wrk, app, ready, modem, accepted, sent>>

\* Mutant: the manager is kept and the listener stays registered.
ShutdownKeepsManager ==
    /\ cpc = "release"
    /\ cpc' = "idle" /\ ready' = FALSE
    /\ UNCHANGED <<svc, wrk, app, modem, hist>>

\* deregisterListener() and ntn_.reset(), skipped when there is no manager.
ShutdownRelease ==
    /\ cpc = "release"
    /\ ntn_' = FALSE /\ listening' = FALSE
    /\ cpc' = "idle" /\ ready' = FALSE
    /\ UNCHANGED <<mtu_, running_, inFlight_, serviceOk_, q_,
                   wrk, app, modem, hist>>

-----------------------------------------------------------------------------
App     == \/ \E f \in Frames : SendAudioFrame(f)
           \/ PushFrame \/ NotifyFrame \/ CheckPointer \/ WrappedCall \/ AbortData
TelSdk  == ModemCompletes \/ OnDataAckStore \/ OnDataAckNotify
           \/ OnServiceChange \/ OnCapabilitiesChange
InInit  == InitAcquire \/ InitRegister \/ InitCapabilities \/ InitGate
           \/ InitRun \/ StartWorker
InStop  == StopStore \/ StopNotify \/ StopJoin \/ StopDrain \/ ShutdownRelease
Control == InitCall \/ ShutdownCall \/ InInit \/ InStop

Next == Worker \/ SpuriousWakeup \/ App \/ TelSdk \/ Control

(* Every thread that is inside a call keeps running, and the modem completes *)
(* what it accepted.  Nobody is obliged to make a call, and spurious wakeups *)
(* may never come.                                                           *)
Fairness ==
    /\ WF_vars(Worker)
    /\ WF_vars(PushFrame) /\ WF_vars(NotifyFrame) /\ WF_vars(WrappedCall)
    /\ WF_vars(AbortData)
    /\ WF_vars(ModemCompletes) /\ WF_vars(OnDataAckStore) /\ WF_vars(OnDataAckNotify)
    /\ WF_vars(InInit) /\ WF_vars(InStop)

Spec     == Init /\ [][Next]_vars
FairSpec == Spec /\ Fairness

-----------------------------------------------------------------------------
(* Properties.                                                              *)

FlagsOK ==
    /\ ntn_ \in BOOLEAN /\ listening \in BOOLEAN /\ running_ \in BOOLEAN
    /\ inFlight_ \in BOOLEAN /\ serviceOk_ \in BOOLEAN /\ ready \in BOOLEAN

DataOK ==
    /\ mtu_ \in Nat /\ m \in Nat
    /\ q_ \in Seq(Slices)
    /\ wpc \in WorkerPCs /\ cur \in Slices \cup {NoSlice}
    /\ apc \in AppPCs /\ aframe \in Frames \cup {NoFrame}
    /\ cpc \in ControlPCs
    /\ outstanding \subseteq Slices /\ tpc \in TelSdkPCs
    /\ accepted \in Seq(Frames) /\ sent \in Seq(Slices)
    /\ lost \subseteq [slice : Slices, why : Reasons]

TypeOK == FlagsOK /\ DataOK

\* "Only one in-flight PDU at a time": the modem never holds two chunks that it
\* has not completed, and none is handed over before the previous one's
\* onDataAck ran, across failed sends, aborts, shutdown and a new init().
OneInFlight ==
    /\ \A c, d \in outstanding : c = d
    /\ ~(outstanding # {} /\ tpc = "store")

\* No byte is handed to the modem twice and a frame's chunks leave in order,
\* whatever is rejected, put back, acknowledged late or cut short by shutdown().
NoByteTwice ==
    \A i, j \in 1 .. Len(sent) :
        i < j /\ sent[i].f = sent[j].f => sent[i].hi <= sent[j].lo

\* Every chunk moves the offset: no chunk is empty (an empty one would be sent
\* again for ever), even when the modem never reports maxDataSize.
NoEmptyChunk ==
    \A i \in 1 .. Len(sent) : sent[i].lo < sent[i].hi

\* The pieces of frame f: acknowledged or in the modem, given up, queued, or in
\* the worker's hands (in its hands, and not yet counted in sent or lost).
Unsent ==
    CASE wpc \in {"mtu", "probe", "store", "arm", "send", "reject"} -> {cur}
      [] wpc \in {"requeue", "ackwait", "ackblock", "ackasleep", "ackwoken"}
             -> {Remainder}
      [] OTHER -> {}

Pieces(f) ==
    {p \in {sent[i] : i \in 1 .. Len(sent)} \cup {l.slice : l \in lost}
           \cup {q_[i] : i \in 1 .. Len(q_)} \cup Unsent : p.f = f}

\* sendAudioFrame() returned SUCCESS, so every byte of the frame is in exactly
\* one place: sent, queued, in the worker's hands or given up for a reason.
NothingVanishes ==
    \A i \in 1 .. Len(accepted) :
        \A b \in 0 .. Size[accepted[i]] - 1 :
            Cardinality({p \in Pieces(accepted[i]) : p.lo <= b /\ b < p.hi}) = 1

\* The worker dereferences ntn_ without a check, so shutdown() must have joined
\* it before it resets the pointer; while it lives it is also registered, or no
\* ACK could ever release it.
WorkerHasManager == WorkerAlive => ntn_ /\ listening

\* The service implements the one-chunk channel.  A chunk is on its way until its
\* onDataAck has stored, or until the modem completes it for no listener.  The
\* chunks are those of the actual frames, so that TLC can enumerate them.
FrameChunks == UNION {[f : {f}, lo : 0 .. Size[f], hi : 0 .. Size[f]] : f \in Frames}
Channel == INSTANCE UplinkChannel WITH
               Chunks <- FrameChunks,
               busy   <- outstanding # {} \/ tpc = "store",
               log    <- sent
ImplementsChannel == Channel!Spec

\* Frame f was pushed before frame g.
Before(f, g) ==
    \E i, j \in 1 .. Len(accepted) :
        i < j /\ accepted[i] = f /\ accepted[j] = g

\* As long as the modem rejects nothing the order is kept, and after a rejection
\* it is still kept between frames none of whose chunks was rejected.
OrderOfUnrejected ==
    \A i, j \in 1 .. Len(sent) :
        /\ Before(sent[i].f, sent[j].f)
        /\ \A l \in lost : l.why = "rejected" => l.slice.f \notin {sent[i].f, sent[j].f}
        => i < j

\* Outside init() and shutdown(), a registered listener means a live worker that
\* nobody has told to stop, and a true result of init() a manager.  (A true result
\* does not mean a listener: init() after a failed init() finds ntn_ set.)
SessionHasWorker ==
    cpc = "idle" => /\ listening => WorkerAlive /\ running_
                    /\ ready => ntn_

\* shutdown() that has cleared running_ and finds the worker asleep gets it out
\* and returns: no notification, ACK or gate change can send it back to sleep.
ShutdownOfSleeperEnds ==
    cpc = "notify" /\ ~running_ /\ WorkerAsleep ~> cpc = "idle"

\* "Deregister listener, stop worker thread": shutdown() always returns.  Does
\* not hold: running_ is stored and cv_ notified without mtx_, so the worker can
\* evaluate its predicate before and block after; and a worker that starts late
\* sets running_ again.
ShutdownEnds == cpc = "stop" ~> cpc = "idle"
=============================================================================
