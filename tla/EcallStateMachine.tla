-------------------------- MODULE EcallStateMachine --------------------------
(***************************************************************************)
(* The eCall procedure of the simulation server: EcallStateMachine, the    *)
(* state machine framework under it and the part of CallManagerServerImpl  *)
(* that serves it (call table, HLAP timers, redial), for one phone.        *)
(*                                                                         *)
(* Nothing of it is locked.  The thread that dials, Hangup and MSD         *)
(* handlers and the tasks of expired timers all run state code; onEnter    *)
(* and onExit sleep in the middle, and a state change nested in onEnter    *)
(* runs the rest of the procedure.  The state code is a program, a         *)
(* sequence of instructions <<op, argument>>; a thread is the instructions *)
(* it has left and the sleep it is in.  Requests come at any time.         *)
(*                                                                         *)
(* Time is discrete, in seconds, and passes when every thread sleeps.  T2, *)
(* T9 and T10 take hours: they end when nothing shorter is under way.      *)
(* Notifications to clients are left out.                                  *)
(***************************************************************************)
EXTENDS Integers, Sequences, SequencesExt

CONSTANTS
    Configs,       \* settings of the simulation, of the kind Config
    Requests,      \* what an eCall may be asked for with, of the kind Request
    Numbers,       \* remote party numbers
    MaxCalls,      \* bound: eCalls asked for
    MaxHangups,    \* bound: Hangup requests
    MaxPulls       \* bound: UpdateECallMsd requests

Timers      == {"T2", "T5", "T6", "T7", "T9", "T10"}
LongTimers  == {"T2", "T9", "T10"}
Delay(t)    == IF t = "T7" THEN 20 ELSE 5       \* of the others
MachineStates == {"CallConnect", "DecodeSendMSD", "CRCCheckonMSD", "DecodeMSD",
                  "CallConversation", "PSAPCallback", "ModemRedial"}
CallStates  == {"IDLE", "DIALING", "ALERTING", "ACTIVE", "ENDED"}
Calls       == 1 .. MaxCalls
Machines    == 0 .. MaxCalls                    \* 0 = nullptr

\* NG or CS, automatic cleardown (AL-ACK), the redial scenario and the timers made to
\* fail, for regulatory eCalls; the redial attempts; the ECALL_ONLY operating mode.
Config == [ng : BOOLEAN, alack : BOOLEAN, redial : {"SUCCESS", "CALLORIG", "CALLDROP"},
           failed : SUBSET {"T5", "T6", "T7"}, attempts : Nat, only : BOOLEAN]

\* The number, whether it is a custom one, over IMS, with MSD.
Request == [number : Numbers, custom : BOOLEAN, ims : BOOLEAN, msd : BOOLEAN]

ASSUME EcallAssumption ==
    /\ MaxCalls \in Nat /\ MaxHangups \in Nat /\ MaxPulls \in Nat
    /\ Configs \subseteq Config /\ Requests \subseteq Request
    /\ \A r \in Requests : r.ims => r.custom

VARIABLES
    k,                      \* the settings
    asked,                  \* CallInfo of every eCall asked for, refused ones included
    hangups, pulls,         \* requests so far
    ecallStateMachine_,     \* the machine, named after the eCall it was made for
    param, currentState_, started_, eventPull, updateInProgress_,   \* of each machine
    thread,                 \* [m, i, prog, left]: machine, call index, instructions, sleep left
    calls_, callState, redialECallCache_,
    eCallRedialIsOngoing_, callEndOperationCompleted_,
    active,                 \* HLAP timers whose status is ACTIVE
    tasks,                  \* timer and removal tasks: [t, n, i, left]
    hungUp,                 \* calls hung up
    disturbed,              \* a request came while the server was at work, or for a call
                            \* that the machine does not serve
    crashed                 \* a null pointer was used

machine == <<ecallStateMachine_, param, currentState_, started_, eventPull, updateInProgress_>>
table   == <<calls_, callState, redialECallCache_, callEndOperationCompleted_>>
requests == <<asked, hangups, pulls, hungUp, disturbed>>
vars == <<k, requests, machine, thread, table, eCallRedialIsOngoing_, active, tasks, crashed>>

callInfo_ == asked[Len(asked)]
NoParam == [index |-> 0, custom |-> FALSE, ng |-> FALSE, msd |-> FALSE, alack |-> FALSE,
            redial |-> "SUCCESS", failed |-> {}]

Init ==
    /\ k \in Configs
    /\ asked = <<>> /\ hangups = 0 /\ pulls = 0 /\ ecallStateMachine_ = 0
    /\ param = [m \in Machines |-> NoParam]
    /\ currentState_ = [m \in Machines |-> "null"] /\ started_ = [m \in Machines |-> FALSE]
    /\ eventPull = [m \in Machines |-> FALSE] /\ updateInProgress_ = [m \in Machines |-> FALSE]
    /\ thread = [x \in {} |-> <<>>]
    /\ calls_ = <<>> /\ callState = [c \in Calls |-> "IDLE"] /\ redialECallCache_ = 0
    /\ eCallRedialIsOngoing_ = FALSE /\ callEndOperationCompleted_ = FALSE
    /\ active = {} /\ tasks = {}
    /\ hungUp = {} /\ disturbed = FALSE /\ crashed = FALSE

-----------------------------------------------------------------------------
(* The state code of a machine with parameters p, as programs.              *)

If(b, q) == IF b THEN q ELSE <<>>
Sleep    == << <<"sleep", 1>> >>
Call(s)  == << <<"call", s>> >>        \* changeCallState
Start(t) == << <<"timer", t>> >>       \* startTimer
Begin(t) == << <<"begin", t>> >>       \* sendEvent(t, "start")
Stop(t)  == << <<"stop", t>> >>        \* sendEvent(t, "stop"), expiryTimer(t)
Goto(s)  == << <<"goto", s>> >>        \* changeState
Redial(b) == << <<"redial", b>> >>     \* onECallRedial
Loop(n)  == << <<"loop", n>> >>        \* n redial attempts to go

\* ModemRedial::onEnter: the attempts before the last, and the last.
Attempt(p) == << <<"sleep", 5>> >>
           \o If(k.only /\ p.redial = "CALLORIG", Begin("T10"))
           \o Call("DIALING") \o Sleep \o Redial(TRUE)
           \o If(k.only /\ p.redial = "CALLORIG", Stop("T10"))
           \o Sleep \o Call("ENDED")
\* Mutant: the last attempt announces another one.
LastAttemptAnnounces(p) ==
    << <<"sleep", 5>> >> \o Sleep \o Call("DIALING") \o Sleep \o Redial(TRUE)
    \o Sleep \o Call("ENDED") \o If(k.only, Start("T10"))

LastAttempt(p) == << <<"sleep", 5>> >> \o Sleep \o Call("DIALING") \o Sleep \o Redial(FALSE)
               \o Sleep \o Call("ENDED") \o If(k.only, Start("T10"))

EnterCallConnect(p) ==
    Call("DIALING") \o Sleep
    \o IF p.redial = "CALLORIG" THEN Goto("PSAPCallback")
       ELSE Call("ALERTING") \o Redial(FALSE) \o Sleep \o Start("T2") \o Goto("DecodeSendMSD")

EnterDecodeSendMSD(p, pull) ==
    CASE ~p.ng /\ p.msd /\ pull -> Sleep \o Goto("CRCCheckonMSD")
      [] ~p.ng /\ p.msd /\ ~pull ->
            Sleep \o Sleep \o Call("ACTIVE")
            \o If("T5" \notin p.failed /\ p.redial = "SUCCESS",
                  Sleep \o Sleep \o Stop("T5") \o Goto("CRCCheckonMSD"))
      [] ~p.ng /\ ~p.msd ->
            If(~p.custom /\ pull, Sleep \o Goto("CRCCheckonMSD"))
            \o Sleep \o Call("ACTIVE") \o Goto("CallConversation")
      [] p.ng /\ p.msd ->
            If(~p.custom, Sleep) \o Sleep \o Call("ACTIVE")
            \o Goto(IF p.redial = "CALLDROP" THEN "PSAPCallback" ELSE "DecodeMSD")
      [] OTHER -> Sleep \o Call("ACTIVE") \o Goto("CallConversation")

EnterCRCCheckonMSD(p, pull) ==
    IF "T7" \in p.failed THEN Start("T7")
    ELSE (IF pull THEN Begin("T7") \o Sleep ELSE Sleep \o Begin("T7")) \o Goto("DecodeMSD")

\* Mutant: the end of an MSD update is not noted.
EnterDecodeMSDUnnoted(p, pull) ==
    IF p.ng THEN Sleep \o Goto("CallConversation")
    ELSE IF "T6" \notin p.failed
    THEN Sleep \o Begin("T6") \o Sleep \o Sleep \o Stop("T6") \o Goto("CallConversation")
    ELSE If(~p.custom, Start("T6"))

EnterDecodeMSD(p, pull) ==
    IF p.ng THEN Sleep \o If(pull, << <<"updated", FALSE>> >>) \o Goto("CallConversation")
    ELSE IF "T6" \notin p.failed
    THEN Sleep \o Begin("T6") \o Sleep \o Sleep \o Stop("T6")
         \o If(pull, << <<"updated", FALSE>> >>) \o Goto("CallConversation")
    ELSE If(~p.custom, Start("T6"))

\* Mutant: T2 keeps running when the call is over.
EnterPSAPCallbackKeepsT2(p) ==
    Start("T9") \o If(p.redial = "SUCCESS" /\ k.only, Start("T10"))
    \o If(p.redial # "SUCCESS", Redial(TRUE))
    \o Sleep \o Call("ENDED") \o Sleep \o If(p.redial # "SUCCESS", Goto("ModemRedial"))

EnterPSAPCallback(p) ==
    Start("T9") \o If(p.redial = "SUCCESS" /\ k.only, Start("T10"))
    \o If(p.redial # "CALLORIG", Stop("T2"))
    \o If(p.redial # "SUCCESS", Redial(TRUE))
    \o Sleep \o Call("ENDED") \o Sleep \o If(p.redial # "SUCCESS", Goto("ModemRedial"))

EnterModemRedial == Loop(k.attempts)

onEnter(p, s, pull) ==
    CASE s = "CallConnect" -> EnterCallConnect(p)
      [] s = "DecodeSendMSD" -> EnterDecodeSendMSD(p, pull)
      [] s = "CRCCheckonMSD" -> EnterCRCCheckonMSD(p, pull)
      [] s = "DecodeMSD" -> EnterDecodeMSD(p, pull)
      [] s = "CallConversation" -> If(p.alack, Goto("PSAPCallback"))
      [] s = "PSAPCallback" -> EnterPSAPCallback(p)
      [] s = "ModemRedial" -> EnterModemRedial

ExitCallConnect(p) ==
    If(~p.ng /\ p.msd,
       Sleep \o IF "T5" \notin p.failed /\ p.redial # "CALLDROP" THEN Begin("T5") ELSE Start("T5"))

ExitCRCCheckonMSD(p) == If("T7" \notin p.failed, Sleep \o Stop("T7") \o Sleep)

onExit(p, s) ==
    CASE s = "CallConnect" -> ExitCallConnect(p)
      [] s = "CRCCheckonMSD" -> ExitCRCCheckonMSD(p)
      [] OTHER -> <<>>

\* onEvent of each state: the user hangs up.
DecodeMSDHangup(p) ==
    Call("ENDED") \o If(~(p.custom /\ p.ng), Stop("T2")) \o Goto("PSAPCallback")

onHangup(p, s) ==
    CASE s \in {"CallConnect", "DecodeSendMSD", "CRCCheckonMSD"} ->
            Call("ENDED") \o Stop("T2") \o Goto("PSAPCallback")
      [] s = "DecodeMSD" -> DecodeMSDHangup(p)
      [] s = "CallConversation" -> Goto("PSAPCallback")
      [] OTHER -> <<>>

\* onEvent of each state: a timer has expired.
DecodeSendMSDExpiry(p, t) ==
    If(t = "T5" /\ ("T5" \in p.failed \/ p.redial = "CALLDROP"),
       Sleep \o Stop("T5") \o Sleep
       \o Goto(IF p.redial = "CALLDROP" THEN "PSAPCallback" ELSE "CallConversation"))

CRCCheckonMSDExpiry(t) == If(t = "T7", Stop("T7") \o Goto("CallConversation"))

DecodeMSDExpiry(p, t) ==
    If(t = "T6" /\ ~p.custom /\ ~p.ng, Stop("T6") \o Goto("CallConversation"))

CallConversationExpiry(t) ==
    If(t = "T2", Stop("T2") \o Call("ENDED") \o Goto("PSAPCallback"))

PSAPCallbackExpiry(t) ==
    If((t = "T9" /\ ~k.only) \/ (t = "T10" /\ k.only), Stop(t) \o << <<"halt", 0>> >>)

onTimerExpiry(p, s, t) ==
    CASE s = "DecodeSendMSD" -> DecodeSendMSDExpiry(p, t)
      [] s = "CRCCheckonMSD" -> CRCCheckonMSDExpiry(t)
      [] s = "DecodeMSD" -> DecodeMSDExpiry(p, t)
      [] s = "CallConversation" -> CallConversationExpiry(t)
      [] s = "PSAPCallback" -> PSAPCallbackExpiry(t)
      [] OTHER -> <<>>

-----------------------------------------------------------------------------
(* One instruction of a thread.                                             *)

Runnable(x) == thread[x].left = 0 /\ thread[x].prog # <<>>
Op(x)  == Head(thread[x].prog)
Arg(x) == Op(x)[2]
M(x)   == thread[x].m
P(x)   == param[M(x)]

\* Thread x runs q next, in place of its first instruction.
Then(x, q) == thread' = [thread EXCEPT ![x].prog = q \o Tail(@)]
Done(x) == Then(x, <<>>)

\* A number above those of all threads and tasks there are.
Fresh == 1 + Max({0} \cup {d.n : d \in tasks} \cup {x[2] : x \in DOMAIN thread})

\* The entries of the table with a call index; the first of them is the one found.
Entries(s, i) == {j \in DOMAIN s : s[j] # 0 /\ asked[s[j]].index = i}

\* ~BaseStateMachine stops the machine, and three of the states use their machine,
\* which is gone, on the way out.
Frees(m, holders) ==
    /\ m # 0 /\ \A y \in holders : thread[y].m # m
    /\ currentState_[m] \in {"CallConnect", "DecodeSendMSD", "CRCCheckonMSD"}

DoSleep(x) ==
    /\ Op(x)[1] = "sleep"
    /\ thread' = [thread EXCEPT ![x].prog = Tail(@), ![x].left = Arg(x)]
    /\ UNCHANGED <<machine, table, eCallRedialIsOngoing_, active, tasks, crashed>>

\* handleStateMachine: what it is called with and looks at first is callInfo_, which
\* need no longer be that of the call it was started for.
DoRead(x) ==
    /\ Op(x)[1] = "read"
    /\ param' = [param EXCEPT ![M(x)].index = callInfo_.index, ![M(x)].custom = callInfo_.custom]
    /\ Done(x)
    /\ UNCHANGED <<ecallStateMachine_, currentState_, started_, eventPull, updateInProgress_,
                   table, eCallRedialIsOngoing_, active, tasks, crashed>>

\* The settings are for regulatory eCalls.  The machine takes the place of the one before.
DoCreate(x) ==
    /\ Op(x)[1] = "create"
    /\ param' = [param EXCEPT ![M(x)] =
                   IF P(x).custom
                   THEN [index |-> P(x).index, custom |-> TRUE, ng |-> callInfo_.ims, msd |-> callInfo_.msd,
                         alack |-> FALSE, redial |-> "SUCCESS", failed |-> {}]
                   ELSE [index |-> P(x).index, custom |-> FALSE, ng |-> k.ng, msd |-> callInfo_.msd,
                         alack |-> k.alack, redial |-> k.redial, failed |-> k.failed]]
    /\ ecallStateMachine_' = M(x)
    /\ crashed' = Frees(ecallStateMachine_, DOMAIN thread)
    /\ Done(x)
    /\ UNCHANGED <<currentState_, started_, eventPull, updateInProgress_, table,
                   eCallRedialIsOngoing_, active, tasks>>

\* start() of the machine that there is by now.
DoBoot(x) ==
    /\ Op(x)[1] = "start"
    /\ started_' = [started_ EXCEPT ![ecallStateMachine_] = TRUE]
    /\ thread' = [thread EXCEPT ![x] = [m |-> ecallStateMachine_, i |-> param[ecallStateMachine_].index,
                                        prog |-> Goto("CallConnect"), left |-> 0]]
    /\ UNCHANGED <<ecallStateMachine_, param, currentState_, eventPull, updateInProgress_, table,
                   eCallRedialIsOngoing_, active, tasks, crashed>>

\* BaseStateMachine::changeState: up to the end of onExit, and from there on.
DoGoto(x) ==
    /\ Op(x)[1] = "goto"
    /\ IF ~started_[M(x)] \/ currentState_[M(x)] = Arg(x) THEN Done(x)
       ELSE Then(x, (IF currentState_[M(x)] = "null" THEN <<>> ELSE onExit(P(x), currentState_[M(x)]))
                    \o << <<"set", Arg(x)>> >>)
    /\ UNCHANGED <<machine, table, eCallRedialIsOngoing_, active, tasks, crashed>>

DoSet(x) ==
    /\ Op(x)[1] = "set"
    /\ currentState_' = [currentState_ EXCEPT ![M(x)] = Arg(x)]
    /\ Then(x, onEnter(P(x), Arg(x), eventPull[M(x)]))
    /\ UNCHANGED <<ecallStateMachine_, param, started_, eventPull, updateInProgress_, table,
                   eCallRedialIsOngoing_, active, tasks, crashed>>

\* stop()
DoHalt(x) ==
    /\ Op(x)[1] = "halt"
    /\ currentState_' = [currentState_ EXCEPT ![M(x)] = "null"]
    /\ started_' = [started_ EXCEPT ![M(x)] = FALSE]
    /\ Done(x)
    /\ UNCHANGED <<ecallStateMachine_, param, eventPull, updateInProgress_, table,
                   eCallRedialIsOngoing_, active, tasks, crashed>>

DoUpdated(x) ==
    /\ Op(x)[1] = "updated"
    /\ updateInProgress_' = [updateInProgress_ EXCEPT ![M(x)] = Arg(x)]
    /\ Done(x)
    /\ UNCHANGED <<ecallStateMachine_, param, currentState_, started_, eventPull, table,
                   eCallRedialIsOngoing_, active, tasks, crashed>>

\* changeCallState: a redial waits until the ended call has left the table and puts
\* it back; the state of the call found is set, and an ended call leaves the table
\* in three seconds.  A call that is not found is used all the same.
Redials(x) == eCallRedialIsOngoing_ /\ Arg(x) = "DIALING"
Waits(x)   == Op(x)[1] = "call" /\ Redials(x) /\ ~callEndOperationCompleted_
Removal(i) == [t |-> "removal", n |-> Fresh, i |-> i, left |-> 3]

\* Mutant: the call leaves the table after every change of state.
DoCallAlwaysClears(x) ==
    /\ Op(x)[1] = "call"
    /\ ~Waits(x)
    /\ calls_' = IF Redials(x) THEN Append(calls_, redialECallCache_) ELSE calls_
    /\ crashed' = (Entries(calls_', thread[x].i) = {} \/ 0 \in ToSet(calls_'))
    /\ callState' = IF crashed' THEN callState
                    ELSE [callState EXCEPT ![calls_'[Min(Entries(calls_', thread[x].i))]] = Arg(x)]
    /\ tasks' = IF crashed' THEN tasks ELSE tasks \cup {Removal(thread[x].i)}
    /\ callEndOperationCompleted_' = (callEndOperationCompleted_ /\ ~Redials(x))
    /\ Done(x)
    /\ UNCHANGED <<machine, redialECallCache_, eCallRedialIsOngoing_, active>>

DoCall(x) ==
    /\ Op(x)[1] = "call"
    /\ ~Waits(x)
    /\ calls_' = IF Redials(x) THEN Append(calls_, redialECallCache_) ELSE calls_
    /\ crashed' = (Entries(calls_', thread[x].i) = {} \/ 0 \in ToSet(calls_'))
    /\ callState' = IF crashed' THEN callState
                    ELSE [callState EXCEPT ![calls_'[Min(Entries(calls_', thread[x].i))]] = Arg(x)]
    /\ tasks' = IF ~crashed' /\ Arg(x) = "ENDED" THEN tasks \cup {Removal(thread[x].i)} ELSE tasks
    /\ callEndOperationCompleted_' = (callEndOperationCompleted_ /\ ~Redials(x))
    /\ Done(x)
    /\ UNCHANGED <<machine, redialECallCache_, eCallRedialIsOngoing_, active>>

DoRedial(x) ==
    /\ Op(x)[1] = "redial"
    /\ eCallRedialIsOngoing_' = Arg(x)
    /\ Done(x)
    /\ UNCHANGED <<machine, table, active, tasks, crashed>>

\* One round of ModemRedial::onEnter.
DoLoop(x) ==
    /\ Op(x)[1] = "loop"
    /\ Then(x, CASE Arg(x) = 0 -> <<>>
                 [] Arg(x) = 1 -> LastAttempt(P(x))
                 [] OTHER -> Attempt(P(x)) \o Loop(Arg(x) - 1))
    /\ UNCHANGED <<machine, table, eCallRedialIsOngoing_, active, tasks, crashed>>

\* Mutant: T9 and T10 are not reset when T2 starts.
DoStartKeepsT9(x) ==
    /\ Op(x)[1] = "timer"
    /\ tasks' = tasks \cup {[t |-> Arg(x), n |-> Fresh, i |-> 0,
                             left |-> IF Arg(x) \in LongTimers THEN 0 ELSE Delay(Arg(x))]}
    /\ active' = active \cup {Arg(x)}
    /\ Done(x)
    /\ UNCHANGED <<machine, table, eCallRedialIsOngoing_, crashed>>

\* startTimer: ACTIVE, and a task that looks at the timer when its time is over; a
\* new eCall's T2 resets T9 and T10.
DoStart(x) ==
    /\ Op(x)[1] = "timer"
    /\ tasks' = tasks \cup {[t |-> Arg(x), n |-> Fresh, i |-> 0,
                             left |-> IF Arg(x) \in LongTimers THEN 0 ELSE Delay(Arg(x))]}
    /\ active' = (active \cup {Arg(x)}) \ (IF Arg(x) = "T2" THEN {"T9", "T10"} ELSE {})
    /\ Done(x)
    /\ UNCHANGED <<machine, table, eCallRedialIsOngoing_, crashed>>

\* sendEvent and expiryTimer: the status only.
DoStatus(x) ==
    /\ Op(x)[1] \in {"begin", "stop"}
    /\ active' = IF Op(x)[1] = "begin" THEN active \cup {Arg(x)} ELSE active \ {Arg(x)}
    /\ Done(x)
    /\ UNCHANGED <<machine, table, eCallRedialIsOngoing_, tasks, crashed>>

Instruction(x) ==
    /\ Runnable(x)
    /\ \/ DoSleep(x) \/ DoRead(x) \/ DoCreate(x) \/ DoBoot(x) \/ DoGoto(x) \/ DoSet(x)
       \/ DoHalt(x) \/ DoUpdated(x) \/ DoCall(x) \/ DoRedial(x) \/ DoLoop(x) \/ DoStart(x)
       \/ DoStatus(x)
    /\ UNCHANGED <<k, requests>>

\* A thread that has nothing left to run lets go of its machine.
Exit(x) ==
    /\ thread[x].left = 0 /\ thread[x].prog = <<>>
    /\ thread' = [y \in DOMAIN thread \ {x} |-> thread[y]]
    /\ crashed' = (M(x) # ecallStateMachine_ /\ Frees(M(x), DOMAIN thread \ {x}))
    /\ UNCHANGED <<k, requests, machine, table, eCallRedialIsOngoing_, active, tasks>>

-----------------------------------------------------------------------------
(* Requests of clients.                                                     *)

\* A thread starts to run q for machine m and call index i.
Spawn(name, m, i, q) ==
    LET new == <<name, Fresh>> IN
    thread' = IF q = <<>> THEN thread
              ELSE [y \in DOMAIN thread \cup {new} |->
                      IF y = new THEN [m |-> m, i |-> i, prog |-> q, left |-> 0] ELSE thread[y]]

\* EcallStateMachine::onEvent: the current state of the machine handles e, "hangup" or
\* the expiry of a timer.
NoState == ecallStateMachine_ # 0 /\ currentState_[ecallStateMachine_] = "null"
onEvent(e) ==
    LET p == param[ecallStateMachine_]
        s == currentState_[ecallStateMachine_] IN
    /\ IF ecallStateMachine_ = 0 THEN UNCHANGED thread
       ELSE Spawn(e, ecallStateMachine_, p.index,
                  IF e = "hangup" THEN onHangup(p, s) ELSE onTimerExpiry(p, s, e))
    /\ crashed' = NoState

Short(d) == d.t \notin LongTimers

\* Nothing is under way but T2, T9 and T10, and threads that wait for a call to leave.
Settled == /\ \A x \in DOMAIN thread : Runnable(x) /\ Waits(x)
           /\ \A d \in tasks : ~Short(d)

\* setCallIndexForNewCall: the first place in the table that has another index.
NewIndex == Min({j \in 1 .. Len(calls_) : asked[calls_[j]].index # j} \cup {Len(calls_) + 1})

Dial == << <<"read", 0>>, <<"create", 0>>, <<"start", 0>> >>

\* MakeECall: refused during a redial and while there is a call to the same number;
\* what was asked for is in callInfo_ all the same.
MakeECall(r) ==
    /\ Len(asked) < MaxCalls
    /\ ~eCallRedialIsOngoing_
    /\ asked' = Append(asked, [number |-> r.number, custom |-> r.custom, ims |-> r.ims,
                               msd |-> r.msd, index |-> NewIndex])
    /\ IF \E j \in DOMAIN calls_ : asked[calls_[j]].number = r.number
       THEN UNCHANGED <<calls_, thread>>
       ELSE /\ calls_' = Append(calls_, Len(asked) + 1)
            /\ Spawn("dial", Len(asked) + 1, 0, Dial)
    /\ disturbed' = (disturbed \/ calls_ # <<>> \/ ~Settled)
    /\ UNCHANGED <<k, hangups, pulls, hungUp, machine, callState, redialECallCache_,
                   callEndOperationCompleted_, eCallRedialIsOngoing_, active, tasks, crashed>>

\* Hangup: an eCall to a custom number, over IMS or without MSD, just ends; the machine
\* is asked about the others.
Served(c) == ~c.custom \/ (~c.ims /\ c.msd)

Hangup(i) ==
    LET c == calls_[Min(Entries(calls_, i))] IN
    /\ hangups < MaxHangups
    /\ hangups' = hangups + 1
    /\ hungUp' = IF callState[c] \in {"DIALING", "ALERTING", "ACTIVE"}
                 THEN hungUp \cup {c} ELSE hungUp
    /\ IF Served(asked[c]) THEN onEvent("hangup")
       ELSE Spawn("hangup", 0, i, Call("ENDED")) /\ UNCHANGED crashed
    /\ disturbed' = (disturbed \/ ~Served(asked[c]) \/ ~Settled)
    /\ UNCHANGED <<k, asked, pulls, machine, table, eCallRedialIsOngoing_, active, tasks>>

\* UpdateECallMsd: once the call is in conversation; over NG or CS as callInfo_ says.
UpdateECallMsd ==
    LET ng == IF callInfo_.custom THEN callInfo_.ims ELSE k.ng IN
    /\ pulls < MaxPulls /\ ecallStateMachine_ # 0
    /\ currentState_[ecallStateMachine_] = "CallConversation" /\ k.failed = {}
    /\ ~updateInProgress_[ecallStateMachine_]
    /\ pulls' = pulls + 1
    /\ eventPull' = [eventPull EXCEPT ![ecallStateMachine_] = TRUE]
    /\ updateInProgress_' = [updateInProgress_ EXCEPT ![ecallStateMachine_] = TRUE]
    /\ Spawn("msd", ecallStateMachine_, param[ecallStateMachine_].index,
             IF ng THEN If(~param[ecallStateMachine_].custom, Sleep) \o << <<"updated", FALSE>> >>
             ELSE Goto("DecodeSendMSD"))
    /\ disturbed' = (disturbed \/ ~Settled)
    /\ UNCHANGED <<k, asked, hangups, hungUp, ecallStateMachine_, param, currentState_,
                   started_, table, eCallRedialIsOngoing_, active, tasks, crashed>>

\* RequestNetworkDeregistration while T10 runs: PSAPCallback stops it, the other states
\* do nothing, and a machine in no state is asked all the same.
RequestNetworkDeregistration ==
    /\ ecallStateMachine_ # 0 /\ "T10" \in active
    /\ active' = IF currentState_[ecallStateMachine_] = "PSAPCallback" THEN active \ {"T10"}
                 ELSE active
    /\ crashed' = NoState
    /\ UNCHANGED <<k, requests, machine, thread, table, eCallRedialIsOngoing_, tasks>>

-----------------------------------------------------------------------------
(* Tasks and time.                                                          *)

\* Mutant: the first call of the table leaves.
RemoveCallFirst(d) ==
    /\ d.t = "removal" /\ d.left = 0
    /\ tasks' = tasks \ {d}
    /\ IF calls_ = <<>> THEN UNCHANGED <<calls_, redialECallCache_, callEndOperationCompleted_>>
       ELSE /\ calls_' = Tail(calls_)
            /\ redialECallCache_' = IF eCallRedialIsOngoing_ THEN Head(calls_) ELSE redialECallCache_
            /\ callEndOperationCompleted_' = TRUE
    /\ UNCHANGED <<k, requests, machine, thread, callState, eCallRedialIsOngoing_, active, crashed>>

\* Mutant: the call that left is not kept for a redial.
RemoveCallForgets(d) ==
    LET j == Min(Entries(calls_, d.i)) IN
    /\ d.t = "removal" /\ d.left = 0
    /\ tasks' = tasks \ {d}
    /\ IF Entries(calls_, d.i) = {} THEN UNCHANGED <<calls_, callEndOperationCompleted_>>
       ELSE calls_' = RemoveAt(calls_, j) /\ callEndOperationCompleted_' = TRUE
    /\ UNCHANGED <<k, requests, machine, thread, callState, redialECallCache_, eCallRedialIsOngoing_,
                   active, crashed>>

\* The task of an ended call: whichever call has its index leaves the table, and is
\* kept for the next redial.
RemoveCall(d) ==
    LET j == Min(Entries(calls_, d.i)) IN
    /\ d.t = "removal" /\ d.left = 0
    /\ tasks' = tasks \ {d}
    /\ IF Entries(calls_, d.i) = {}
       THEN UNCHANGED <<calls_, redialECallCache_, callEndOperationCompleted_>>
       ELSE /\ calls_' = RemoveAt(calls_, j)
            /\ redialECallCache_' = IF eCallRedialIsOngoing_ THEN calls_[j] ELSE redialECallCache_
            /\ callEndOperationCompleted_' = TRUE
    /\ UNCHANGED <<k, requests, machine, thread, callState, eCallRedialIsOngoing_, active, crashed>>

\* T2 and T9 take one hour, T10 twelve.
Due(d) ==
    /\ d.left = 0
    /\ ~Short(d) => /\ Settled
                    /\ \A e \in tasks : e.n < d.n => e.t = "T10" /\ d.t # "T10"

\* Mutant: the timer's status is left as it is.
ExpireLeavesStatus(d) ==
    /\ d.t \in Timers /\ Due(d)
    /\ tasks' = tasks \ {d}
    /\ IF d.t \in active THEN onEvent(d.t) ELSE UNCHANGED <<thread, crashed>>
    /\ UNCHANGED <<k, requests, machine, table, eCallRedialIsOngoing_, active>>

\* The task of a timer (startTimers, triggerTimerExpiry): it looks at the timer, not at
\* the start it is of.
Expire(d) ==
    /\ d.t \in Timers /\ Due(d)
    /\ tasks' = tasks \ {d}
    /\ active' = active \ {d.t}
    /\ IF d.t \in active THEN onEvent(d.t) ELSE UNCHANGED <<thread, crashed>>
    /\ UNCHANGED <<k, requests, machine, table, eCallRedialIsOngoing_>>

\* A second passes when every thread sleeps or waits and no task is due.
Tick ==
    /\ \A x \in DOMAIN thread : thread[x].left > 0 \/ (Runnable(x) /\ Waits(x))
    /\ \A d \in tasks : Short(d) => d.left > 0
    /\ ~Settled
    /\ thread' = [x \in DOMAIN thread |-> [thread[x] EXCEPT !.left = IF @ > 0 THEN @ - 1 ELSE 0]]
    /\ tasks' = {[d EXCEPT !.left = IF Short(d) THEN @ - 1 ELSE 0] : d \in tasks}
    /\ UNCHANGED <<k, requests, machine, table, eCallRedialIsOngoing_, active, crashed>>

\* A null pointer ends the process.
Server == \/ \E x \in DOMAIN thread : Instruction(x) \/ Exit(x)
          \/ \E d \in tasks : RemoveCall(d) \/ Expire(d)
          \/ Tick
Client == \/ \E r \in Requests : MakeECall(r)
          \/ \E c \in ToSet(calls_) : Hangup(asked[c].index)
          \/ UpdateECallMsd
          \/ RequestNetworkDeregistration
Next == ~crashed /\ (Server \/ Client)

Spec == Init /\ [][Next]_vars

\* Threads run, tasks are run and time passes; no client has to do anything.
FairSpec == Spec /\ WF_vars(~crashed /\ Server)

-----------------------------------------------------------------------------
(* Properties.                                                              *)

Info  == [number : Numbers, custom : BOOLEAN, ims : BOOLEAN, msd : BOOLEAN, index : Nat \ {0}]
Param == [index : Nat, custom : BOOLEAN, ng : BOOLEAN, msd : BOOLEAN, alack : BOOLEAN,
          redial : {"SUCCESS", "CALLORIG", "CALLDROP"}, failed : SUBSET {"T5", "T6", "T7"}]

\* Every variable has its type; no sleep or timer is longer than T7.
TypeOK ==
    /\ k \in Configs
    /\ asked \in Seq(Info) /\ Len(asked) <= MaxCalls
    /\ hangups \in 0 .. MaxHangups /\ pulls \in 0 .. MaxPulls
    /\ ecallStateMachine_ \in Machines /\ param \in [Machines -> Param]
    /\ currentState_ \in [Machines -> MachineStates \cup {"null"}]
    /\ {started_, eventPull, updateInProgress_} \subseteq [Machines -> BOOLEAN]
    /\ \A x \in DOMAIN thread : thread[x].m \in Machines /\ thread[x].left \in 0 .. 5
    /\ calls_ \in Seq(0 .. MaxCalls) /\ callState \in [Calls -> CallStates]
    /\ redialECallCache_ \in 0 .. MaxCalls
    /\ {eCallRedialIsOngoing_, callEndOperationCompleted_, disturbed, crashed} \subseteq BOOLEAN
    /\ active \subseteq Timers /\ hungUp \subseteq Calls
    /\ \A d \in tasks : d.t \in Timers \cup {"removal"} /\ d.left \in 0 .. 20

\* As long as eCalls are made one after the other and requests come when the procedure
\* rests, no thread uses a call that is no longer in the table, a redial cache that
\* holds no call, or the state of a machine that is stopped.  In the ECALL_ONLY mode
\* that is so for the first eCall: the task of an old T10 ends the next one's.
UndisturbedIsSafe == crashed => disturbed \/ (k.only /\ Len(asked) > 1)

\* A new eCall stops the T9 and T10 of the one before: neither runs while it is in
\* conversation.
CallbackTimersReset ==
    Settled /\ calls_ # <<>> /\ ~disturbed => active \cap {"T9", "T10"} = {}

\* Once a call is over and nothing is under way, only T9 and T10 may be running.  T5 is
\* the exception after an origination failure: CallConnect starts it on the way out
\* and no state reached from there stops it.
CallTimersStopped ==
    Settled /\ calls_ = <<>> /\ ~disturbed =>
        active \subseteq {"T9", "T10"} \cup (IF k.redial = "CALLORIG" THEN {"T5"} ELSE {})

\* T2 and T9 are started with a task only: whenever one is ACTIVE a task will end it,
\* however many eCalls started and stopped it.
TimersWatched == \A t \in active \cap {"T2", "T9"} : \E d \in tasks : d.t = t

\* An ended call leaves the table: there is a task to remove the call with its index,
\* whatever other calls are made, hung up and removed.  A redial puts a call that has
\* ended back, so the settings are without redials.
EndedLeaves ==
    k.redial = "SUCCESS" =>
        \A c \in ToSet(calls_) : callState[c] = "ENDED" =>
            \E d \in tasks : d.t = "removal" /\ d.i = asked[c].index

\* The task of an ended call takes whichever call has its index by then.  With requests at
\* rest that call has ended, although an expired T2 ends a call twice and a redial puts
\* it back.
OnlyEndedLeave ==
    [][\A c \in ToSet(calls_) \ ToSet(calls_') : callState[c] = "ENDED" \/ disturbed]_vars

\* After every eCall to a number, its redials included, a new one can be made.
DialableAgain ==
    (calls_ # <<>> \/ eCallRedialIsOngoing_)
        ~> ((calls_ = <<>> /\ ~eCallRedialIsOngoing_) \/ crashed)

\* An MSD update ends, except in a call without MSD to a custom number or over NG, whose
\* states never clear the flag.
PullEnds ==
    \A m \in Calls :
        (updateInProgress_[m] /\ (param[m].msd \/ ~(param[m].custom \/ param[m].ng)))
            ~> (~updateInProgress_[m] \/ crashed)

\* Call.hpp: Hangup hangs up a call that is dialing, alerting or active.  Once it has
\* ended on the user's request, it does not come back.
HangupEnds ==
    [][\A c \in hungUp : callState[c] = "ENDED" => callState'[c] = "ENDED"]_vars
==============================================================================
