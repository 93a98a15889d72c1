----------------------- MODULE EcallStateMachineProofs -----------------------
(***************************************************************************)
(* What holds of the eCall procedure however requests race it, for any     *)
(* number of numbers, calls, hangups, MSD updates and redial attempts and  *)
(* in every configuration: types, T2 and T9 have a task that ends them,    *)
(* and without redials a call that has ended has a task that removes it.   *)
(*                                                                         *)
(* The state code is data, so the first part says which instructions the   *)
(* programs are made of: T2 and T9 are never begun without a task, and     *)
(* without a redial scenario nothing leads to ModemRedial or raises the    *)
(* redial flag.  EndedLeaves itself says nothing of which call a removal   *)
(* task finds; Table adds that an ended call is the first of its index,    *)
(* so the task that takes the first takes no other.                        *)
(***************************************************************************)
EXTENDS EcallStateMachine, SequenceTheorems, WellFoundedInduction, TLAPS

Redialing == k.redial # "SUCCESS"
Reached   == IF Redialing THEN MachineStates ELSE MachineStates \ {"ModemRedial"}
Begun     == Timers \ {"T2", "T9"}

RedialFlags == IF Redialing THEN BOOLEAN ELSE {FALSE}
Rounds    == IF Redialing THEN Nat ELSE {}

Instr == {<<"sleep", 1>>, <<"sleep", 5>>, <<"read", 0>>, <<"create", 0>>, <<"start", 0>>, <<"halt", 0>>}
         \cup ({"call"} \X CallStates) \cup ({"goto", "set"} \X Reached)
         \cup ({"timer", "stop"} \X Timers) \cup ({"begin"} \X Begun)
         \cup ({"updated"} \X BOOLEAN) \cup ({"redial"} \X RedialFlags) \cup ({"loop"} \X Rounds)

\* What a machine is made with.
Settings == [index : Nat, custom : BOOLEAN, ng : BOOLEAN, msd : BOOLEAN, alack : BOOLEAN,
             redial : {"SUCCESS", k.redial}, failed : SUBSET {"T5", "T6", "T7"}]
Thread == [m : Machines, i : Nat, prog : Seq(Instr), left : 0 .. 5]
Task(d) == /\ d = [t |-> d.t, n |-> d.n, i |-> d.i, left |-> d.left]
           /\ d.t \in Timers \cup {"removal"} /\ d.i \in Nat /\ d.left \in 0 .. 20

CallTypes ==
    /\ calls_ \in Seq(Machines) /\ callState \in [Calls -> CallStates]
    /\ redialECallCache_ \in Machines
    /\ eCallRedialIsOngoing_ \in BOOLEAN /\ callEndOperationCompleted_ \in BOOLEAN
    /\ crashed \in BOOLEAN
MachineTypes ==
    /\ ecallStateMachine_ \in Machines /\ param \in [Machines -> Settings]
    /\ currentState_ \in [Machines -> MachineStates \cup {"null"}]
    /\ started_ \in [Machines -> BOOLEAN] /\ eventPull \in [Machines -> BOOLEAN]
    /\ updateInProgress_ \in [Machines -> BOOLEAN]
TimerTypes == active \subseteq Timers /\ \A d \in tasks : Task(d)
RequestTypes ==
    /\ k \in Configs
    /\ asked \in Seq(Info) /\ Len(asked) <= MaxCalls
    /\ hangups \in 0 .. MaxHangups /\ pulls \in 0 .. MaxPulls /\ disturbed \in BOOLEAN
ThreadTypes == thread \in [DOMAIN thread -> Thread]
ETypes == CallTypes /\ MachineTypes /\ TimerTypes /\ RequestTypes /\ ThreadTypes

\* Only calls that were asked for are in the table and in the cache, and only calls are
\* hung up; until an eCall is asked for there is nothing.
Placed == \A l \in 1 .. Len(calls_) : calls_[l] \in 1 .. Len(asked)
Rows == /\ hungUp \subseteq Calls /\ (crashed \/ Placed)
        /\ redialECallCache_ <= Len(asked)
        /\ asked = <<>> => DOMAIN thread = {} /\ calls_ = <<>> /\ ecallStateMachine_ = 0

-----------------------------------------------------------------------------
(* The programs are made of instructions.                                   *)

LEMMA Pieces ==
    /\ Sleep \in Seq(Instr)
    /\ << <<"sleep", 5>> >> \in Seq(Instr)
    /\ \A s \in CallStates : Call(s) \in Seq(Instr)
    /\ \A t \in Timers : Start(t) \in Seq(Instr) /\ Stop(t) \in Seq(Instr)
    /\ \A t \in Begun : Begin(t) \in Seq(Instr)
    /\ \A s \in Reached : Goto(s) \in Seq(Instr) /\ << <<"set", s>> >> \in Seq(Instr)
    /\ Redial(FALSE) \in Seq(Instr) /\ << <<"updated", FALSE>> >> \in Seq(Instr)
    /\ Redialing => Redial(TRUE) \in Seq(Instr) /\ \A n \in Nat : Loop(n) \in Seq(Instr)
    /\ << <<"read", 0>>, <<"create", 0>>, <<"start", 0>> >> \in Seq(Instr)
    /\ << <<"halt", 0>> >> \in Seq(Instr)
<1>1. /\ {<<"sleep", 1>>, <<"sleep", 5>>, <<"read", 0>>, <<"create", 0>>, <<"start", 0>>, <<"halt", 0>>} \subseteq Instr
      /\ \A s \in CallStates : <<"call", s>> \in Instr
      /\ \A s \in Reached : <<"goto", s>> \in Instr /\ <<"set", s>> \in Instr
  BY Zenon DEF Instr
<1>2. <<"redial", FALSE>> \in Instr /\ <<"updated", FALSE>> \in Instr
  <2>1. FALSE \in RedialFlags
    BY DEF RedialFlags
  <2> QED BY <2>1, Zenon DEF Instr
<1>3. /\ \A t \in Timers : <<"timer", t>> \in Instr /\ <<"stop", t>> \in Instr
      /\ \A t \in Begun : <<"begin", t>> \in Instr
  BY Zenon DEF Instr
<1>4. Redialing => <<"redial", TRUE>> \in Instr /\ \A n \in Nat : <<"loop", n>> \in Instr
  <2>1. Redialing => TRUE \in RedialFlags /\ Rounds = Nat
    BY DEF RedialFlags, Rounds
  <2> QED BY <2>1, Zenon DEF Instr
<1>5. \A i \in Instr : <<i>> \in Seq(Instr)
  OBVIOUS
<1>6. << <<"read", 0>>, <<"create", 0>>, <<"start", 0>> >> \in Seq(Instr)
  BY <1>1
<1> QED BY <1>1, <1>2, <1>3, <1>4, <1>5, <1>6, Zenon DEF Sleep, Call, Start, Begin, Stop, Goto, Redial, Loop

LEMMA Glued ==
    /\ <<>> \in Seq(Instr)
    /\ \A q, r \in Seq(Instr) : q \o r \in Seq(Instr)
    /\ \A b : \A q \in Seq(Instr) : If(b, q) \in Seq(Instr)
  BY DEF If

LEMMA Names ==
    /\ {"T2", "T5", "T6", "T7", "T9", "T10"} = Timers /\ {"T5", "T6", "T7", "T10"} = Begun
    /\ {"IDLE", "DIALING", "ALERTING", "ACTIVE", "ENDED"} = CallStates
    /\ {"CallConnect", "DecodeSendMSD", "CRCCheckonMSD", "DecodeMSD", "CallConversation",
        "PSAPCallback"} \subseteq Reached
    /\ Redialing => "ModemRedial" \in Reached
    /\ Reached \subseteq MachineStates
  BY DEF Timers, Begun, CallStates, MachineStates, Reached

\* What the configuration and the settings say.
LEMMA ConfigTypes ==
    ASSUME k \in Configs
    PROVE  /\ k.ng \in BOOLEAN /\ k.alack \in BOOLEAN
           /\ k.only \in BOOLEAN /\ k.redial \in {"SUCCESS", "CALLORIG", "CALLDROP"}
           /\ k.attempts \in Nat /\ k.failed \subseteq {"T5", "T6", "T7"}
<1>1. k \in Config
  BY EcallAssumption
<1> QED BY <1>1 DEF Config

LEMMA SettingTypes ==
    ASSUME NEW p \in Settings
    PROVE  /\ p.custom \in BOOLEAN /\ p.ng \in BOOLEAN /\ p.msd \in BOOLEAN /\ p.alack \in BOOLEAN
           /\ p.redial # "SUCCESS" => Redialing
           /\ p.failed \subseteq {"T5", "T6", "T7"} /\ p.index \in Nat
  BY DEF Settings, Redialing

LEMMA EnterTypes ==
    ASSUME k \in Configs, NEW p \in Settings, NEW s \in Reached, NEW pull
    PROVE  onEnter(p, s, pull) \in Seq(Instr)
<1> USE Pieces, Glued, Names, SettingTypes
<1>1. EnterCallConnect(p) \in Seq(Instr)
  BY DEF EnterCallConnect
<1>2. EnterDecodeSendMSD(p, pull) \in Seq(Instr)
  BY DEF EnterDecodeSendMSD
<1>3. EnterCRCCheckonMSD(p, pull) \in Seq(Instr)
  BY DEF EnterCRCCheckonMSD
<1>4. EnterDecodeMSD(p, pull) \in Seq(Instr)
  BY DEF EnterDecodeMSD
<1>5. EnterPSAPCallback(p) \in Seq(Instr)
  <2>1. If(p.redial # "SUCCESS", Redial(TRUE)) \in Seq(Instr)
        /\ If(p.redial # "SUCCESS", Goto("ModemRedial")) \in Seq(Instr)
    BY DEF If
  <2> QED BY <2>1, ConfigTypes DEF EnterPSAPCallback
<1>6. Redialing => EnterModemRedial \in Seq(Instr)
  BY ConfigTypes DEF EnterModemRedial
<1>7. If(p.alack, Goto("PSAPCallback")) \in Seq(Instr)
  OBVIOUS
<1>8. s = "ModemRedial" => Redialing
  BY DEF Reached
<1> QED BY <1>1, <1>2, <1>3, <1>4, <1>5, <1>6, <1>7, <1>8 DEF onEnter, MachineStates

LEMMA ExitTypes ==
    ASSUME NEW p \in Settings, NEW s
    PROVE  onExit(p, s) \in Seq(Instr)
<1> USE Pieces, Glued, Names, SettingTypes
<1>1. ExitCallConnect(p) \in Seq(Instr)
  BY DEF ExitCallConnect
<1>2. ExitCRCCheckonMSD(p) \in Seq(Instr)
  BY DEF ExitCRCCheckonMSD
<1> QED BY <1>1, <1>2 DEF onExit

LEMMA EventTypes ==
    ASSUME k \in Configs, NEW p \in Settings, NEW s, NEW t \in Timers
    PROVE  /\ onHangup(p, s) \in Seq(Instr) /\ onTimerExpiry(p, s, t) \in Seq(Instr)
           /\ Redialing => Attempt(p) \in Seq(Instr) /\ LastAttempt(p) \in Seq(Instr)
<1> USE Pieces, Glued, Names, SettingTypes
<1>1. onHangup(p, s) \in Seq(Instr)
  <2>1. DecodeMSDHangup(p) \in Seq(Instr)
    BY DEF DecodeMSDHangup
  <2> QED BY <2>1 DEF onHangup
<1>2. DecodeSendMSDExpiry(p, t) \in Seq(Instr)
  BY DEF DecodeSendMSDExpiry
<1>3. CRCCheckonMSDExpiry(t) \in Seq(Instr)
  BY DEF CRCCheckonMSDExpiry
<1>4. DecodeMSDExpiry(p, t) \in Seq(Instr)
  BY DEF DecodeMSDExpiry
<1>5. CallConversationExpiry(t) \in Seq(Instr)
  BY DEF CallConversationExpiry
<1>6. PSAPCallbackExpiry(t) \in Seq(Instr)
  BY ConfigTypes DEF PSAPCallbackExpiry
<1>7. onTimerExpiry(p, s, t) \in Seq(Instr)
  BY <1>2, <1>3, <1>4, <1>5, <1>6 DEF onTimerExpiry
<1>8. Redialing => Attempt(p) \in Seq(Instr) /\ LastAttempt(p) \in Seq(Instr)
  BY ConfigTypes DEF Attempt, LastAttempt
<1> QED BY <1>1, <1>7, <1>8

-----------------------------------------------------------------------------
(* What each instruction does.                                              *)

LEMMA LeastOf ==
    ASSUME NEW T, T \subseteq Nat, T # {}
    PROVE  Min(T) \in T /\ \A y \in T : Min(T) <= y
<1> DEFINE R == OpToRel(<, Nat)
<1>1. ASSUME NEW x \in Nat, NEW y \in Nat, y < x PROVE <<y, x>> \in R
  BY <1>1 DEF OpToRel
<1>2. IsWellFoundedOn(R, Nat)
  BY NatLessThanWellFounded
<1> HIDE DEF R
<1>3. PICK x \in T : \A y \in T : ~ (<<y, x>> \in R)
  BY <1>2, WFMin, Zenon
<1>4. ASSUME NEW y \in T PROVE x <= y
  <2>1. ~(y < x)
    BY <1>1, <1>3
  <2> QED BY <2>1
<1> QED BY <1>4 DEF Min

\* The call found with an index is the first that has it.
LEMMA FirstEntry ==
    ASSUME NEW s \in Seq(Machines), NEW i, Entries(s, i) # {}
    PROVE  LET j == Min(Entries(s, i))
           IN /\ j \in 1 .. Len(s) /\ s[j] \in Calls /\ asked[s[j]].index = i
              /\ \A l \in 1 .. Len(s) : s[l] # 0 /\ asked[s[l]].index = i => j <= l
<1> DEFINE j == Min(Entries(s, i))
<1>1. Entries(s, i) \subseteq Nat /\ DOMAIN s = 1 .. Len(s)
  BY DEF Entries
<1>2. j \in Entries(s, i) /\ \A l \in Entries(s, i) : j <= l
  BY <1>1, LeastOf
<1> HIDE DEF j
<1>3. j \in 1 .. Len(s) /\ s[j] # 0 /\ asked[s[j]].index = i
  BY <1>1, <1>2 DEF Entries
<1>4. s[j] \in Machines
  BY <1>3
<1>5. s[j] \in Calls
  BY <1>3, <1>4, EcallAssumption DEF Machines, Calls
<1> QED BY <1>1, <1>2, <1>3, <1>5 DEF Entries, j

LEMMA SequenceWithout ==
    ASSUME NEW S, NEW s \in Seq(S), NEW j \in 1 .. Len(s)
    PROVE  /\ RemoveAt(s, j) \in Seq(S) /\ Len(RemoveAt(s, j)) = Len(s) - 1
           /\ \A l \in 1 .. Len(s) - 1 : RemoveAt(s, j)[l] = IF l < j THEN s[l] ELSE s[l + 1]
<1>1. /\ SubSeq(s, 1, j - 1) \in Seq(S) /\ Len(SubSeq(s, 1, j - 1)) = j - 1
      /\ \A l \in 1 .. j - 1 : SubSeq(s, 1, j - 1)[l] = s[l]
  OBVIOUS
<1>2. /\ SubSeq(s, j + 1, Len(s)) \in Seq(S) /\ Len(SubSeq(s, j + 1, Len(s))) = Len(s) - j
      /\ \A l \in 1 .. Len(s) - j : SubSeq(s, j + 1, Len(s))[l] = s[j + l]
  OBVIOUS
<1> DEFINE a == SubSeq(s, 1, j - 1)
           b == SubSeq(s, j + 1, Len(s))
<1>3. RemoveAt(s, j) = a \o b
  BY DEF RemoveAt
<1>4. /\ a \in Seq(S) /\ b \in Seq(S) /\ Len(a) = j - 1 /\ Len(b) = Len(s) - j /\ Len(s) \in Nat /\ j \in Nat
      /\ \A l \in 1 .. j - 1 : a[l] = s[l]
      /\ \A l \in 1 .. Len(s) - j : b[l] = s[j + l]
  BY <1>1, <1>2
<1> HIDE DEF a, b
<1>5. /\ a \o b \in Seq(S) /\ Len(a \o b) = Len(s) - 1
      /\ \A l \in 1 .. Len(s) - 1 : (a \o b)[l] = IF l <= j - 1 THEN a[l] ELSE b[l - (j - 1)]
  <2>1. a \o b \in Seq(S) /\ Len(a \o b) = Len(a) + Len(b)
    BY <1>4, ConcatProperties
  <2>2. \A l \in 1 .. Len(a) + Len(b) : (a \o b)[l] = IF l <= Len(a) THEN a[l] ELSE b[l - Len(a)]
    BY <1>4, ConcatProperties
  <2>3. Len(a) + Len(b) = Len(s) - 1
    BY <1>4
  <2> QED BY <1>4, <2>1, <2>2, <2>3
<1>6. ASSUME NEW l \in 1 .. Len(s) - 1 PROVE (a \o b)[l] = IF l < j THEN s[l] ELSE s[l + 1]
  <2>1. CASE l < j
    <3>1. l \in 1 .. j - 1
      BY <1>4, <2>1
    <3> QED BY <1>4, <1>5, <2>1, <3>1
  <2>2. CASE ~(l < j)
    <3>1. l - (j - 1) \in 1 .. Len(s) - j /\ j + (l - (j - 1)) = l + 1 /\ ~(l <= j - 1)
      BY <1>4, <2>2
    <3> QED BY <1>4, <1>5, <2>2, <3>1
  <2> QED BY <2>1, <2>2
<1> QED BY <1>3, <1>5, <1>6

\* Thread x has q left to run, and n seconds to sleep before.
Moves(x, q, n) ==
    thread' = [thread EXCEPT ![x] = [m |-> thread[x].m, i |-> thread[x].i, prog |-> q, left |-> n]]

LEMMA HeadOfProgram ==
    ASSUME NEW q \in Seq(Instr), q # <<>>
    PROVE  Head(q) \in Instr /\ Tail(q) \in Seq(Instr) /\ <<>> \o Tail(q) = Tail(q)
  OBVIOUS

LEMMA ThreadSet ==
    ASSUME NEW r \in Thread, NEW q, NEW n
    PROVE  [[r EXCEPT !.prog = q] EXCEPT !.left = n] = [m |-> r.m, i |-> r.i, prog |-> q, left |-> n]
<1>1. [r EXCEPT !.prog = q] = [m |-> r.m, i |-> r.i, prog |-> q, left |-> r.left]
  BY DEF Thread
<1> DEFINE u == [m |-> r.m, i |-> r.i, prog |-> q, left |-> r.left]
<1>2. [u EXCEPT !.left = n] = [m |-> r.m, i |-> r.i, prog |-> q, left |-> n]
  OBVIOUS
<1> QED BY <1>1, <1>2, Zenon

LEMMA ThenMoves ==
    ASSUME ETypes, NEW x \in DOMAIN thread, thread[x].left = 0, NEW q, Then(x, q)
    PROVE  Moves(x, q \o Tail(thread[x].prog), 0)
<1> DEFINE r == q \o Tail(thread[x].prog)
<1>1. thread[x] \in Thread /\ thread' = [thread EXCEPT ![x] = [thread[x] EXCEPT !.prog = r]]
  BY DEF ETypes, ThreadTypes, Then
<1> HIDE DEF r
<1>2. [thread[x] EXCEPT !.prog = r] = [m |-> thread[x].m, i |-> thread[x].i, prog |-> r, left |-> 0]
  BY <1>1 DEF Thread
<1> QED BY <1>1, <1>2 DEF Moves, r

\* A thread does the instruction that it is at.
LEMMA Executes ==
    ASSUME ETypes, NEW x \in DOMAIN thread, Instruction(x)
    PROVE  LET i == Head(thread[x].prog)
               rest == Tail(thread[x].prog)
           IN /\ thread[x].left = 0 /\ thread[x].prog # <<>>
              /\ i \in Instr /\ rest \in Seq(Instr) /\ UNCHANGED <<k, requests>>
              /\ i[1] = "sleep" =>
                   /\ Moves(x, rest, i[2])
                   /\ UNCHANGED <<machine, table, eCallRedialIsOngoing_, active, tasks, crashed>>
              /\ i[1] = "read" => DoRead(x) /\ Moves(x, rest, 0)
              /\ i[1] = "create" => DoCreate(x) /\ Moves(x, rest, 0)
              /\ i[1] = "start" => DoBoot(x)
              /\ i[1] = "goto" => DoGoto(x)
              /\ i[1] = "set" => DoSet(x) /\ Moves(x, onEnter(P(x), i[2], eventPull[M(x)]) \o rest, 0)
              /\ i[1] = "halt" => DoHalt(x) /\ Moves(x, rest, 0)
              /\ i[1] = "updated" => DoUpdated(x) /\ Moves(x, rest, 0)
              /\ i[1] = "call" => DoCall(x) /\ Moves(x, rest, 0)
              /\ i[1] = "redial" => DoRedial(x) /\ Moves(x, rest, 0)
              /\ i[1] = "loop" => DoLoop(x)
              /\ i[1] = "timer" => DoStart(x) /\ Moves(x, rest, 0)
              /\ i[1] \in {"begin", "stop"} => DoStatus(x) /\ Moves(x, rest, 0)
<1> DEFINE i == Head(thread[x].prog)
           rest == Tail(thread[x].prog)
<1>1. /\ thread[x].left = 0 /\ thread[x].prog # <<>> /\ UNCHANGED <<k, requests>>
      /\ \/ DoSleep(x) \/ DoRead(x) \/ DoCreate(x) \/ DoBoot(x) \/ DoGoto(x) \/ DoSet(x) \/ DoHalt(x)
         \/ DoUpdated(x) \/ DoCall(x) \/ DoRedial(x) \/ DoLoop(x) \/ DoStart(x) \/ DoStatus(x)
  BY DEF Instruction, Runnable
<1>2. i \in Instr /\ rest \in Seq(Instr) /\ <<>> \o rest = rest
  BY <1>1, HeadOfProgram DEF ETypes, ThreadTypes, Thread
<1>3. Done(x) => Moves(x, rest, 0)
  BY <1>1, <1>2, ThenMoves DEF Done
<1>4. /\ DoSleep(x) => i[1] = "sleep"
      /\ DoRead(x) => i[1] = "read" /\ Moves(x, rest, 0)
      /\ DoCreate(x) => i[1] = "create" /\ Moves(x, rest, 0)
      /\ DoBoot(x) => i[1] = "start"
      /\ DoGoto(x) => i[1] = "goto"
      /\ DoSet(x) => i[1] = "set" /\ Then(x, onEnter(P(x), i[2], eventPull[M(x)]))
      /\ DoHalt(x) => i[1] = "halt" /\ Moves(x, rest, 0)
      /\ DoUpdated(x) => i[1] = "updated" /\ Moves(x, rest, 0)
      /\ DoCall(x) => i[1] = "call" /\ Moves(x, rest, 0)
      /\ DoRedial(x) => i[1] = "redial" /\ Moves(x, rest, 0)
      /\ DoLoop(x) => i[1] = "loop"
      /\ DoStart(x) => i[1] = "timer" /\ Moves(x, rest, 0)
      /\ DoStatus(x) => i[1] \in {"begin", "stop"} /\ Moves(x, rest, 0)
  BY <1>3, Zenon DEF DoSleep, DoRead, DoCreate, DoBoot, DoGoto, DoSet, DoHalt, DoUpdated, DoCall, DoRedial,
     DoLoop, DoStart, DoStatus, Op, Arg
<1>5. DoSet(x) => Moves(x, onEnter(P(x), i[2], eventPull[M(x)]) \o rest, 0)
  BY <1>1, <1>4, ThenMoves
<1>6. DoSleep(x) => /\ Moves(x, rest, i[2])
                    /\ UNCHANGED <<machine, table, eCallRedialIsOngoing_, active, tasks, crashed>>
  <2> SUFFICES ASSUME DoSleep(x) PROVE Moves(x, rest, i[2])
    BY DEF DoSleep
  <2>1. thread[x] \in Thread
        /\ thread' = [thread EXCEPT ![x] = [[thread[x] EXCEPT !.prog = rest] EXCEPT !.left = i[2]]]
    BY DEF ETypes, ThreadTypes, DoSleep, Op, Arg
  <2> HIDE DEF rest, i
  <2>2. [[thread[x] EXCEPT !.prog = rest] EXCEPT !.left = i[2]]
          = [m |-> thread[x].m, i |-> thread[x].i, prog |-> rest, left |-> i[2]]
    BY <2>1, ThreadSet
  <2> QED BY <2>1, <2>2 DEF Moves
<1> HIDE DEF i, rest
<1> QED BY <1>1, <1>2, <1>4, <1>5, <1>6 DEF i, rest

-----------------------------------------------------------------------------
(* Type correctness.                                                        *)

\* The settings are never changed, nor what is made of them.
LEMMA SameSettings == k' = k => Thread' = Thread /\ Settings' = Settings
  BY DEF Thread, Instr, Settings, Redialing, Reached, RedialFlags, Rounds

LEMMA MovesTypes ==
    ASSUME ETypes, k' = k, NEW x \in DOMAIN thread, NEW q \in Seq(Instr), NEW n \in 0 .. 5, Moves(x, q, n)
    PROVE  ThreadTypes' /\ DOMAIN thread' = DOMAIN thread
<1>1. thread[x] \in Thread
  BY DEF ETypes, ThreadTypes
<1>2. [m |-> thread[x].m, i |-> thread[x].i, prog |-> q, left |-> n] \in Thread
  BY <1>1 DEF Thread
<1>3. thread' \in [DOMAIN thread -> Thread]
  BY <1>2 DEF Moves, ETypes, ThreadTypes
<1> QED BY <1>3, SameSettings DEF ThreadTypes

LEMMA SpawnTypes ==
    ASSUME ETypes, k' = k, NEW name, NEW m \in Machines, NEW i \in Nat, NEW q \in Seq(Instr), Spawn(name, m, i, q)
    PROVE  ThreadTypes'
<1> DEFINE new == <<name, Fresh>>
           r == [m |-> m, i |-> i, prog |-> q, left |-> 0]
<1>1. r \in Thread
  BY DEF Thread
<1>2. thread' = thread \/ thread' = [y \in DOMAIN thread \cup {new} |-> IF y = new THEN r ELSE thread[y]]
  BY DEF Spawn
<1> HIDE DEF new, r
<1>3. thread' \in [DOMAIN thread' -> Thread]
  BY <1>1, <1>2 DEF ETypes, ThreadTypes
<1> QED BY <1>3, SameSettings DEF ThreadTypes

\* The pair of an instruction, kind by kind.
LEMMA InstrArgs ==
    ASSUME NEW i \in Instr
    PROVE  /\ i[1] = "sleep" => i[2] \in {1, 5}
           /\ i[1] = "call" => i[2] \in CallStates
           /\ i[1] \in {"goto", "set"} => i[2] \in Reached
           /\ i[1] \in {"timer", "stop"} => i[2] \in Timers
           /\ i[1] = "begin" => i[2] \in Begun
           /\ i[1] = "loop" => i[2] \in Nat /\ Redialing
           /\ i[1] \in {"sleep", "read", "create", "start", "halt", "call", "goto", "set", "timer",
                        "begin", "stop", "updated", "redial", "loop"}
<1>1. i[1] = "loop" => i[2] \in Rounds
  BY DEF Instr
<1>2. i[1] = "loop" => i[2] \in Nat /\ Redialing
  BY <1>1 DEF Rounds
<1> QED BY <1>2 DEF Instr
LEMMA InstrFlags ==
    ASSUME NEW i \in Instr
    PROVE  /\ i[1] \in {"updated", "redial"} => i[2] \in BOOLEAN
           /\ i[1] = "redial" /\ ~Redialing => i[2] = FALSE
<1>1. (i[1] = "updated" => i[2] \in BOOLEAN) /\ (i[1] = "redial" => i[2] \in RedialFlags)
  BY DEF Instr
<1>2. i[1] = "updated" => i[2] \in BOOLEAN
  BY <1>1, Zenon
<1>3. i[1] = "redial" => i[2] \in BOOLEAN /\ (~Redialing => i[2] = FALSE)
  BY <1>1, Zenon DEF RedialFlags
<1> QED BY <1>2, <1>3, Zenon

LEMMA StateChanged ==
    ASSUME ETypes, NEW x \in DOMAIN thread, DoGoto(x), Instruction(x)
    PROVE  LET i == Head(thread[x].prog)
               rest == Tail(thread[x].prog)
               exit == IF currentState_[M(x)] = "null" THEN <<>> ELSE onExit(P(x), currentState_[M(x)])
           IN /\ i[2] \in Reached
              /\ \/ Moves(x, rest, 0)
                 \/ Moves(x, exit \o << <<"set", i[2]>> >> \o rest, 0)
              /\ UNCHANGED <<machine, table, eCallRedialIsOngoing_, active, tasks, crashed>>
<1> DEFINE i == Head(thread[x].prog)
           rest == Tail(thread[x].prog)
           exit == IF currentState_[M(x)] = "null" THEN <<>> ELSE onExit(P(x), currentState_[M(x)])
<1>1. i \in Instr /\ rest \in Seq(Instr) /\ thread[x].left = 0 /\ <<>> \o rest = rest
  BY Executes
<1>2. i[1] = "goto" /\ i[2] \in Reached
  BY <1>1, InstrArgs DEF DoGoto, Op
<1>3. Then(x, <<>>) \/ Then(x, exit \o << <<"set", i[2]>> >>)
  BY DEF DoGoto, Op, Arg, Done
<1>4. Moves(x, rest, 0) \/ Moves(x, exit \o << <<"set", i[2]>> >> \o rest, 0)
  BY <1>1, <1>3, ThenMoves
<1>5. UNCHANGED <<machine, table, eCallRedialIsOngoing_, active, tasks, crashed>>
  BY DEF DoGoto
<1> QED BY <1>1, <1>2, <1>4, <1>5

\* What a machine is made with, when it is read and when it is made.
LEMMA ReadTypes ==
    ASSUME ETypes, Rows, NEW x \in DOMAIN thread, DoRead(x)
    PROVE  param' \in [Machines -> Settings]
<1>1. asked # <<>> /\ asked \in Seq(Info) /\ param \in [Machines -> Settings]
  BY DEF Rows, ETypes, RequestTypes, MachineTypes
<1>2. callInfo_ \in Info
  BY <1>1 DEF callInfo_
<1>3. callInfo_.index \in Nat /\ callInfo_.custom \in BOOLEAN
  BY <1>2 DEF Info
<1> DEFINE f == [param EXCEPT ![M(x)] = [param[M(x)] EXCEPT !.index = callInfo_.index]]
<1>4. f \in [Machines -> Settings]
  BY <1>1, <1>3 DEF Settings
<1>5. param' = [f EXCEPT ![M(x)] = [f[M(x)] EXCEPT !.custom = callInfo_.custom]]
  BY DEF DoRead
<1> HIDE DEF f
<1>6. \A r \in Settings : [r EXCEPT !.custom = callInfo_.custom] \in Settings
  BY <1>3 DEF Settings
<1> QED BY <1>4, <1>5, <1>6

LEMMA CreateTypes ==
    ASSUME ETypes, Rows, NEW x \in DOMAIN thread, DoCreate(x)
    PROVE  param' \in [Machines -> Settings]
<1>1. asked # <<>> /\ asked \in Seq(Info) /\ param \in [Machines -> Settings] /\ k \in Configs
  BY DEF Rows, ETypes, RequestTypes, MachineTypes
<1>2. callInfo_ \in Info
  BY <1>1 DEF callInfo_
<1>3. callInfo_.msd \in BOOLEAN /\ callInfo_.ims \in BOOLEAN
  BY <1>2 DEF Info
<1>4. M(x) \in Machines /\ P(x) \in Settings
  BY <1>1 DEF ETypes, ThreadTypes, Thread, M, P
<1>5. P(x).index \in Nat
  BY <1>4 DEF Settings
<1> DEFINE a == [index |-> P(x).index, custom |-> TRUE, ng |-> callInfo_.ims, msd |-> callInfo_.msd,
                 alack |-> FALSE, redial |-> "SUCCESS", failed |-> {}]
           b == [index |-> P(x).index, custom |-> FALSE, ng |-> k.ng, msd |-> callInfo_.msd,
                 alack |-> k.alack, redial |-> k.redial, failed |-> k.failed]
<1>7. a \in Settings
  BY <1>3, <1>5 DEF Settings
<1>8. b \in Settings
  BY <1>1, <1>3, <1>5, ConfigTypes DEF Settings
<1>9. param' = [param EXCEPT ![M(x)] = IF P(x).custom THEN a ELSE b]
  BY DEF DoCreate
<1> HIDE DEF a, b
<1> QED BY <1>1, <1>7, <1>8, <1>9

LEMMA InstructionTypes == ASSUME ETypes, Rows, NEW x \in DOMAIN thread, Instruction(x) PROVE ETypes'
<1> DEFINE i == Head(thread[x].prog)
           rest == Tail(thread[x].prog)
<1>0. /\ i \in Instr /\ rest \in Seq(Instr) /\ UNCHANGED <<k, requests>> /\ M(x) \in Machines
      /\ thread[x].prog # <<>> /\ k \in Configs /\ P(x) \in Settings
  <2>1. M(x) \in Machines /\ k \in Configs
    BY DEF ETypes, ThreadTypes, Thread, M, RequestTypes
  <2> QED BY <2>1, Executes DEF ETypes, MachineTypes, P
<1>b. k' = k /\ Settings' = Settings
  BY <1>0, SameSettings
<1>1. RequestTypes'
  BY <1>0 DEF ETypes, RequestTypes, requests
<1>a. ASSUME NEW q \in Seq(Instr), Moves(x, q, 0) PROVE ThreadTypes'
  <2>1. 0 \in 0 .. 5
    OBVIOUS
  <2> QED BY <1>a, <1>b, <2>1, MovesTypes, Zenon
<1> HIDE DEF i, rest
<1>2. CASE i[1] = "sleep"
  <2>1. Moves(x, rest, i[2]) /\ i[2] \in 0 .. 5
        /\ UNCHANGED <<machine, table, eCallRedialIsOngoing_, active, tasks, crashed>>
    BY <1>0, <1>2, Executes, InstrArgs DEF i, rest
  <2>2. ThreadTypes'
    BY <1>0, <1>b, <2>1, MovesTypes
  <2> QED BY <1>1, <1>b, <2>1, <2>2 DEF ETypes, CallTypes, MachineTypes, TimerTypes, machine, table
<1>3a. CASE i[1] = "read"
  <2>1. DoRead(x) /\ Moves(x, rest, 0)
    BY <1>3a, Executes DEF i, rest
  <2>2. ThreadTypes' /\ param' \in [Machines -> Settings]
    BY <1>0, <1>a, <2>1, ReadTypes
  <2> QED BY <1>1, <1>b, <2>1, <2>2 DEF ETypes, CallTypes, MachineTypes, TimerTypes, DoRead, table
<1>3. CASE i[1] = "create"
  <2>1. DoCreate(x) /\ Moves(x, rest, 0)
    BY <1>3, Executes DEF i, rest
  <2>2. ThreadTypes' /\ param' \in [Machines -> Settings]
    BY <1>0, <1>a, <2>1, CreateTypes
  <2>3. crashed' \in BOOLEAN /\ ecallStateMachine_' \in Machines
    BY <1>0, <2>1 DEF DoCreate, Frees
  <2> QED BY <1>1, <1>b, <2>1, <2>2, <2>3 DEF ETypes, CallTypes, MachineTypes, TimerTypes, DoCreate, table
<1>3b. CASE i[1] = "start"
  <2>1. DoBoot(x) /\ ecallStateMachine_ \in Machines /\ param[ecallStateMachine_] \in Settings
    BY <1>3b, Executes DEF i, ETypes, MachineTypes
  <2> DEFINE r == [m |-> ecallStateMachine_, i |-> param[ecallStateMachine_].index,
                   prog |-> Goto("CallConnect"), left |-> 0]
  <2>2. r \in Thread
    <3>1. Goto("CallConnect") \in Seq(Instr) /\ param[ecallStateMachine_].index \in Nat
      BY <2>1, Pieces, Names, SettingTypes
    <3> QED BY <2>1, <3>1 DEF Thread
  <2>3. thread' = [thread EXCEPT ![x] = r]
    BY <2>1 DEF DoBoot
  <2> HIDE DEF r
  <2>4. ThreadTypes'
    BY <1>b, <2>2, <2>3, SameSettings DEF ETypes, ThreadTypes
  <2>5. started_' \in [Machines -> BOOLEAN]
    BY <2>1 DEF DoBoot, ETypes, MachineTypes
  <2> QED BY <1>1, <1>b, <2>1, <2>4, <2>5 DEF ETypes, CallTypes, MachineTypes, TimerTypes, DoBoot, table
<1>4. CASE i[1] = "goto"
  <2>0. DoGoto(x)
    BY <1>4, Executes DEF i
  <2> DEFINE exit == IF currentState_[M(x)] = "null" THEN <<>> ELSE onExit(P(x), currentState_[M(x)])
  <2>1. /\ i[2] \in Reached
        /\ Moves(x, rest, 0) \/ Moves(x, exit \o << <<"set", i[2]>> >> \o rest, 0)
        /\ UNCHANGED <<machine, table, eCallRedialIsOngoing_, active, tasks, crashed>>
    BY <2>0, StateChanged DEF i, rest
  <2>2. exit \in Seq(Instr) /\ << <<"set", i[2]>> >> \in Seq(Instr)
    BY <1>0, <2>1, ExitTypes, Pieces, Glued
  <2>2a. exit \o << <<"set", i[2]>> >> \o rest \in Seq(Instr)
    BY <1>0, <2>2
  <2> HIDE DEF exit
  <2>3. ThreadTypes'
    BY <1>0, <1>a, <2>1, <2>2a
  <2> QED BY <1>1, <1>b, <2>1, <2>3 DEF ETypes, CallTypes, MachineTypes, TimerTypes, machine, table
<1>5. CASE i[1] = "set"
  <2> DEFINE enter == onEnter(P(x), i[2], eventPull[M(x)])
  <2>1. DoSet(x) /\ Moves(x, enter \o rest, 0) /\ i[2] \in Reached
    BY <1>0, <1>5, Executes, InstrArgs DEF i, rest
  <2>2. enter \in Seq(Instr)
    BY <1>0, <2>1, EnterTypes
  <2> HIDE DEF enter
  <2>3. ThreadTypes'
    <3>1. enter \o rest \in Seq(Instr)
      BY <1>0, <2>2
    <3> QED BY <1>a, <2>1, <3>1
  <2>4. currentState_' = [currentState_ EXCEPT ![M(x)] = i[2]]
    BY <2>1 DEF DoSet, Op, Arg, i
  <2>5. i[2] \in MachineStates
    BY <2>1, Names
  <2> QED BY <1>1, <1>b, <2>1, <2>3, <2>4, <2>5 DEF ETypes, CallTypes, MachineTypes, TimerTypes, DoSet, table
<1>6. CASE i[1] = "halt"
  <2>1. DoHalt(x) /\ Moves(x, rest, 0)
    BY <1>6, Executes DEF i, rest
  <2>2. ThreadTypes'
    BY <1>0, <1>a, <2>1
  <2> QED BY <1>1, <1>b, <2>1, <2>2 DEF ETypes, CallTypes, MachineTypes, TimerTypes, DoHalt, table
<1>7. CASE i[1] = "updated"
  <2>1. DoUpdated(x) /\ Moves(x, rest, 0) /\ i[2] \in BOOLEAN
    BY <1>0, <1>7, Executes, InstrFlags DEF i, rest
  <2>2. ThreadTypes'
    BY <1>0, <1>a, <2>1
  <2>3. updateInProgress_' = [updateInProgress_ EXCEPT ![M(x)] = i[2]]
    BY <2>1 DEF DoUpdated, Op, Arg, i
  <2>4. updateInProgress_' \in [Machines -> BOOLEAN]
    BY <2>1, <2>3, Zenon DEF ETypes, MachineTypes
  <2> QED BY <1>1, <1>b, <2>1, <2>2, <2>4 DEF ETypes, CallTypes, MachineTypes, TimerTypes, DoUpdated, table
<1>8. CASE i[1] = "call"
  <2>1. DoCall(x) /\ Moves(x, rest, 0) /\ i[2] \in CallStates
    BY <1>0, <1>8, Executes, InstrArgs DEF i, rest
  <2>2. ThreadTypes'
    BY <1>0, <1>a, <2>1
  <2>3. calls_' \in Seq(Machines)
    <3>1. calls_' = Append(calls_, redialECallCache_) \/ calls_' = calls_
      BY <2>1 DEF DoCall
    <3> QED BY <3>1 DEF ETypes, CallTypes
  <2>4. crashed' \in BOOLEAN /\ callEndOperationCompleted_' \in BOOLEAN
    BY <2>1 DEF DoCall
  <2>5. callState' \in [Calls -> CallStates]
    <3>1. callState' = callState \/ callState' = [callState EXCEPT ![calls_'[Min(Entries(calls_', thread[x].i))]] = i[2]]
      BY <2>1 DEF DoCall, Op, Arg, i
    <3> QED BY <2>1, <3>1 DEF ETypes, CallTypes
  <2>6. \A d \in tasks' : Task(d)
    <3>1. tasks' \subseteq tasks \cup {Removal(thread[x].i)}
      BY <2>1 DEF DoCall
    <3>2. thread[x].i \in Nat
      BY DEF ETypes, ThreadTypes, Thread
    <3>3. Task(Removal(thread[x].i))
      BY <3>2 DEF Task, Removal
    <3> QED BY <3>1, <3>3 DEF ETypes, TimerTypes
  <2> QED BY <1>1, <1>b, <2>1, <2>2, <2>3, <2>4, <2>5, <2>6
          DEF ETypes, CallTypes, MachineTypes, TimerTypes, DoCall, machine
<1>9. CASE i[1] = "redial"
  <2>1. DoRedial(x) /\ Moves(x, rest, 0) /\ i[2] \in BOOLEAN
    BY <1>0, <1>9, Executes, InstrFlags DEF i, rest
  <2>2. ThreadTypes'
    BY <1>0, <1>a, <2>1
  <2>3. eCallRedialIsOngoing_' = i[2]
    BY <2>1, Zenon DEF DoRedial, Op, Arg, i
  <2>4. eCallRedialIsOngoing_' \in BOOLEAN
    BY <2>1, <2>3, Zenon
  <2> QED BY <1>1, <1>b, <2>1, <2>2, <2>4 DEF ETypes, CallTypes, MachineTypes, TimerTypes, DoRedial, machine, table
<1>10. CASE i[1] = "loop"
  <2>1. DoLoop(x) /\ i[2] \in Nat /\ Redialing
    BY <1>0, <1>10, Executes, InstrArgs DEF i
  <2> DEFINE round == CASE i[2] = 0 -> <<>>
                        [] i[2] = 1 -> LastAttempt(P(x))
                        [] OTHER -> Attempt(P(x)) \o Loop(i[2] - 1)
  <2>2. Then(x, round)
    BY <2>1 DEF DoLoop, Op, Arg, i
  <2>3. round \in Seq(Instr)
    <3>1. Attempt(P(x)) \in Seq(Instr) /\ LastAttempt(P(x)) \in Seq(Instr)
      BY <1>0, <2>1, EventTypes, Names
    <3>2. CASE i[2] = 0 \/ i[2] = 1
      BY <3>1, <3>2, Glued
    <3>3. CASE i[2] # 0 /\ i[2] # 1
      <4>1. i[2] - 1 \in Nat
        BY <2>1, <3>3
      <4>2. Attempt(P(x)) \o Loop(i[2] - 1) \in Seq(Instr)
        BY <2>1, <3>1, <4>1, Pieces, Glued
      <4> QED BY <3>3, <4>2
    <3> QED BY <3>2, <3>3
  <2> HIDE DEF round
  <2>4. ThreadTypes'
    <3>1. Moves(x, round \o rest, 0)
      BY <2>2, ThenMoves, Executes DEF rest
    <3>2. round \o rest \in Seq(Instr)
      BY <1>0, <2>3
    <3> QED BY <1>a, <3>1, <3>2
  <2> QED BY <1>1, <1>b, <2>1, <2>4 DEF ETypes, CallTypes, MachineTypes, TimerTypes, DoLoop, machine, table
<1>11. CASE i[1] = "timer"
  <2>1. DoStart(x) /\ Moves(x, rest, 0) /\ i[2] \in Timers
    BY <1>0, <1>11, Executes, InstrArgs DEF i, rest
  <2>2. ThreadTypes'
    BY <1>0, <1>a, <2>1
  <2> DEFINE d == [t |-> i[2], n |-> Fresh, i |-> 0, left |-> IF i[2] \in LongTimers THEN 0 ELSE Delay(i[2])]
  <2>3. /\ tasks' = tasks \cup {d}
        /\ active' = (active \cup {i[2]}) \ (IF i[2] = "T2" THEN {"T9", "T10"} ELSE {})
    BY <2>1 DEF DoStart, Op, Arg, i
  <2>4. Task(d)
    BY <2>1 DEF Task, Delay
  <2> HIDE DEF d
  <2>5. active' \subseteq Timers /\ \A e \in tasks' : Task(e)
    BY <2>1, <2>3, <2>4 DEF ETypes, TimerTypes
  <2> QED BY <1>1, <1>b, <2>1, <2>2, <2>5 DEF ETypes, CallTypes, MachineTypes, TimerTypes, DoStart, machine, table
<1>12. CASE i[1] \in {"begin", "stop"}
  <2>1. DoStatus(x) /\ Moves(x, rest, 0) /\ i[2] \in Timers
    BY <1>0, <1>12, Executes, InstrArgs DEF i, rest, Begun
  <2>2. ThreadTypes'
    BY <1>0, <1>a, <2>1
  <2>3. active' \subseteq Timers
    BY <2>1 DEF DoStatus, Op, Arg, ETypes, TimerTypes, i
  <2> QED BY <1>1, <1>b, <2>1, <2>2, <2>3 DEF ETypes, CallTypes, MachineTypes, TimerTypes, DoStatus, machine, table
<1>13. i[1] \in {"sleep", "read", "create", "start", "halt", "call", "goto", "set", "timer", "begin", "stop",
                 "updated", "redial", "loop"}
  BY <1>0, InstrArgs
<1> QED BY <1>2, <1>3a, <1>3, <1>3b, <1>4, <1>5, <1>6, <1>7, <1>8, <1>9, <1>10, <1>11, <1>12, <1>13

LEMMA TypesInit == Init => ETypes /\ Rows
<1> SUFFICES ASSUME Init PROVE ETypes /\ Rows
  OBVIOUS
<1>0. MaxCalls \in Nat /\ 0 \in Machines
  BY EcallAssumption DEF Machines
<1>1. CallTypes
  <2>1. callState \in [Calls -> CallStates]
    BY DEF Init, CallStates
  <2>2. eCallRedialIsOngoing_ \in BOOLEAN /\ callEndOperationCompleted_ \in BOOLEAN /\ crashed \in BOOLEAN
    BY DEF Init
  <2>3. calls_ \in Seq(Machines) /\ redialECallCache_ \in Machines
    BY <1>0 DEF Init
  <2> QED BY <2>1, <2>2, <2>3 DEF CallTypes
<1>2. MachineTypes
  <2>1. FALSE \in BOOLEAN
    OBVIOUS
  <2>2. NoParam \in Settings
    BY DEF NoParam, Settings
  <2> QED BY <1>0, <2>1, <2>2, Zenon DEF Init, MachineTypes
<1>3. TimerTypes
  BY DEF Init, TimerTypes
<1>4. RequestTypes
  <2>1. asked = <<>> /\ Len(<<>>) = 0 /\ <<>> \in Seq(Info)
    BY DEF Init
  <2>2. Len(asked) <= MaxCalls /\ asked \in Seq(Info)
    BY <1>0, <2>1
  <2>3. disturbed \in BOOLEAN
    BY DEF Init
  <2> QED BY <2>2, <2>3, EcallAssumption DEF Init, RequestTypes
<1>5. ThreadTypes /\ DOMAIN thread = {}
  BY DEF Init, ThreadTypes
<1>6. Rows
  <2>1. asked = <<>> /\ calls_ = <<>> /\ redialECallCache_ = 0 /\ Len(<<>>) = 0
    BY DEF Init
  <2>2. Placed /\ redialECallCache_ <= Len(asked)
    BY <2>1 DEF Placed
  <2> QED BY <1>5, <2>2 DEF Init, Rows
<1> QED BY <1>1, <1>2, <1>3, <1>4, <1>5, <1>6 DEF ETypes

\* A second less of sleep, of removals and of timers.
LEMMA TickTypes == ASSUME ETypes, Tick PROVE ETypes' /\ DOMAIN thread' = DOMAIN thread
<1>a. k' = k
  BY DEF Tick
<1>0. k' = k /\ Settings' = Settings /\ Thread' = Thread
  BY <1>a, SameSettings
<1>1. thread' \in [DOMAIN thread -> Thread]
  <2> DEFINE nap(x) == [thread[x] EXCEPT !.left = IF @ > 0 THEN @ - 1 ELSE 0]
  <2>1. ASSUME NEW x \in DOMAIN thread PROVE nap(x) \in Thread
    <3>1. thread[x] \in Thread
      BY DEF ETypes, ThreadTypes
    <3>2. thread[x].left \in 0 .. 5
      BY <3>1 DEF Thread
    <3>3. (IF thread[x].left > 0 THEN thread[x].left - 1 ELSE 0) \in 0 .. 5
      BY <3>2
    <3> QED BY <3>1, <3>3 DEF Thread
  <2>2. thread' = [x \in DOMAIN thread |-> nap(x)]
    BY DEF Tick
  <2> HIDE DEF nap
  <2> QED BY <2>1, <2>2
<1>2. ThreadTypes' /\ DOMAIN thread' = DOMAIN thread
  BY <1>0, <1>1 DEF ThreadTypes
<1>3. \A e \in tasks' : Task(e)
  <2> SUFFICES ASSUME NEW e \in tasks' PROVE Task(e)
    OBVIOUS
  <2>1. PICK d \in tasks : e = [d EXCEPT !.left = IF Short(d) THEN @ - 1 ELSE 0]
    BY DEF Tick
  <2>2. Task(d) /\ (Short(d) => d.left > 0)
    BY DEF Tick, ETypes, TimerTypes
  <2>3. (IF Short(d) THEN d.left - 1 ELSE 0) \in 0 .. 20
    BY <2>2 DEF Task
  <2>4. e = [t |-> d.t, n |-> d.n, i |-> d.i, left |-> IF Short(d) THEN d.left - 1 ELSE 0]
    BY <2>1, <2>2 DEF Task
  <2> QED BY <2>2, <2>3, <2>4 DEF Task
<1> QED BY <1>0, <1>2, <1>3 DEF Tick, ETypes, CallTypes, MachineTypes, TimerTypes, RequestTypes, machine, table,
    requests

\* The machine that there is runs a handler of its state.
LEMMA EventTypesKept ==
    ASSUME ETypes, k' = k, NEW name, NEW q \in Seq(Instr),
           IF ecallStateMachine_ = 0 THEN UNCHANGED thread
           ELSE Spawn(name, ecallStateMachine_, param[ecallStateMachine_].index, q)
    PROVE  ThreadTypes'
<1> DEFINE m == ecallStateMachine_
<1>1. m \in Machines /\ param[m] \in Settings
  BY DEF ETypes, MachineTypes
<1>2. param[m].index \in Nat
  BY <1>1, SettingTypes
<1>3. CASE m = 0
  BY <1>3, SameSettings DEF ETypes, ThreadTypes
<1>4. CASE m # 0
  BY <1>1, <1>2, <1>4, SpawnTypes
<1> QED BY <1>3, <1>4

\* The removal task: the table without the call that it found.
LEMMA RemoveTypes ==
    ASSUME ETypes, Rows, ~crashed, NEW d \in tasks, RemoveCall(d)
    PROVE  ETypes' /\ Rows'
<1> DEFINE j == Min(Entries(calls_, d.i))
<1>0. /\ k' = k /\ asked' = asked /\ Settings' = Settings /\ Thread' = Thread /\ calls_ \in Seq(Machines)
      /\ Placed /\ redialECallCache_ \in Machines /\ redialECallCache_ <= Len(asked) /\ Len(asked) \in Nat
  <2>1. k' = k /\ asked' = asked
    BY DEF RemoveCall, requests
  <2> QED BY <2>1, SameSettings DEF ETypes, CallTypes, RequestTypes, Rows
<1>1. /\ calls_' \in Seq(Machines) /\ redialECallCache_' \in Machines
      /\ callEndOperationCompleted_' \in BOOLEAN /\ Placed' /\ redialECallCache_' <= Len(asked)
      /\ calls_ = <<>> => calls_' = <<>>
  <2>1. CASE Entries(calls_, d.i) = {}
    <3>1. UNCHANGED <<calls_, redialECallCache_, callEndOperationCompleted_>>
      BY <2>1 DEF RemoveCall
    <3> QED BY <1>0, <3>1 DEF ETypes, CallTypes, Placed
  <2>2. CASE Entries(calls_, d.i) # {}
    <3>1. /\ calls_' = RemoveAt(calls_, j) /\ callEndOperationCompleted_' = TRUE
          /\ redialECallCache_' = calls_[j] \/ redialECallCache_' = redialECallCache_
      BY <2>2 DEF RemoveCall
    <3>2. j \in 1 .. Len(calls_)
      BY <1>0, <2>2, FirstEntry
    <3> HIDE DEF j
    <3>3. /\ calls_' \in Seq(Machines) /\ Len(calls_') = Len(calls_) - 1 /\ Len(calls_) \in Nat
          /\ \A l \in 1 .. Len(calls_) - 1 : calls_'[l] = IF l < j THEN calls_[l] ELSE calls_[l + 1]
      <4>1. /\ RemoveAt(calls_, j) \in Seq(Machines) /\ Len(RemoveAt(calls_, j)) = Len(calls_) - 1
            /\ \A l \in 1 .. Len(calls_) - 1 :
                 RemoveAt(calls_, j)[l] = IF l < j THEN calls_[l] ELSE calls_[l + 1]
        BY <1>0, <3>2, SequenceWithout, Zenon
      <4>2. Len(calls_) \in Nat
        BY <1>0
      <4> QED BY <3>1, <4>1, <4>2, Zenon
    <3>4. calls_[j] \in Machines /\ calls_ # <<>> /\ calls_[j] \in 1 .. Len(asked)
      BY <1>0, <3>2 DEF Placed
    <3>5. ASSUME NEW l \in 1 .. Len(calls_') PROVE calls_'[l] \in 1 .. Len(asked)
      <4>1. l \in 1 .. Len(calls_) - 1
        BY <3>3
      <4>2. l \in 1 .. Len(calls_) /\ l + 1 \in 1 .. Len(calls_)
        BY <3>3, <4>1
      <4> QED BY <1>0, <3>3, <4>1, <4>2 DEF Placed
    <3>6. Placed'
      BY <1>0, <3>5 DEF Placed
    <3> QED BY <1>0, <3>1, <3>3, <3>4, <3>6
  <2> QED BY <2>1, <2>2
<1> HIDE DEF j
<1>2. \A e \in tasks' : Task(e)
  BY DEF RemoveCall, ETypes, TimerTypes
<1>3. ETypes'
  BY <1>0, <1>1, <1>2 DEF RemoveCall, ETypes, CallTypes, MachineTypes, TimerTypes, RequestTypes, ThreadTypes,
     requests, machine
<1> QED BY <1>0, <1>1, <1>3 DEF Rows, RemoveCall, requests, machine

LEMMA ExpireTypes ==
    ASSUME ETypes, Rows, ~crashed, NEW d \in tasks, Expire(d)
    PROVE  ETypes' /\ Rows'
<1>0. k' = k /\ Settings' = Settings /\ k \in Configs
  <2>1. k' = k
    BY DEF Expire
  <2> QED BY <2>1, SameSettings DEF ETypes, RequestTypes
<1> DEFINE m == ecallStateMachine_
           q == onTimerExpiry(param[m], currentState_[m], d.t)
<1>1. d.t \in Timers /\ m \in Machines /\ param[m] \in Settings
  BY DEF Expire, ETypes, MachineTypes
<1>2. q \in Seq(Instr)
  BY <1>0, <1>1, EventTypes
<1>3. thread' = thread \/ (m # 0 /\ Spawn(d.t, m, param[m].index, q))
  <2>1. d.t # "hangup"
    BY <1>1 DEF Timers
  <2> QED BY <2>1 DEF Expire, onEvent
<1>4. crashed' \in BOOLEAN
  BY DEF Expire, onEvent, NoState, ETypes, CallTypes
<1> HIDE DEF q
<1>5. ThreadTypes'
  <2>1. CASE thread' = thread
    BY <1>0, <2>1, SameSettings DEF ETypes, ThreadTypes
  <2>2. CASE m # 0 /\ Spawn(d.t, m, param[m].index, q)
    BY <1>0, <1>2, <2>2, EventTypesKept
  <2> QED BY <1>3, <2>1, <2>2
<1>6. ETypes'
  <2>1. \A e \in tasks' : Task(e)
    BY DEF Expire, ETypes, TimerTypes
  <2> QED BY <1>0, <1>4, <1>5, <2>1 DEF Expire, ETypes, CallTypes, MachineTypes, TimerTypes, RequestTypes,
          requests, machine, table
<1>7. Rows'
  <2>1. asked = <<>> => thread' = thread
    BY <1>3 DEF Rows
  <2> QED BY <2>1 DEF Rows, Placed, Expire, requests, machine, table
<1> QED BY <1>6, <1>7

LEMMA MakeTypes ==
    ASSUME ETypes, Rows, ~crashed, NEW r \in Requests, MakeECall(r)
    PROVE  ETypes' /\ Rows'
<1> DEFINE info == [number |-> r.number, custom |-> r.custom, ims |-> r.ims, msd |-> r.msd, index |-> NewIndex]
<1>0. /\ k' = k /\ Settings' = Settings /\ Thread' = Thread
      /\ asked \in Seq(Info) /\ Len(asked) \in Nat /\ Len(asked) < MaxCalls
  <2>1. k' = k
    BY DEF MakeECall
  <2> QED BY <2>1, SameSettings DEF ETypes, RequestTypes, MakeECall
<1>1. info \in Info
  <2>1. NewIndex \in Nat \ {0}
    <3> DEFINE T == {j \in 1 .. Len(calls_) : asked[calls_[j]].index # j} \cup {Len(calls_) + 1}
    <3>1. Len(calls_) \in Nat
      BY DEF ETypes, CallTypes
    <3>2. T \subseteq Nat /\ T # {} /\ 0 \notin T
      BY <3>1
    <3>3. NewIndex = Min(T)
      BY DEF NewIndex
    <3> HIDE DEF T
    <3> QED BY <3>2, <3>3, LeastOf
  <2>2. r \in Request
    BY EcallAssumption
  <2> QED BY <2>1, <2>2 DEF Info, Request
<1>2. asked' = Append(asked, info)
  BY DEF MakeECall
<1> HIDE DEF info
<1>3. asked' \in Seq(Info) /\ Len(asked') = Len(asked) + 1 /\ asked' # <<>>
  BY <1>0, <1>1, <1>2
<1>4. RequestTypes'
  <2>1. Len(asked') <= MaxCalls
    BY <1>0, <1>3, EcallAssumption
  <2>2. disturbed' \in BOOLEAN
    BY DEF MakeECall
  <2> QED BY <1>0, <1>3, <2>1, <2>2 DEF MakeECall, ETypes, RequestTypes
<1>5. Len(asked) + 1 \in Machines /\ Len(asked) + 1 # 0
  BY <1>0, EcallAssumption DEF Machines
<1>6. calls_' \in Seq(Machines) /\ Placed'
  <2>1. calls_ \in Seq(Machines) /\ Placed
    BY DEF ETypes, CallTypes, Rows
  <2>2. CASE calls_' = calls_
    BY <1>0, <1>3, <2>1, <2>2 DEF Placed
  <2>3. CASE calls_' = Append(calls_, Len(asked) + 1)
    <3>1. /\ calls_' \in Seq(Machines) /\ Len(calls_) \in Nat /\ Len(calls_') = Len(calls_) + 1
          /\ calls_'[Len(calls_) + 1] = Len(asked) + 1
          /\ \A l \in 1 .. Len(calls_) : calls_'[l] = calls_[l]
      BY <1>5, <2>1, <2>3
    <3>2. ASSUME NEW l \in 1 .. Len(calls_') PROVE calls_'[l] \in 1 .. Len(asked')
      <4>1. l \in 1 .. Len(calls_) \/ l = Len(calls_) + 1
        BY <3>1
      <4> QED BY <1>0, <1>3, <2>1, <3>1, <4>1 DEF Placed
    <3> QED BY <3>1, <3>2 DEF Placed
  <2> QED BY <2>2, <2>3 DEF MakeECall
<1>7. ThreadTypes'
  <2>1. thread' = thread \/ Spawn("dial", Len(asked) + 1, 0, Dial)
    BY DEF MakeECall
  <2>2. Dial \in Seq(Instr) /\ 0 \in Nat
    BY Pieces DEF Dial
  <2>3. CASE thread' = thread
    BY <1>0, <2>3 DEF ETypes, ThreadTypes
  <2>4. CASE Spawn("dial", Len(asked) + 1, 0, Dial)
    BY <1>0, <1>5, <2>2, <2>4, SpawnTypes
  <2> QED BY <2>1, <2>3, <2>4
<1>8. ETypes'
  BY <1>0, <1>4, <1>6, <1>7 DEF MakeECall, ETypes, CallTypes, MachineTypes, TimerTypes, machine
<1>9. redialECallCache_' <= Len(asked')
  <2>1. redialECallCache_ \in Int /\ redialECallCache_ <= Len(asked) /\ redialECallCache_' = redialECallCache_
    BY DEF MakeECall, ETypes, CallTypes, Machines, Rows
  <2> QED BY <1>0, <1>3, <2>1
<1> QED BY <1>3, <1>6, <1>8, <1>9 DEF MakeECall, Rows, machine

LEMMA HangupTypes ==
    ASSUME ETypes, Rows, ~crashed, NEW e \in ToSet(calls_), Hangup(asked[e].index)
    PROVE  ETypes' /\ Rows'
<1> DEFINE i == asked[e].index
           c == calls_[Min(Entries(calls_, i))]
           m == ecallStateMachine_
           q == onHangup(param[m], currentState_[m])
<1>0. /\ k' = k /\ Settings' = Settings /\ Thread' = Thread /\ k \in Configs /\ calls_ \in Seq(Machines)
      /\ asked \in Seq(Info) /\ Placed
  <2>1. k' = k
    BY DEF Hangup
  <2> QED BY <2>1, SameSettings DEF ETypes, RequestTypes, CallTypes, Rows
<1>1. PICK l \in 1 .. Len(calls_) : calls_[l] = e
  BY <1>0 DEF ToSet
<1>1a. e \in 1 .. Len(asked)
  BY <1>0, <1>1 DEF Placed
<1>1b. i \in Nat /\ asked # <<>> /\ e # 0
  <2>1. asked[e] \in Info
    BY <1>0, <1>1a
  <2> QED BY <1>0, <1>1a, <2>1 DEF Info
<1>2. Entries(calls_, i) # {}
  BY <1>0, <1>1, <1>1b DEF Entries
<1>3. c \in Calls
  BY <1>0, <1>2, FirstEntry
<1>5. q \in Seq(Instr) /\ m \in Machines /\ param[m] \in Settings
  <2>1. m \in Machines /\ param[m] \in Settings
    BY DEF ETypes, MachineTypes
  <2> QED BY <1>0, <2>1, EventTypes, Names
<1>6. /\ \/ thread' = thread \/ (m # 0 /\ Spawn("hangup", m, param[m].index, q))
         \/ Spawn("hangup", 0, i, Call("ENDED"))
      /\ crashed' = NoState \/ crashed' = crashed
      /\ hungUp' \subseteq hungUp \cup {c}
      /\ disturbed' \in BOOLEAN
  BY DEF Hangup, onEvent
<1> HIDE DEF q, c, i
<1>7. ThreadTypes'
  <2>1. CASE thread' = thread
    BY <1>0, <2>1 DEF ETypes, ThreadTypes
  <2>2. CASE m # 0 /\ Spawn("hangup", m, param[m].index, q)
    BY <1>0, <1>5, <2>2, EventTypesKept
  <2>3. CASE Spawn("hangup", 0, i, Call("ENDED"))
    <3>1. Call("ENDED") \in Seq(Instr) /\ 0 \in Machines
      BY Pieces, Names, EcallAssumption DEF Machines
    <3> QED BY <1>0, <1>1b, <2>3, <3>1, SpawnTypes
  <2> QED BY <1>6, <2>1, <2>2, <2>3
<1>8. crashed' \in BOOLEAN
  BY <1>6 DEF NoState, ETypes, CallTypes
<1>9. hangups' \in 0 .. MaxHangups
  BY EcallAssumption DEF Hangup, ETypes, RequestTypes
<1>10. ETypes'
  BY <1>0, <1>6, <1>7, <1>8, <1>9 DEF Hangup, ETypes, CallTypes, MachineTypes, TimerTypes, RequestTypes,
     machine, table
<1> QED BY <1>0, <1>1b, <1>3, <1>6, <1>10 DEF Hangup, Rows, Placed, table

LEMMA UpdateTypes ==
    ASSUME ETypes, Rows, ~crashed, UpdateECallMsd
    PROVE  ETypes' /\ Rows'
<1> DEFINE m == ecallStateMachine_
           ng == IF callInfo_.custom THEN callInfo_.ims ELSE k.ng
           q == IF ng THEN If(~param[m].custom, Sleep) \o << <<"updated", FALSE>> >> ELSE Goto("DecodeSendMSD")
<1>0. k' = k /\ Settings' = Settings /\ m # 0
  <2>1. k' = k /\ m # 0
    BY DEF UpdateECallMsd
  <2> QED BY <2>1, SameSettings
<1>1. q \in Seq(Instr)
  BY Pieces, Glued, Names
<1>2. Spawn("msd", m, param[m].index, q)
  BY DEF UpdateECallMsd
<1> HIDE DEF q
<1>3. ThreadTypes'
  BY <1>0, <1>1, <1>2, EventTypesKept
<1>4. pulls' \in 0 .. MaxPulls /\ disturbed' \in BOOLEAN
  BY EcallAssumption DEF UpdateECallMsd, ETypes, RequestTypes
<1>5. eventPull' \in [Machines -> BOOLEAN] /\ updateInProgress_' \in [Machines -> BOOLEAN]
  BY DEF UpdateECallMsd, ETypes, MachineTypes
<1>6. ETypes'
  BY <1>0, <1>3, <1>4, <1>5 DEF UpdateECallMsd, ETypes, CallTypes, MachineTypes, TimerTypes, RequestTypes, table
<1> QED BY <1>0, <1>6 DEF UpdateECallMsd, Rows, Placed, table

LEMMA InstructionRows ==
    ASSUME ETypes, Rows, ~crashed, NEW x \in DOMAIN thread, Instruction(x)
    PROVE  Rows'
<1>1. /\ hungUp' = hungUp /\ asked' = asked /\ asked # <<>> /\ Placed /\ Len(asked) \in Nat
      /\ redialECallCache_ <= Len(asked) /\ redialECallCache_ \in Nat
  BY DEF Instruction, requests, Rows, ETypes, RequestTypes, CallTypes, Machines
<1>2. CASE DoCall(x)
  <2>1. redialECallCache_' = redialECallCache_ /\ (0 \in ToSet(calls_') => crashed')
    BY <1>2 DEF DoCall
  <2>2. crashed' \/ Placed'
    <3>1. CASE calls_' = calls_
      BY <1>1, <3>1 DEF Placed
    <3>2. CASE calls_' = Append(calls_, redialECallCache_)
      <4>1. calls_ \in Seq(Machines) /\ redialECallCache_ \in Machines
        BY DEF ETypes, CallTypes
      <4>2. /\ Len(calls_) \in Nat /\ Len(calls_') = Len(calls_) + 1
            /\ calls_'[Len(calls_) + 1] = redialECallCache_
            /\ \A l \in 1 .. Len(calls_) : calls_'[l] = calls_[l]
            /\ DOMAIN calls_' = 1 .. Len(calls_) + 1
        BY <3>2, <4>1
      <4>3. redialECallCache_ = 0 => crashed'
        <5>1. Len(calls_) + 1 \in DOMAIN calls_'
          BY <4>2
        <5>2. redialECallCache_ \in ToSet(calls_')
          BY <4>2, <5>1, Zenon DEF ToSet
        <5> QED BY <2>1, <5>2, Zenon
      <4>4. ASSUME redialECallCache_ # 0, NEW l \in 1 .. Len(calls_') PROVE calls_'[l] \in 1 .. Len(asked')
        <5>1. l \in 1 .. Len(calls_) \/ l = Len(calls_) + 1
          BY <4>2
        <5> QED BY <1>1, <4>2, <4>4, <5>1 DEF Placed
      <4> QED BY <4>3, <4>4 DEF Placed
    <3> QED BY <1>2, <3>1, <3>2 DEF DoCall
  <2> QED BY <1>1, <2>1, <2>2 DEF Rows
<1>3. CASE ~DoCall(x)
  <2>1. calls_' = calls_ /\ redialECallCache_' = redialECallCache_
    BY <1>3 DEF Instruction, table, DoSleep, DoRead, DoCreate, DoBoot, DoGoto, DoSet, DoHalt, DoUpdated, DoRedial,
       DoLoop, DoStart, DoStatus
  <2> QED BY <1>1, <2>1 DEF Rows, Placed
<1> QED BY <1>2, <1>3

LEMMA TypesNext == ETypes /\ Rows /\ [Next]_vars => (ETypes /\ Rows)'
<1> SUFFICES ASSUME ETypes, Rows, [Next]_vars PROVE ETypes' /\ Rows'
  OBVIOUS
<1>1. CASE UNCHANGED vars
  <2>1. k' = k /\ Settings' = Settings /\ Thread' = Thread
    BY <1>1, SameSettings DEF vars
  <2> QED BY <1>1, <2>1 DEF vars, requests, machine, table, ETypes, CallTypes, MachineTypes, TimerTypes, RequestTypes,
          ThreadTypes, Rows, Placed
<1>2. CASE Next
  <2>0. ~crashed
    BY <1>2 DEF Next
  <2>1. ASSUME NEW x \in DOMAIN thread, Instruction(x) PROVE ETypes' /\ Rows'
    BY <2>0, <2>1, InstructionTypes, InstructionRows
  <2>2. ASSUME NEW x \in DOMAIN thread, Exit(x) PROVE ETypes' /\ Rows'
    <3>1. k' = k
      BY <2>2 DEF Exit
    <3>2. Settings' = Settings /\ Thread' = Thread
      BY <3>1, SameSettings
    <3>3. thread' = [y \in DOMAIN thread \ {x} |-> thread[y]]
      BY <2>2 DEF Exit
    <3>4. ThreadTypes' /\ asked # <<>>
      BY <3>2, <3>3 DEF ETypes, ThreadTypes, Rows
    <3>5. crashed' \in BOOLEAN
      BY <2>2 DEF Exit
    <3> QED BY <2>0, <2>2, <3>2, <3>4, <3>5 DEF Exit, requests, machine, table, ETypes, CallTypes, MachineTypes,
            TimerTypes, RequestTypes, Rows, Placed
  <2>3. ASSUME NEW d \in tasks, RemoveCall(d) \/ Expire(d) PROVE ETypes' /\ Rows'
    BY <2>0, <2>3, RemoveTypes, ExpireTypes
  <2>4. CASE Tick
    <3>1. ETypes' /\ DOMAIN thread' = DOMAIN thread
      BY <2>4, TickTypes
    <3> QED BY <2>0, <2>4, <3>1 DEF Tick, Rows, Placed, requests, machine, table
  <2>5. ASSUME NEW r \in Requests, MakeECall(r) PROVE ETypes' /\ Rows'
    BY <2>0, <2>5, MakeTypes
  <2>6. ASSUME NEW c \in ToSet(calls_), Hangup(asked[c].index) PROVE ETypes' /\ Rows'
    BY <2>0, <2>6, HangupTypes
  <2>7. CASE UpdateECallMsd
    BY <2>0, <2>7, UpdateTypes
  <2>8. CASE RequestNetworkDeregistration
    <3>1. k' = k
      BY <2>8 DEF RequestNetworkDeregistration
    <3>2. Settings' = Settings /\ Thread' = Thread
      BY <3>1, SameSettings
    <3>3. crashed' \in BOOLEAN /\ active' \subseteq active
      BY <2>8 DEF RequestNetworkDeregistration, NoState
    <3> QED BY <2>0, <2>8, <3>2, <3>3 DEF RequestNetworkDeregistration, requests, machine, table, ETypes, CallTypes,
            MachineTypes, TimerTypes, RequestTypes, ThreadTypes, Rows, Placed
  <2> QED BY <1>2, <2>1, <2>2, <2>3, <2>4, <2>5, <2>6, <2>7, <2>8 DEF Next, Server, Client
<1> QED BY <1>1, <1>2

LEMMA TypesAlways == Spec => [](ETypes /\ Rows)
  BY TypesInit, TypesNext, PTL DEF Spec

\* Every variable keeps its type, in every configuration and however requests race: the
\* machine of every thread is one that was made, and the sleeps, the seconds of the
\* removal tasks and of the timers stay within their bounds through every change of
\* state nested in another.
THEOREM EcallTyped == Spec => []TypeOK
<1>1. ETypes /\ Rows => TypeOK
  <2> SUFFICES ASSUME ETypes, Rows PROVE TypeOK
    OBVIOUS
  <2>1. \A x \in DOMAIN thread : thread[x].m \in Machines /\ thread[x].left \in 0 .. 5
    BY DEF ETypes, ThreadTypes, Thread
  <2>2. \A d \in tasks : d.t \in Timers \cup {"removal"} /\ d.left \in 0 .. 20
    BY DEF ETypes, TimerTypes, Task
  <2>3. /\ {started_, eventPull, updateInProgress_} \subseteq [Machines -> BOOLEAN]
        /\ {eCallRedialIsOngoing_, callEndOperationCompleted_, disturbed, crashed} \subseteq BOOLEAN
    BY Zenon DEF ETypes, MachineTypes, CallTypes, RequestTypes
  <2>4. param \in [Machines -> Param]
    <3>1. Settings \subseteq Param
      BY ConfigTypes DEF Settings, Param, ETypes, RequestTypes
    <3> QED BY <3>1 DEF ETypes, MachineTypes
  <2>5. Machines = 0 .. MaxCalls
    BY DEF Machines
  <2> QED BY <2>1, <2>2, <2>3, <2>4, <2>5 DEF ETypes, Rows, TypeOK, CallTypes, MachineTypes, TimerTypes, RequestTypes
<1> QED BY <1>1, TypesAlways, PTL

-----------------------------------------------------------------------------
(* T2 and T9 have a task.                                                   *)

LEMMA WatchedNext == ETypes /\ Rows /\ TimersWatched /\ [Next]_vars => TimersWatched'
<1> SUFFICES ASSUME ETypes, TimersWatched, [Next]_vars, NEW t \in active' \cap {"T2", "T9"}
             PROVE  \E d \in tasks' : d.t = t
  BY DEF TimersWatched
<1>1. CASE active' \subseteq active /\ tasks \subseteq tasks'
  BY <1>1 DEF TimersWatched
<1>2. ASSUME NEW x \in DOMAIN thread, Instruction(x) PROVE \E d \in tasks' : d.t = t
  <2> DEFINE i == Head(thread[x].prog)
  <2>0. i \in Instr
    BY <1>2, Executes
  <2>1. CASE DoStart(x)
    <3>1. PICK d : d.t = i[2] /\ tasks' = tasks \cup {d}
      <4> DEFINE e == [t |-> i[2], n |-> Fresh, i |-> 0, left |-> IF i[2] \in LongTimers THEN 0 ELSE Delay(i[2])]
      <4>1. e.t = i[2] /\ tasks' = tasks \cup {e}
        BY <2>1 DEF DoStart, Op, Arg
      <4> QED BY <4>1
    <3>2. active' \subseteq active \cup {i[2]}
      BY <2>1 DEF DoStart, Op, Arg
    <3> QED BY <3>1, <3>2 DEF TimersWatched
  <2>2. CASE DoStatus(x)
    <3>1. tasks' = tasks /\ i[1] \in {"begin", "stop"}
          /\ (i[1] = "begin" => active' = active \cup {i[2]}) /\ (i[1] = "stop" => active' \subseteq active)
      BY <2>2 DEF DoStatus, Op, Arg
    <3>2. i[1] = "begin" => i[2] \notin {"T2", "T9"}
      BY <2>0, InstrArgs DEF Begun
    <3> QED BY <3>1, <3>2 DEF TimersWatched
  <2>3. CASE ~DoStart(x) /\ ~DoStatus(x)
    <3>1. active' = active /\ tasks \subseteq tasks'
      BY <1>2, <2>3 DEF Instruction, DoSleep, DoRead, DoCreate, DoBoot, DoGoto, DoSet, DoHalt, DoUpdated, DoCall,
         DoRedial, DoLoop
    <3> QED BY <1>1, <3>1
  <2> QED BY <2>1, <2>2, <2>3
<1>3. ASSUME NEW d \in tasks, RemoveCall(d) PROVE \E e \in tasks' : e.t = t
  <2>1. d.t = "removal" /\ tasks' = tasks \ {d} /\ active' = active
    BY <1>3 DEF RemoveCall
  <2> QED BY <2>1 DEF TimersWatched
<1>4. ASSUME NEW d \in tasks, Expire(d) PROVE \E e \in tasks' : e.t = t
  <2>1. tasks' = tasks \ {d} /\ active' = active \ {d.t}
    BY <1>4 DEF Expire
  <2> QED BY <2>1 DEF TimersWatched
<1>5. CASE Tick
  <2>1. active' = active /\ tasks' = {[d EXCEPT !.left = IF Short(d) THEN @ - 1 ELSE 0] : d \in tasks}
    BY <1>5 DEF Tick
  <2>2. PICK d \in tasks : d.t = t
    BY <2>1 DEF TimersWatched
  <2> DEFINE e == [d EXCEPT !.left = IF Short(d) THEN @ - 1 ELSE 0]
  <2>3. e \in tasks'
    BY <2>1
  <2>4. e.t = d.t
    BY DEF ETypes, TimerTypes, Task
  <2> QED BY <2>2, <2>3, <2>4
<1>6. CASE \/ \E x \in DOMAIN thread : Exit(x)
           \/ \E r \in Requests : MakeECall(r)
           \/ \E c \in ToSet(calls_) : Hangup(asked[c].index)
           \/ UpdateECallMsd \/ RequestNetworkDeregistration \/ UNCHANGED vars
  <2>1. active' \subseteq active /\ tasks' = tasks
    BY <1>6 DEF Exit, MakeECall, Hangup, UpdateECallMsd, RequestNetworkDeregistration, vars
  <2> QED BY <1>1, <2>1
<1> QED BY <1>2, <1>3, <1>4, <1>5, <1>6 DEF Next, Server, Client

\* Whenever T2 or T9 is ACTIVE there is a task that will look at it, through any number
\* of eCalls to any numbers, machines replaced while they work, hangups and redials: no
\* state begins them without startTimer, and a task that goes leaves the timer INACTIVE.
THEOREM LongTimersWatched == Spec => []TimersWatched
<1>1. Init => TimersWatched
  BY DEF Init, TimersWatched
<1> QED BY <1>1, TypesAlways, WatchedNext, PTL DEF Spec

-----------------------------------------------------------------------------
(* Without redials, an ended call leaves the table.                         *)

RemovalDue(i) == \E d \in tasks : d.t = "removal" /\ d.i = i
Distinct == \A l, o \in 1 .. Len(calls_) : calls_[l] = calls_[o] => l = o
\* The call at place l is the first with its index.
FirstOf(l) == \A o \in 1 .. Len(calls_) : asked[calls_[o]].index = asked[calls_[l]].index => l <= o
EndedFirst ==
    \A l \in 1 .. Len(calls_) : callState[calls_[l]] = "ENDED" =>
        FirstOf(l) /\ RemovalDue(asked[calls_[l]].index)
NewNotEnded == \A c \in Calls : Len(asked) < c => callState[c] # "ENDED"
Table == k.redial = "SUCCESS" => ~eCallRedialIsOngoing_ /\ Distinct /\ EndedFirst /\ NewNotEnded

LEMMA TableKept ==
    ASSUME Table, k' = k, asked' = asked, calls_' = calls_, callState' = callState,
           k.redial = "SUCCESS" /\ ~eCallRedialIsOngoing_ => ~eCallRedialIsOngoing_',
           \A d \in tasks : d.t = "removal" => \E e \in tasks' : e.t = "removal" /\ e.i = d.i
    PROVE  Table'
<1> SUFFICES ASSUME k.redial = "SUCCESS" PROVE (~eCallRedialIsOngoing_ /\ Distinct /\ EndedFirst /\ NewNotEnded)'
  BY DEF Table
<1>1. ~eCallRedialIsOngoing_ /\ Distinct /\ EndedFirst /\ NewNotEnded
  BY DEF Table
<1>2. ~eCallRedialIsOngoing_'
  BY <1>1
<1>3. Distinct' /\ NewNotEnded'
  BY <1>1 DEF Distinct, NewNotEnded
<1>4. \A i : RemovalDue(i) => RemovalDue(i)'
  BY DEF RemovalDue
<1>5. \A l : FirstOf(l) => FirstOf(l)'
  BY DEF FirstOf
<1>6. EndedFirst'
  BY <1>1, <1>4, <1>5 DEF EndedFirst
<1> QED BY <1>2, <1>3, <1>6

\* changeCallState: the call that ends is the first of its index, and its task is added.
LEMMA TableCall ==
    ASSUME ETypes, Rows, ~crashed, Table, NEW x \in DOMAIN thread, Instruction(x), DoCall(x)
    PROVE  Table'
<1>0. k' = k /\ asked' = asked /\ eCallRedialIsOngoing_' = eCallRedialIsOngoing_
  BY DEF Instruction, requests, DoCall
<1> SUFFICES ASSUME k.redial = "SUCCESS" PROVE (~eCallRedialIsOngoing_ /\ Distinct /\ EndedFirst /\ NewNotEnded)'
  BY <1>0 DEF Table
<1>1. ~eCallRedialIsOngoing_ /\ Distinct /\ EndedFirst /\ NewNotEnded
  BY DEF Table
<1>2. calls_' = calls_ /\ tasks \subseteq tasks'
  BY <1>1 DEF DoCall, Redials
<1>3. CASE callState' = callState
  <2>1. \A d \in tasks : d.t = "removal" => \E e \in tasks' : e.t = "removal" /\ e.i = d.i
    BY <1>2
  <2>2. Table'
    BY <1>0, <1>1, <1>2, <1>3, <2>1, TableKept
  <2> QED BY <1>0, <2>2 DEF Table
<1>4. CASE callState' # callState
  <2> DEFINE E == Entries(calls_, thread[x].i)
             j == Min(E)
             a == Head(thread[x].prog)[2]
  <2>1. /\ E # {} /\ ~crashed' /\ callState' = [callState EXCEPT ![calls_[j]] = a]
        /\ a = "ENDED" => tasks' = tasks \cup {Removal(thread[x].i)}
    <3>1. /\ crashed' = (Entries(calls_', thread[x].i) = {} \/ 0 \in ToSet(calls_'))
          /\ callState' = IF crashed' THEN callState
                          ELSE [callState EXCEPT ![calls_'[Min(Entries(calls_', thread[x].i))]] = a]
          /\ tasks' = IF ~crashed' /\ a = "ENDED" THEN tasks \cup {Removal(thread[x].i)} ELSE tasks
      BY DEF DoCall, Arg, Op
    <3>2. ~crashed'
      BY <1>4, <3>1
    <3>3. Entries(calls_', thread[x].i) = E
      BY <1>0, <1>2 DEF Entries
    <3> HIDE DEF E, a
    <3> QED BY <1>2, <3>1, <3>2, <3>3
  <2>2. calls_ \in Seq(Machines) /\ callState \in [Calls -> CallStates] /\ Placed /\ Len(asked) \in Nat /\ Len(calls_) \in Nat
    BY DEF ETypes, CallTypes, RequestTypes, Rows
  <2>3. /\ j \in 1 .. Len(calls_) /\ calls_[j] \in Calls /\ asked[calls_[j]].index = thread[x].i
        /\ \A o \in 1 .. Len(calls_) : calls_[o] # 0 /\ asked[calls_[o]].index = thread[x].i => j <= o
    BY <2>1, <2>2, FirstEntry
  <2> HIDE DEF E, j, a
  <2>4. FirstOf(j)
    <3>1. \A o \in 1 .. Len(calls_) : calls_[o] # 0
      BY <2>2 DEF Placed
    <3> QED BY <2>3, <3>1 DEF FirstOf
  <2>5. PICK i : i = thread[x].i
    OBVIOUS
  <2>6. a = "ENDED" => \E d \in tasks' : d.t = "removal" /\ d.i = i
    <3>1. Removal(i).t = "removal" /\ Removal(i).i = i
      BY DEF Removal
    <3> QED BY <2>1, <2>5, <3>1
  <2>7. /\ callState'[calls_[j]] = a
        /\ \A c \in Calls : c # calls_[j] => callState'[c] = callState[c]
    BY <2>1, <2>2, <2>3
  <2>8. Distinct'
    BY <1>1, <1>2 DEF Distinct
  <2>9. NewNotEnded'
    <3>1. calls_[j] <= Len(asked)
      BY <2>2, <2>3 DEF Placed
    <3>2. ASSUME NEW c \in Calls, Len(asked) < c PROVE callState'[c] # "ENDED"
      <4>1. c # calls_[j]
        BY <2>2, <2>3, <3>1, <3>2 DEF Calls
      <4> QED BY <1>1, <2>7, <3>2, <4>1 DEF NewNotEnded
    <3> QED BY <1>0, <3>2 DEF NewNotEnded
  <2>10. ASSUME NEW l \in 1 .. Len(calls_), callState'[calls_[l]] = "ENDED"
         PROVE  FirstOf(l) /\ \E d \in tasks' : d.t = "removal" /\ d.i = asked[calls_[l]].index
    <3>1. CASE l = j
      BY <2>3, <2>4, <2>5, <2>6, <2>7, <2>10, <3>1
    <3>2. CASE l # j
      <4>1. calls_[l] # calls_[j]
        BY <1>1, <2>3, <3>2 DEF Distinct
      <4>2. calls_[l] \in Calls
        BY <2>2, EcallAssumption DEF Placed, Calls, Rows, ETypes, RequestTypes
      <4>3. callState[calls_[l]] = "ENDED"
        BY <2>7, <2>10, <4>1, <4>2
      <4> QED BY <1>1, <1>2, <4>3 DEF EndedFirst, RemovalDue
    <3> QED BY <3>1, <3>2
  <2>11. \A l : FirstOf(l) => FirstOf(l)'
    BY <1>0, <1>2 DEF FirstOf
  <2>12. EndedFirst'
    BY <1>0, <1>2, <2>10, <2>11 DEF EndedFirst, RemovalDue
  <2> QED BY <1>0, <1>1, <2>8, <2>9, <2>12
<1> QED BY <1>3, <1>4

\* The other instructions end no call, and without a redial scenario none raises the flag.
LEMMA TableInstruction ==
    ASSUME ETypes, Rows, ~crashed, Table, NEW x \in DOMAIN thread, Instruction(x)
    PROVE  Table'
<1> DEFINE i == Head(thread[x].prog)
<1>0. i \in Instr /\ k' = k /\ asked' = asked
  BY Executes DEF requests
<1>1. CASE DoCall(x)
  BY <1>1, TableCall
<1>2. CASE ~DoCall(x)
  <2>1. calls_' = calls_ /\ callState' = callState /\ tasks \subseteq tasks'
        /\ (eCallRedialIsOngoing_' = eCallRedialIsOngoing_ \/ DoRedial(x))
    BY <1>2 DEF Instruction, DoSleep, DoRead, DoCreate, DoBoot, DoGoto, DoSet, DoHalt, DoUpdated, DoRedial,
       DoLoop, DoStart, DoStatus, table
  <2>2. k.redial = "SUCCESS" /\ DoRedial(x) => ~eCallRedialIsOngoing_'
    <3>1. i[1] = "redial" /\ ~Redialing => i[2] = FALSE
      BY <1>0, InstrFlags
    <3>2. DoRedial(x) => i[1] = "redial" /\ eCallRedialIsOngoing_' = i[2]
      BY DEF DoRedial, Op, Arg
    <3> HIDE DEF i
    <3> QED BY <3>1, <3>2, Zenon DEF Redialing
  <2>3. \A d \in tasks : d.t = "removal" => \E e \in tasks' : e.t = "removal" /\ e.i = d.i
    BY <2>1
  <2>4. k.redial = "SUCCESS" /\ ~eCallRedialIsOngoing_ => ~eCallRedialIsOngoing_'
    BY <2>1, <2>2, Zenon
  <2> QED BY <1>0, <2>1, <2>3, <2>4, TableKept
<1> QED BY <1>1, <1>2

\* MakeECall: the new call comes last, with a number no call has had, and has not ended.
LEMMA TableMake ==
    ASSUME ETypes, Rows, ~crashed, Table, NEW r \in Requests, MakeECall(r)
    PROVE  Table'
<1> SUFFICES ASSUME k.redial = "SUCCESS" PROVE (~eCallRedialIsOngoing_ /\ Distinct /\ EndedFirst /\ NewNotEnded)'
  BY DEF Table, MakeECall
<1>1. ~eCallRedialIsOngoing_ /\ Distinct /\ EndedFirst /\ NewNotEnded
  BY DEF Table
<1>2. /\ callState' = callState /\ tasks' = tasks /\ eCallRedialIsOngoing_' = eCallRedialIsOngoing_
      /\ calls_' = calls_ \/ calls_' = Append(calls_, Len(asked) + 1)
      /\ Len(asked) < MaxCalls
  BY DEF MakeECall
<1>3. calls_ \in Seq(Machines) /\ Len(calls_) \in Nat /\ Placed /\ Len(asked) \in Nat
  BY DEF ETypes, CallTypes, RequestTypes, Rows
<1>4. Len(asked') = Len(asked) + 1 /\ \A c \in 1 .. Len(asked) : asked'[c] = asked[c]
  <2>1. PICK info : asked' = Append(asked, info)
    BY DEF MakeECall
  <2>2. asked \in Seq(Info)
    BY DEF ETypes, RequestTypes
  <2>3. asked \in Seq(Info \cup {info}) /\ info \in Info \cup {info}
    BY <2>2
  <2> QED BY <2>1, <2>3
<1>5. NewNotEnded'
  BY <1>1, <1>2, <1>3, <1>4 DEF NewNotEnded, Calls
<1>6. /\ Len(calls_') \in Nat /\ Len(calls_) <= Len(calls_') /\ Len(calls_') <= Len(calls_) + 1
      /\ \A l \in 1 .. Len(calls_) : calls_'[l] = calls_[l]
      /\ Len(calls_') = Len(calls_) + 1 => calls_'[Len(calls_) + 1] = Len(asked) + 1
  <2>1. Len(asked) + 1 \in Machines
    BY <1>2, <1>3, EcallAssumption DEF Machines
  <2> QED BY <1>2, <1>3, <2>1
<1>7. \A l \in 1 .. Len(calls_) : calls_[l] \in 1 .. Len(asked)
  BY <1>3 DEF Placed
<1>8. ASSUME NEW l \in 1 .. Len(calls_'), l \notin 1 .. Len(calls_)
      PROVE  l = Len(calls_) + 1 /\ calls_'[l] = Len(asked) + 1 /\ callState[calls_'[l]] # "ENDED"
  <2>1. l = Len(calls_) + 1 /\ calls_'[l] = Len(asked) + 1
    BY <1>3, <1>6, <1>8
  <2>2. Len(asked) + 1 \in Calls
    BY <1>2, <1>3, EcallAssumption DEF Calls
  <2> QED BY <1>1, <1>3, <2>1, <2>2 DEF NewNotEnded
<1>9. Distinct'
  <2>1. ASSUME NEW l \in 1 .. Len(calls_'), NEW o \in 1 .. Len(calls_'), calls_'[l] = calls_'[o] PROVE l = o
    <3>1. CASE l \in 1 .. Len(calls_) /\ o \in 1 .. Len(calls_)
      BY <1>1, <1>6, <2>1, <3>1 DEF Distinct
    <3>2. CASE l \notin 1 .. Len(calls_) \/ o \notin 1 .. Len(calls_)
      BY <1>3, <1>6, <1>7, <1>8, <2>1, <3>2
    <3> QED BY <3>1, <3>2
  <2> QED BY <2>1 DEF Distinct
<1>10. ASSUME NEW l \in 1 .. Len(calls_'), callState[calls_'[l]] = "ENDED"
       PROVE  /\ l \in 1 .. Len(calls_) /\ asked'[calls_'[l]] = asked[calls_[l]]
              /\ FirstOf(l) /\ RemovalDue(asked[calls_[l]].index)
  <2>1. l \in 1 .. Len(calls_)
    BY <1>8, <1>10
  <2> QED BY <1>1, <1>4, <1>6, <1>7, <1>10, <2>1 DEF EndedFirst
<1>11. ASSUME NEW l \in 1 .. Len(calls_'), callState[calls_'[l]] = "ENDED",
              NEW o \in 1 .. Len(calls_'), asked'[calls_'[o]].index = asked'[calls_'[l]].index
       PROVE  l <= o
  <2>1. l \in 1 .. Len(calls_) /\ asked'[calls_'[l]] = asked[calls_[l]] /\ FirstOf(l)
    BY <1>10, <1>11
  <2>2. CASE o \in 1 .. Len(calls_)
    <3>1. asked'[calls_'[o]] = asked[calls_[o]]
      BY <1>4, <1>6, <1>7, <2>2
    <3> QED BY <1>11, <2>1, <2>2, <3>1 DEF FirstOf
  <2>3. CASE o \notin 1 .. Len(calls_)
    <3>1. o = Len(calls_) + 1
      BY <1>8, <2>3
    <3> QED BY <1>3, <2>1, <3>1
  <2> QED BY <2>2, <2>3
<1>12. EndedFirst'
  BY <1>2, <1>10, <1>11 DEF EndedFirst, FirstOf, RemovalDue
<1> QED BY <1>1, <1>2, <1>5, <1>9, <1>12

\* The task takes the first call of its index: any other call that has ended has another
\* index, and so another task.
LEMMA TableRemove ==
    ASSUME ETypes, Rows, ~crashed, Table, NEW d \in tasks, RemoveCall(d)
    PROVE  Table'
<1>0. /\ k' = k /\ asked' = asked /\ callState' = callState /\ eCallRedialIsOngoing_' = eCallRedialIsOngoing_
      /\ tasks' = tasks \ {d}
  BY DEF RemoveCall, requests
<1> SUFFICES ASSUME k.redial = "SUCCESS" PROVE (~eCallRedialIsOngoing_ /\ Distinct /\ EndedFirst /\ NewNotEnded)'
  BY <1>0 DEF Table
<1>1. ~eCallRedialIsOngoing_ /\ Distinct /\ EndedFirst /\ NewNotEnded
  BY DEF Table
<1>2. calls_ \in Seq(Machines) /\ Len(calls_) \in Nat /\ Placed
  BY DEF ETypes, CallTypes, Rows
<1>3. \A l \in 1 .. Len(calls_) : calls_[l] # 0
  BY <1>2 DEF Placed
<1>4. NewNotEnded'
  BY <1>0, <1>1 DEF NewNotEnded
<1>5. ASSUME NEW i, i # d.i, RemovalDue(i) PROVE RemovalDue(i)'
  BY <1>0, <1>5 DEF RemovalDue
<1>6. CASE Entries(calls_, d.i) = {}
  <2>1. calls_' = calls_
    BY <1>6 DEF RemoveCall
  <2>2. \A l \in 1 .. Len(calls_) : asked[calls_[l]].index # d.i
    BY <1>2, <1>3, <1>6 DEF Entries
  <2>3. Distinct' /\ \A l : FirstOf(l) => FirstOf(l)'
    BY <1>0, <1>1, <2>1 DEF Distinct, FirstOf
  <2>4. EndedFirst'
    BY <1>0, <1>1, <1>5, <2>1, <2>2, <2>3 DEF EndedFirst
  <2> QED BY <1>0, <1>1, <1>4, <2>3, <2>4
<1>7. CASE Entries(calls_, d.i) # {}
  <2> DEFINE j == Min(Entries(calls_, d.i))
             At(l) == IF l < j THEN l ELSE l + 1
  <2>1. calls_' = RemoveAt(calls_, j)
    BY <1>7 DEF RemoveCall
  <2>2. /\ j \in 1 .. Len(calls_)
        /\ \A l \in 1 .. Len(calls_) : calls_[l] # 0 /\ asked[calls_[l]].index = d.i => j <= l
        /\ asked[calls_[j]].index = d.i
    BY <1>2, <1>7, FirstEntry
  <2> HIDE DEF j
  <2>3. /\ Len(RemoveAt(calls_, j)) = Len(calls_) - 1
        /\ \A l \in 1 .. Len(calls_) - 1 : RemoveAt(calls_, j)[l] = IF l < j THEN calls_[l] ELSE calls_[l + 1]
    BY <1>2, <2>2, SequenceWithout, Zenon
  <2>4. /\ Len(calls_') = Len(calls_) - 1
        /\ \A l \in 1 .. Len(calls_) - 1 : calls_'[l] = calls_[At(l)] /\ At(l) \in 1 .. Len(calls_) /\ At(l) # j
        /\ \A l, o \in 1 .. Len(calls_) - 1 : (At(l) = At(o) => l = o) /\ (At(l) <= At(o) => l <= o)
    BY <1>2, <2>1, <2>2, <2>3
  <2> HIDE DEF At
  <2>5. Distinct'
    BY <1>1, <2>4 DEF Distinct
  <2>6. ASSUME NEW l \in 1 .. Len(calls_'), callState[calls_'[l]] = "ENDED"
        PROVE  /\ \E e \in tasks' : e.t = "removal" /\ e.i = asked[calls_'[l]].index
               /\ \A o \in 1 .. Len(calls_') : asked[calls_'[o]].index = asked[calls_'[l]].index => l <= o
    <3>1. /\ At(l) \in 1 .. Len(calls_) /\ calls_'[l] = calls_[At(l)] /\ At(l) # j
          /\ FirstOf(At(l)) /\ RemovalDue(asked[calls_[At(l)]].index)
      BY <1>1, <2>4, <2>6 DEF EndedFirst
    <3>2. asked[calls_[At(l)]].index # d.i
      <4>1. asked[calls_[At(l)]].index = d.i => j <= At(l) /\ At(l) <= j
        BY <1>3, <2>2, <3>1 DEF FirstOf
      <4> QED BY <1>2, <2>2, <3>1, <4>1
    <3>3. PICK i : i = asked[calls_[At(l)]].index
      OBVIOUS
    <3>4. \E e \in tasks' : e.t = "removal" /\ e.i = i
      BY <1>0, <3>1, <3>2, <3>3 DEF RemovalDue
    <3>5. ASSUME NEW o \in 1 .. Len(calls_'), asked[calls_'[o]].index = asked[calls_'[l]].index PROVE l <= o
      <4>1. calls_'[o] = calls_[At(o)] /\ At(o) \in 1 .. Len(calls_)
        BY <2>4
      <4>2. At(l) <= At(o)
        BY <3>1, <3>5, <4>1 DEF FirstOf
      <4> QED BY <2>4, <4>2
    <3> QED BY <3>1, <3>3, <3>4, <3>5
  <2>7. EndedFirst'
    BY <1>0, <2>6 DEF EndedFirst, FirstOf, RemovalDue
  <2> QED BY <1>0, <1>1, <1>4, <2>5, <2>7
<1> QED BY <1>6, <1>7

LEMMA TableNext == ETypes /\ Rows /\ Table /\ [Next]_vars => Table'
<1> SUFFICES ASSUME ETypes, Rows, Table, [Next]_vars PROVE Table'
  OBVIOUS
<1>1. ASSUME ~crashed, NEW x \in DOMAIN thread, Instruction(x) PROVE Table'
  BY <1>1, TableInstruction
<1>2. ASSUME ~crashed, NEW d \in tasks, RemoveCall(d) PROVE Table'
  BY <1>2, TableRemove
<1>3. ASSUME ~crashed, NEW r \in Requests, MakeECall(r) PROVE Table'
  BY <1>3, TableMake
<1>4. CASE \/ \E x \in DOMAIN thread : Exit(x)
           \/ \E d \in tasks : Expire(d)
           \/ Tick
           \/ \E c \in ToSet(calls_) : Hangup(asked[c].index)
           \/ UpdateECallMsd \/ RequestNetworkDeregistration \/ UNCHANGED vars
  <2>1. k' = k /\ asked' = asked /\ calls_' = calls_ /\ callState' = callState
        /\ eCallRedialIsOngoing_' = eCallRedialIsOngoing_
    BY <1>4 DEF Exit, Expire, Tick, Hangup, UpdateECallMsd, RequestNetworkDeregistration, vars, requests, table
  <2>2. ASSUME NEW d \in tasks, d.t = "removal"
        PROVE  \E e \in tasks' : e.t = "removal" /\ e.i = d.i
    <3>1. CASE Tick
      <4> DEFINE e == [d EXCEPT !.left = IF Short(d) THEN @ - 1 ELSE 0]
      <4>1. e \in tasks'
        BY <3>1 DEF Tick
      <4>2. e.t = d.t /\ e.i = d.i
        BY DEF ETypes, TimerTypes, Task
      <4> QED BY <2>2, <4>1, <4>2
    <3>2. CASE \E o \in tasks : Expire(o)
      <4>1. PICK o \in tasks : Expire(o)
        BY <3>2
      <4>2. o.t # "removal" /\ tasks' = tasks \ {o}
        BY <4>1 DEF Expire, Timers
      <4> QED BY <2>2, <4>2
    <3>3. CASE ~Tick /\ ~\E o \in tasks : Expire(o)
      <4>1. tasks' = tasks
        BY <1>4, <3>3 DEF Exit, Hangup, UpdateECallMsd, RequestNetworkDeregistration, vars
      <4> QED BY <2>2, <4>1
    <3> QED BY <3>1, <3>2, <3>3
  <2> QED BY <2>1, <2>2, TableKept
<1> QED BY <1>1, <1>2, <1>3, <1>4 DEF Next, Server, Client

\* Without redials a call in the table that has ended has a removal task for its index:
\* also where indices are given twice, a call is ended twice or alive again, and the task
\* of an earlier call takes one that has not ended.
THEOREM EndedCallLeaves == Spec => []EndedLeaves
<1>1. Init => Table
  <2> SUFFICES ASSUME Init PROVE Table
    OBVIOUS
  <2>1. calls_ = <<>> /\ Len(calls_) = 0 /\ ~eCallRedialIsOngoing_
    BY DEF Init
  <2>2. NewNotEnded
    BY DEF Init, NewNotEnded
  <2> QED BY <2>1, <2>2 DEF Table, Distinct, EndedFirst
<1>2. ETypes /\ Table => EndedLeaves
  <2> SUFFICES ASSUME ETypes, Table, k.redial = "SUCCESS", NEW c \in ToSet(calls_), callState[c] = "ENDED"
               PROVE  \E d \in tasks : d.t = "removal" /\ d.i = asked[c].index
    BY DEF EndedLeaves
  <2>1. PICK l \in 1 .. Len(calls_) : c = calls_[l]
    BY DEF ToSet, ETypes, CallTypes
  <2> QED BY <2>1 DEF Table, EndedFirst, RemovalDue
<1> QED BY <1>1, <1>2, TypesAlways, TableNext, PTL DEF Spec
==============================================================================
