# satcomm: TLA+ models and proofs

This directory holds TLA+ models of the concurrent parts of the satcomm
repository, the TLC runs that check them, and TLAPS proofs about them.
`PROJECT.json` lists components, runs, mutants, findings, hazards and theorems,
and maps every definition to the lines it models.

## 1. The system

The repository is the Qualcomm Telematics SDK (telux) with a satellite uplink
service of its own on top:

| part | where | what it is |
|---|---|---|
| HarmanSatCommService | `apps/samples/satcom/HarmanSatCommService` | the repository's own service: audio over NB-NTN, paced by ACKs |
| public API | `include/telux` | interfaces (`INtnManager`, `ITcuActivityManager`, ...) |
| client libraries | `simulation/libs` | implementations of the API that talk gRPC to a simulation server |
| common primitives | `simulation/libs/common` | task queues, dispatcher, listener registry, factories, event manager, state machine base |
| simulation server | `simulation/services/sdk-simulation-server` | one gRPC service per subsystem: power, telephony, audio, data, location, ... |
| applications | `apps/reference`, `apps/samples`, `apps/tests` | reference applications, samples, consoles |

### Components, their state and operations

**C_SatCommService** (`C_SatCommService.cpp/.hpp`). State: the manager pointer
`ntn_`, the flags `running_`, `inFlight_`, `serviceOk_` and `mtu_` (all atomic),
the queue `q_` under `mtx_` with the condition variable `cv_`, the worker thread.
Operations: `init`, `shutdown`, `sendAudioFrame`, `abortUplink`, thin wrappers
around the manager, and the `INtnListener` overrides. The worker takes a frame,
cuts it into chunks of at most the MTU, hands one to the manager and waits for
`onDataAck`. Hard: four threads; flags stored and notified without the mutex of
the wait; init/shutdown cycles with a chunk still in the modem; rejected chunks.
Right when: one chunk is in flight, no byte is lost or sent twice, frames keep
their order, a waiting worker is woken, shutdown ends.

**The service gate** (`serviceOk_` of the same class). Two facts of the manager,
each reported by its own callback, combined by `init` and by both callbacks with
a query for the other fact. Hard: reads and stores of three places interleave.
Right when: the gate is the conjunction of the facts once everything is delivered.

**AsyncTaskQueue** (`common/AsyncTaskQueue.hpp`). State: a queue of deferred
tasks with an executor thread, a list of futures, `shuttingDown_`. Operations:
`add`, `shutdown`. Used by every manager stub and by the power server. Hard: the
flag is set outside the mutex; tasks add tasks; erasing a future blocks with the
mutex held that `add` needs. Right when: tasks start in order and one by one, shutdown
returns and nothing runs afterwards.

**FactoryHelper, SatcomFactory, NtnManagerStub.** State: a weak pointer to the
manager and a list of callbacks under `factoryMutex_`; the stub's status and init
thread. Operation: `getManager`. Hard: clients come and go while initialisation
runs, fails, or is silent; the cleanup after a failure takes the mutex twice.
Right when: clients share one manager and each is called back once.

**TCU activity server** (`power/PowerManagerServiceImpl.cpp`). State: the state
of the local machine and of all machines, master and slaves, the ack lists, the
timeout window with its flag, a task queue. Operations: `InitService`,
`DeregisterFromServer`, `SendActivityState`, `SendActivityStateAck`; the suspend
task waits for acks, then for a RESUME. Hard: gRPC handlers race the executor; a
new client replaces the task queue; late acks; RESUME near the timeout. Right
when: a RESUME stops exactly the suspend it was meant for, acks count for their
own cycle, slaves are told what happens.

**Event manager of the power reference application**
(`apps/reference/power_ref_app/EventManager.cpp`). State: a queue of events (an
activity state wanted for a machine), the head being carried out; a wake lock.
Operations: `pushEvent`, the callback of `setActivityState`, the consolidated acks
(`onSlaveAckStatusUpdate`). An event is overridden when the latest disagrees with
it. Hard: triggers, command callbacks and ack indications come on three threads; the
ack indication names no event; a failed request has no callback. Right when: the
answer is the head's, each event is answered once, the latest wish wins, the wake
lock is given back, what listeners are told is what the machine does.

**TCU activity client** (`simulation/libs/power`). Sends the command to the server,
runs the callback later on a thread of its own, turns the server's ack lists into
one status. Modelled as the calls and indications of the event manager; a slave's
side (its cached state, its ack) and the service status thread are not.

**eCall state machine** (`tel/EcallStateMachine.cpp`, `common/BaseStateMachine.cpp`,
and the parts of `tel/CallManagerServerImpl.cpp` that serve it). State: the machine
of the latest eCall and its current state, the call table, the redial flag and the
cached call, the status of the HLAP timers T2 to T10 with a task for each start.
Operations: `MakeECall`, `Hangup`, `UpdateECallMsd`, `RequestNetworkDeregistration`,
the expiry of a timer, the removal of an ended call three seconds later. Hard:
nothing is locked; `onEnter` and `onExit` sleep in the middle and nest; tasks act
seconds or hours after their cause on whatever is there then; an eCall to another
number is accepted and its machine replaces the one at work. Right when: nobody uses a
call or state that is gone, timers stop with what they guard, only ended calls leave
the table and stay ended, the next call can be made.

**EventManager and the event service** (`common/event-manager/EventManager.hpp`,
`event/EventServiceHelper.hpp`). State: at the client the listeners of each filter,
at the server each client's filters and stream and the event queue. Operations:
connect, register and deregister, update filters, raise an event, dispatch, write,
read, handle. Hard: the stream request and the filter update are separate calls
that may overtake each other; listeners expire; events become tasks. Right when:
the server's filters are the client's, an event that is wanted arrives, once and in
order.

**Not modelled yet** (section 7 gives the order): `ListenerManager` (per-indication
registration with weak pointers), `TaskDispatcher`/`TaskQueue`/`TaskThread`,
`CommandCallbackManager` (integer command ids), operating mode transitions, voice
and conference calls of the call manager, the audio server. **Not planned**: the
other servers (location, sensor, thermal, C-V2X, platform, most of data, card and
SMS), which answer requests from JSON files; RITS, which is built around generated
ASN.1 coders; the other reference applications, consoles and samples;
`NtnConfigLoader`, which parses a file.
The modelled share of the lines is small because most of the repository is of these
kinds: interface headers, tables, parsers, menus and request/response stubs, with no
state of their own that two actors could disagree about.

### How the modelled parts interact

`C_SatCommService::init` calls `SatcomFactory::getNtnManager` (FactoryHelper) and
waits for the callback; it then registers as listener, and the manager's callbacks
run on a TelSDK thread. The stub runs its initialisation on an AsyncTaskQueue. The
power server runs suspends and resumes on an AsyncTaskQueue whose destructor, run
when the queue is replaced, shuts it down. In the models the interfaces are these:
`SatCommService` lets `InitAcquire` end in each of the three results FactoryHelper
can give (the case in which it gives none blocks `init` for ever, section 3) and lets the gate
take any value that `ServiceGate` may compute; `PowerManagerService` takes from
`AsyncTaskQueue` that tasks run one at a time in order, and that a replaced queue
drops what is pending and finishes what runs. `PowerSystem` composes
`PowerManagerService` with `PowerRefEventManager`: a request of the event manager is a
handler of the server, a collected cycle is an ack indication. `EventDelivery` takes
from `AsyncTaskQueue` that deferred tasks keep their order and that asynchronous ones
do not.

## 2. Modules

| module | models | state and actions |
|---|---|---|
| `SatCommService` | `C_SatCommService` | the members under their own names; a program counter per thread (`wpc` worker, `apc` client, `cpc` control, `tpc` TelSDK). One action per stretch of code between two points at which another thread can see it: an atomic access, a notify, taking `mtx_`, blocking. `mtx_` is held across steps by the worker only, so its holder is a function of `wpc` |
| `ServiceGate` | the gate | the two facts, the callbacks on their way, `init`'s locals |
| `UplinkChannel` | what the service promises | abstract: `busy` and the log of chunks |
| `AsyncTaskQueue` | `AsyncTaskQueue.hpp` | both queues, the mutex holders, one `add()` per task, the executor, `shutdown()` |
| `FactoryHelper` | `getManager`, `initCompleteNotifier`, `NtnManagerStub::initSync` | the weak pointer (a manager is alive while somebody holds it), stored callbacks, each manager's init thread |
| `PowerManagerService` | `PowerManagerServiceImpl` | the members under their own names, one executor per task queue ever made, the acks on their way |
| `PowerRefEventManager` | the event manager, with an open environment: the server accepts, refuses, fails, loses | the queue and the status of each event; the request that is out (which holds `eventQueueUpdate_`), callbacks and ack indications on their way |
| `PowerSystem` | event manager and server together | both states and the event that each cycle of the server serves; `EM == INSTANCE PowerRefEventManager` is also its abstract specification |
| `EcallStateMachine` | the eCall procedure | the members under their own names; the code of a state is a program of instructions, a thread is what it has left of its program and its sleep; discrete seconds |
| `EventDelivery` | `EventManager` and `EventServiceHelper` | per client: listeners, the RPC under way with `mtx_`, tasks; at the server: entries, queue, writer tasks, streams |
| `...Proofs` | | theorems about the module named, each with its inductive invariant: `SatCommServiceProofs`, `ServiceGateProofs`, `AsyncTaskQueueProofs`, `FactoryHelperProofs`, `PowerRefEventManagerProofs`, `PowerSystemProofs` (the power server by itself and in its composition), `EcallStateMachineProofs`, `EventDeliveryProofs` |
| `MC...` | | instances: model values, frame sizes, machines |

Abstractions, and why they keep the properties:

- A frame is a model value with a size, a `Pdu` a slice of a frame: the code never
  looks at bytes. `lost`, `sent`, `accepted` record history for the properties.
- Time is abstract: a sleep or timed wait may end at any moment, so a property
  does not depend on 2 s or 10 s being long enough.
- The modem accepts or rejects each chunk and completes an accepted one once, with
  success or error; `onDataAck` does not look at which. If the listener is gone
  the completion is not delivered.
- `C_SatCommService` treats the result of `sendData` as a status; the models take
  every result other than success as a rejection.
- In the power server an ack carries the number of its cycle. The code has no such
  number; it serves only to state which cycle an ack or a RESUME belongs to.
- A handler that takes a mutex once and holds it for its whole body is one step.
  The lists the power server clears without `ackMutex_` are cleared in the step of
  the handler; the suspend task reports to the master (`ExecCollect`) and then looks
  at the lists again (`ExecDecide`), so a request in between is seen by it as in the
  code.
- In `AsyncTaskQueue::shutdown` the wait through the iterator erased before
  (line 107) is undefined; in the model it returns or the thread is lost. A task may be
  added by the body of another (`Adder`), as `EventManager` and `EventServiceHelper` do;
  a body adds its tasks and ends.
- Callbacks that only pass a value to the client (`onIncomingData`,
  `onSignalStrengthChange`, `onCellularCoverageAvailable`) change no state.
- Events the power server forwards unchanged (machine availability) are left out.
- In `PowerSystem` a handler and the return of the call it serves are one step, and
  requests are for all machines: with one machine suspended alone
  `SendActivityState` takes the branch at line 174, in which a RESUME of all machines
  is done at once even though a suspend is under way. The RESUME that `init()` sends
  at boot is left out.
- The eCall model leaves out notifications, has one phone, and fixes the settings of
  the simulation for a behaviour. Requests come at any time and for any number; a call
  gets its index as in `setCallIndexForNewCall`, and `callInfo_` is that of the last
  request, refused ones included. The 300 ms before the machine is made take no time;
  they are a point at which others run. Other points are the sleeps and every instruction of a
  program, so that any two threads interleave. Time passes when every thread sleeps or
  waits. T2 and T9 take one hour and T10 twelve: their tasks run when nothing shorter
  is under way, in the order of their starts, T10's behind the others'. The variable
  `disturbed` records that a request came while the server was at work, that an eCall
  was asked for while one was in the table, or that a hangup passed the machine by;
  properties that such requests break are stated without them.
- Of the call manager these ways into the eCall procedure are left out: hangups
  and MSD events given on the simulator's console (`CallManagerServerImpl.cpp:1110-1165`),
  `CleanUpService` (78-87), voice calls in the same table, and a second phone. So are
  data races below the level of an instruction: on the table's vector, the shared pointer
  to the machine and the fields of `callInfo_`, and the state object that an expiring T5
  is still running in when a hangup replaces it.
- In `EventDelivery` an event is a number with a filter. A filter update may fail, which
  the client only logs (`UpdateFilterFails`). A client is destroyed only after it has
  connected, and the server does not restart.

## 3. Runs

Passing runs:

| run | shows |
|---|---|
| `satcomm` | never two chunks in flight, across rejections, aborts, shutdown and new sessions (`OneInFlight`); no byte handed over twice (`NoByteTwice`), no empty chunk when the modem reports no MTU (`NoEmptyChunk`), every accepted byte in exactly one place (`NothingVanishes`); order kept between frames without a rejected chunk (`OrderOfUnrejected`); the worker never outlives the manager (`WorkerHasManager`) and lives as long as the session (`SessionHasWorker`); the service implements `UplinkChannel`, including that each chunk is released (`ImplementsChannel`); `shutdown()` that finds the worker asleep returns (`ShutdownOfSleeperEnds`) |
| `gate_callbacks` | after the first callback of a session the gate is right whenever none is pending |
| `task_queue` | with tasks that add tasks: deferred tasks start one at a time in order (`StartedInOrder`), every accepted one starts unless the queue is shut down (`TaskStarts`), shutdown returns unless the erased iterator or a task about to add an async task stops it (`ShutdownReturns`), nothing runs afterwards (`QuietAfterShutdown`) |
| `factory` | no callback is called twice; without failures all holders share one manager; each holder is called back unless initialisation is silent |
| `power` | the RESUME flag lives only inside the timeout of the one suspend that waits; a halted suspend does not go through; a slave last told of a suspend is on a suspended machine when nothing is under way; every task ends |
| `event_manager` | whatever the server does: the one answer to come is always for the head (`AnswerIsForHead`), every event is in the queue once or was answered once (`AnsweredOnce`), an empty queue means that the latest wish was the last asked for (`LatestWins`) and that the wake lock is back (`LockGivenBack`), every event is answered unless a request or an ack was lost (`EventAnswered`) |
| `power_system` | the server never steps outside what the event manager's specification allows (`ImplementsEventManager`, a refinement); at rest the machine is in the state of the latest event unless that was reported as failed (`SucceededMeansDone`); only a client that connects and so replaces the task queue can leave an event unanswered (`AnsweredUnlessReplaced`) |
| `ecall` | one eCall after the other, requests coming when the procedure rests: no null pointer, in the ECALL_ONLY mode during the first call (`UndisturbedIsSafe`); no T9 or T10 of an earlier call runs in conversation (`CallbackTimersReset`); no call timer is left running (`CallTimersStopped`); only ended calls leave the table (`OnlyEndedLeave`). Two eCalls to two numbers and a hangup at any time, so that machines are replaced at work: an active T2 or T9 has a task that will end it (`TimersWatched`), an ended call a task that will remove it (`EndedLeaves`) |
| `ecall_progress` | one eCall, with its redials, a hangup and an MSD update at any time: the number is free again some time (`DialableAgain`), and the MSD update ends (`PullEnds`) |
| `event_delivery` | the server's filters are the client's once one update has reached the client's entry (`FiltersAgree`), no event twice and, deferred, in order (`HeardInOrder`), an event raised when the server knows it is wanted arrives (`DueIsHeard`) |

The runs list what could go wrong and no type invariants. `TypeOK` (`EMTypeOK` in
`PowerRefEventManager`) holds on the same instances and can be added to a cfg; it is a
theorem for all modules but `ServiceGate`, where it is part of the inductive invariant.

Runs that show a disagreement between the code and its documentation:

| run | the code |
|---|---|
| `satcomm_shutdown_hang` | `stopWorker_` stores and notifies without `mtx_`, and the worker raises `running_` as its first statement: `join()` may never return |
| `ecall_hangup` | a hangup while the dialing thread sleeps ends the call; the thread wakes up and sets the ended call alerting |

Seen while modelling, and visible in the models' behaviours, but without a run:

- *Satellite service.* Nobody notifies the worker when the service comes back, and
  an ACK may be notified between predicate and block: it may sleep although its
  condition holds. The rest of a frame after a rejected chunk goes behind later
  frames, although the comment at `C_SatCommService.cpp:244` says it preserves delivery
  order. A wrapper may go through `ntn_` after `shutdown()` has reset it; `init()`
  after a failed `init()` returns true without listener and worker; a chunk may
  exceed a `maxDataSize` that shrank inside its frame; `inFlight_` raised at shutdown
  stays raised in the next session when its ACK went to nobody, so that nothing is
  sent; a frame pushed after the drain opens the next session; `init()` may store an
  older gate over a callback's.
- *Task queue.* `shutdown` erases the last reference to the future of a running task with
  `tasksMutex_` held; when that task is about to add an async task, as the connection
  task of the event manager does, it needs the mutex and neither goes on. The
  comment at `AsyncTaskQueue.hpp:68` warns only of a shutdown called from a task.
  The step `Deadlocked` of the model stands for it, and the run reaches it.
- *Factory.* A client that asks between failure and cleanup gets `nullptr` and no
  callback; `C_SatCommService::init` waits for that callback. A client may be told
  FAILED for a manager that is new. With a callback delay of -1 nobody is called,
  whatever the status.
- *Power server.* With the local machine already suspended, a RESUME inside the
  timeout of a SHUTDOWN does not halt it. An ack that comes after its cycle's timeout
  is counted in the next cycle. After RESUME of the local machine all machines may
  still be recorded as suspended. The master is told of a missing ack before the
  timeout window opens, so a RESUME sent on that report may be refused as an
  incompatible state.
- *Event manager.* A request that fails without a callback keeps its event at the
  head and the wake lock held. A RESUME's callback releases the wake lock after the
  next event has been started, although the lock is there to keep the device up while
  events are processed (comments at lines 210 and 319). A late success callback sets a
  processed event back to in progress. A duplicate for another machine is reported as
  processed with the head. The simulated client never reports `EXPIRED`.
- *eCall, without any race.* Hanging up an eCall to a custom number over IMS or without
  MSD ends the call behind the machine's back (`CallManagerServerImpl.cpp:1038`): T2 stays
  active, the machine in conversation, and an hour later T2's expiry uses the call that
  has left. In the ECALL_ONLY mode the task of an old T10 takes the next call's T10 for
  its own and stops the machine, so that the next call's T9 finds no state when it expires. Zero redial
  attempts leave the redial flag set for ever. After an origination failure T5 stays active
  (the exception in `CallTimersStopped`), and an MSD update in a call without MSD to a
  custom number or over NG never clears its flag (the exception in `PullEnds`).
- *eCall, with requests at work.* T2's expiry ends a call twice, one second apart; a call
  made between the two removal tasks is removed alive by the second. A refused request
  overwrites `callInfo_`, which the dialing thread and `UpdateECallMsd` read. An MSD
  update at the moment T2 expires, the user hangs up or the automatic cleardown is on
  its way brings the ended call back as active, or uses it when it has left; T2 expiring
  during an MSD update is dropped; a request between the making of a machine and its
  first state finds none. An eCall to another number is
  accepted (`findMatchingCall` compares number and phone, although the comment at
  `CallManagerServerImpl.hpp:315` says only one at a time) and replaces the machine of the
  one under way: a request for the first call reaches the second's machine, the first may stay in
  the table for ever, and the replaced machine's destructor runs `onExit` of a state
  whose parent has expired. With more numbers a new call may get an index in use:
  `setCallIndexForNewCall` stops at the first place whose index differs, which after the
  first call has left is not "the lowest unfilled index" of `CallManagerServerImpl.hpp:234`.
- *Event delivery.* `registerForEvents` overwrites the entry of a client that has sent
  its filters already, and a further listener of a known filter does not resend them:
  until another filter is added or removed, events are lost (the model's `fresh` says when the
  properties apply). A listener that registers or deregisters in its callback waits
  for `listenerMutex_` itself. After the stream has ended the used `ClientContext` is
  taken again, although the comment at line 411 says it is cleared for restarts.

### Bounds

- `SatCommService` is finite by itself once frames and MTUs are: two frames of 3
  and 1 bytes, MTUs 0 and 2 and the fallback 1 give frames of several chunks, requeued remainders
  behind another frame, and the fallback. The number of sessions, aborts, gate and
  MTU changes is not bounded. `satcomm_shutdown_hang` has one frame, because a stuck
  worker needs only one.
- `ServiceGate`: 4 changes of the facts. A wrong gate needs a change between two
  reads and one more to tell the orders apart.
- `AsyncTaskQueue`: 3 deferred tasks (one running, one queued, one being added) and 2
  asynchronous ones; one task of each kind is added by the body of another.
- `FactoryHelper`: 3 clients and 2 managers: a failed one, its replacement, and a
  client on each side of the cleanup.
- `PowerManagerService`: 3 requests (down, up, down again), 1 slave, 2 task queues
  (so that one executor is still busy when the next is made). `Power.cfg` also
  passes with a second slave for all machines, 2 requests and 3 queues.
- `PowerRefEventManager`: 3 events over all three states: one in progress, one to be
  overridden, one that overrides it.
- `PowerSystem`: 3 events, 3 cycles, 1 slave, 2 queues: a suspend, the RESUME that
  halts it or comes too late, and one more.
- `EcallStateMachine`, `ecall`: 96 settings (every combination of NG or CS, automatic
  cleardown, redial scenario, one failing timer or none, operating mode; 2 redial
  attempts, one of each kind), 5 kinds of eCall to one number and 1 to another; 2 calls
  (what the first leaves behind meets the second), 1 hangup, 1 MSD update. The
  CONSTRAINT `Explored` keeps two parts of it. In all settings, calls to one number until
  the behaviour is `disturbed`: it stays so, and four of the properties say nothing from
  there on. In two settings (CS; NG with cleardown in the ECALL_ONLY mode) disturbed
  behaviours too, with two numbers and without MSD updates, for `TimersWatched` and
  `EndedLeaves`: a machine replaced at work, a refused request, an index used again.
- `ecall_progress`: 1 call of each kind, 28 settings (at most one of cleardown,
  redial and failing timer). `ecall_hangup`: 1 call.
- `EventDelivery`: 1 client with 2 listeners, 2 filters, 2 events, 3 registrations,
  deregistrations or failed updates, both launch policies: a filter gained, shared and lost while an
  event is on its way. Clients do not meet at the server except in the order of
  writes.

### Fairness

Weak fairness on the steps of a thread that is inside a call, that is, threads
keep running: the worker, handlers, executors, init threads and the bodies of
`init` and `shutdown`. The modem completes what it accepted (the API reports a
timeout as an ACK with an error). Clients need not call, services need not come
back, slaves need not answer, spurious wakeups need not happen. In
`PowerRefEventManager` calls return, callback threads run, and the server answers what
it accepted or loses it; in `PowerSystem` the last is replaced by the server's own
executors. In `EcallStateMachine` threads and tasks run and time passes as long as the process
has not crashed; requests need not come. In `EventDelivery` dispatcher, writer and the clients' event threads run and
calls arrive; nobody need register or raise events. In
`AsyncTaskQueue` taking a mutex is strongly fair: a mutex that is free again and
again is had, which ordinary mutexes give in practice with the few threads here; a
body that adds tasks goes on to do so.
`CHECK_DEADLOCK FALSE` stands only in cfgs where the bounds on requests, queues or
clients let the model end.

## 4. Proofs

What is proved holds for every value of the constants. Of the 26 invariants and 14
action or temporal properties that the passing runs check, 23 invariants, the action
property `HaltedStaysUp` and the refinement `ImplementsEventManager` are theorems.

Assumptions, all of them on constants: frames have a positive size, MTUs are naturals
and the fallback is positive (`FramesAssumption`, `MtuAssumption`); each slave registers
for a machine (`PowerAssumption`); triggers are of valid machines (`EventAssumption`; for
all machines in `SystemAssumption`, section 2); no task is both deferred and
asynchronous, and none bears the name of a mutex holder (`TasksAssumption`); an
initialisation ends with one of three statuses (`FactoryAssumption`); each listener has an
owner (`DeliveryAssumption`); only eCalls to custom numbers are asked for over IMS
(`EcallAssumption`); bounds are naturals. TLC evaluates each of them in a run.

Every invariant is proved in the same way: an inductive strengthening, its three
facts, and one proof step per action. What the strengthenings say:

**SatCommServiceProofs.** `OneInFlight` is not inductive: that the modem holds one
chunk depends on the worker not being on its way to `sendData`, which depends on
`inFlight_` and on the worker's having left its waits properly. The invariant
`IInv` adds to `TypeOK`:

- `PacedByAck`: while a chunk is in the modem, or its `onDataAck` has not stored,
  `inFlight_` is raised and the worker is not between taking a frame and handing
  over a chunk;
- `AckSeen`: a worker that leaves the wait for the ACK with `running_` has seen
  `inFlight_` lowered. Only the worker raises the flag, so it stays lowered;
- `WorkerInSession`: a worker exists only from the end of `init` until `join` in
  `shutdown`, when manager and listener are there;
- `HandsFull`: where the worker reads its slice it has one.

From it follow `TypeCorrect`, `OneInFlightAlways` and `WorkerHasManagerAlways`. Only
`inFlight_`'s surviving from one session to the next keeps `OneInFlight` true when
`shutdown()` leaves a chunk in the modem: lowering it in `init` (the mutant
`InitRunDisarmed`) breaks it.

`SessionHasWorkerAlways` rests on a second invariant, `SessionInv`, inductive
relative to `IInv`: `running_` is lowered only in `shutdown`, so between `init`
and `shutdown` the worker cannot leave; and `init` starts with neither manager nor
listener.

The accounting of bytes rests on a third, `PiecesInv`. `NoByteTwice` alone says nothing
of the bytes that are still to come; `PiecesInv` says that a frame is cut from its
front: one piece of it is left, in `q_` or in the worker's hands (`OneLeft`), it begins
behind what was sent or given up (`CutFromFront`), and the pieces cover the frame
(`Covered`). Hence `NoByteTwiceAlways`, `NoEmptyChunkAlways` (with `MtuKnown`, that the
worker has an MTU when it cuts) and `NothingVanishesEver`. `OrderInv` adds the order of
the queue for `OrderOfUnrejectedAlways`. `UplinkIsChannel` is the refinement: every step
of the service hands over a new chunk while none is out, releases one, or changes
neither; `UplinkChannel!Spec` is split into `SafeSpec` and its fairness for this.

**ServiceGateProofs.** `GateIsRight`. `LastCallbackDecides` speaks of the moment when
nothing is pending; `GateInv` says what each place holds before that: the last
callback waiting for a fact carries its present value (`QueueIsCurrent`), and so does
the running callback for its own fact (`ArgIsCurrent`) and for the one it asked for
(`OtherIsCurrent`), unless a later callback waits.

**AsyncTaskQueueProofs.** `TasksStartInOrder`, `ShutdownLeavesQuiet`. The latter is
built up over the stages of `shutdown()` (`StagesOfShutdown`): once it has held
`orderedTasksMutex_` nobody is in the locked part of `add()`, so the executor it joins
is the last; a future whose task may still run is in `tasksQueue_` (`FuturesKept`).

**FactoryHelperProofs.** `CallbackCalledOnce`, `ManagerIsShared`. A client's callback is
stored, taken over by one init thread, in the hands of a detached thread, or called, and
never in two of these places (`OnePlace`); until an initialisation fails, the manager
that is held is the one remembered (`HoldsRemembered`).

**PowerSystemProofs, the server.** `FlagInWindowAlways`: at most one executor is past
collecting the acks, because it holds `ackMutex_` (`AckMutexExclusive`); hence the
two flags belong to that one, although a replaced queue's executor may be busy
next to the new one; a second look at lists that a request has cleared
(`ExecDecide`) only makes the executor skip its timeout. `HaltedStaysUpAlways`: a suspend that was reported as halted
does not go through. This needs `CycleInv`, inductive relative to `IInv`: cycle
numbers are given once, so no two tasks, queued or taken, share one (`Distinct`),
and a halted cycle is either inside its timeout with the flag up or over
(`HaltedOver`); the single executor inside the timeout then sees the flag.
`DownAsToldAlways` needs `DownInv`: as long as no queue in use was replaced there is one
executor, and the last task before it is what slaves were told last, or a RESUME.

**PowerRefEventManagerProofs.** `processedEventHandler` pops the head whoever calls it.
`AnswersAreForHead` and with it `EventsAnsweredOnce` rest on `OneAnswer`: a request that
is out, an error or RESUME callback, an accepted suspend and its ack indication are
four stages of a single answer, which is the head's. `EventsTold` ties an id's place in
the queue to the number of its notifications, `EndsOfQueue` the two ends of the queue to
what was last asked for and last pushed (`LastWordKept`); `LockReturned` follows from the
same steps. What the loops over the queue compute is proved too: `DuplicatesFacts` for
the search (a least index) and `KeptFacts` for the erasing loop (a recursive function),
by minimal counterexamples (`LeastNumber`), since the library's induction rules
cannot be instantiated.

**PowerSystemProofs, the composition.** The two parts' invariants carry over: the event manager's from
an instance of its proofs (`EMP`; `EM` and `EMP` are instances of the same module, and
the `Same...` lemmas say so definition by definition), the server's by
`SystemIsServer`. `SystemIsEventManager` is the refinement the run `power_system`
checks. In it an ack indication needs an event that expects one, a guard that the
server's code does not have; `NothingHeldBackEver` shows that such guards never hold
the server back, by `WaitInv`: at most one suspend is queued or sleeping, and it is that
of the event expecting an ack. `SucceededIsDone` takes both sides together. Its
invariant `FateInv` says that, while no request is out and no queue in use was replaced,
the server is on its way to the state last asked of it (`OnTrack`), or a refusal is about to
be processed (`ErrorDue`), or the latest event has failed and no late callback will
overwrite that (`LatestFailed`, which needs `StartedAnswered`: the callback of an
accepted suspend that is still queued belongs to the answer to come).

**EcallStateMachineProofs.** `EcallTyped`, `LongTimersWatched`, `EndedCallLeaves`: what is
left of the procedure's order when requests race it freely. They hold for any set of
numbers, any number of calls, hangups, updates and redial attempts, in every
configuration, with no hypothesis on when requests come; crashes end a behaviour.
The code of a state is data, so types have to say what programs consist of: `ETypes`
holds a thread's program to the instruction set `Instr`, in which T2 and T9 are never
begun without a task and, without a redial scenario, nothing leads to `ModemRedial` or
raises the redial flag. One lemma shows it of each family of state code (`EnterTypes`,
`ExitTypes`, `EventTypes`). `Rows` says that the table and the redial cache hold only calls
that were asked for.

- `TimersWatched` follows by itself from these (`WatchedNext`): a task is taken only when
  it stops the timer, and T2 and T9 become active only with a task of their own.
- `EndedLeaves` speaks of a task with the call's index, and a task takes the first call
  of its index, so it needs `Table`: an ended call is the first of its
  index (`EndedFirst`; the states of calls change through the same search), a call is in the
  table once (`Distinct`) and new calls have not ended (`NewNotEnded`). Indices given
  twice, which the code allows, are covered.

**EventDeliveryProofs.** `ServerKnowsFilters` rests on the client's two locks: a call
carries the filters as they stay until it returns, or another call is to follow
(`CallCarriesKeys`). `HeardOnceInOrder` rests on the order of the places an event goes
through, from the server's queue to the listener (`PlacesInOrder`, `HeardIsOver`).

**Written with the proofs in mind.** The erasing loop `Kept`, the helpers `With` and
`Without` for maps, and the split of `UplinkChannel!Spec` are there because `SelectSeq`,
`@@` and fairness are out of the prover's reach; they say what the code does as
before. The loop of `ModemRedial::onEnter` is an instruction (`DoLoop`) that unrolls one
attempt at a time, so that no proof needs an induction over the attempts.

**Only model-checked**: liveness (and with it the fairness half of
`ImplementsChannel`), which the prover cannot do; of the eCalls `UndisturbedIsSafe`,
`CallbackTimersReset`, `CallTimersStopped` and `OnlyEndedLeave`, which need an account of
where the whole procedure is. `ShutdownEnds` and
`HangupEnds` are refuted by their runs.

## 5. Mutants

Each property has a mutated definition that breaks it, next to the definition it
replaces and marked `Mutant:`. A mutant is a slip one could make in that code: a
notification left out, a flag not reset, a mutex released early, a remainder not
pushed back.

## 6. Running

`tlc -config <cfg> <module>` for a run, with module and cfg as in `PROJECT.json`;
`tlapm <module>.tla` for each `...Proofs` module (half a minute to a few minutes each, longer for
`EcallStateMachineProofs`).

## 7. Plan

In this order, the behaviour that matters most first:

1. done: `SatCommService`, `UplinkChannel`, `ServiceGate`, `AsyncTaskQueue`,
   `FactoryHelper`, `PowerManagerService`.
2. done: `PowerRefEventManager` and its composition with the server, `PowerSystem`;
   `EcallStateMachine`; `EventDelivery`.
3. done: the theorems of section 4.
4. `EcallStateMachine` with requests at rest: the invariants of the run `ecall` as theorems,
   which takes an invariant that says which programs may be under way in each state.
5. `ListenerManager`: first registration and last deregistration per indication
   with expired weak pointers (an expired listener keeps its set non-empty).
6. `TaskDispatcher` with `TaskQueue`: pushes after shutdown. `CommandCallbackManager`:
   ids that wrap or are reset while a response is on its way, with the integer width
   kept.
7. Operating mode transitions; voice calls and conferences of the call manager; the
   audio server's stream life cycle.
