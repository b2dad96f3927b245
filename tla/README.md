# Formal models of module_context

TLA+ specifications of the C++ module framework in `src/` and of the
applications built on it, checked with TLC on small instances and, where it
matters most, proved with TLAPS for every value of the constants. In what follows `D` is `src/modules/amqp_bus/src/internal/AmqpConnectionDriver.cpp`, `M`
is `src/modules/amqp_bus/src/AmqpBusModule.cpp`, `R` is
`src/examples/task_flow/master_runner.cpp`, `W` is `worker_sim.cpp` beside it, and `H`
is `src/modules/http_transport/src/HttpTransportModule.cpp`.

## 1. The system

| Part | State it keeps | Operations | Hard behaviour |
|---|---|---|---|
| **AMQP connection driver** (`D`) | connection state, command queue, channels, callers waiting for replies, pending confirms, consumer runtimes, reconnect delay | Start, Stop, Publish, PublishAsync, PublishConfirmed, Declare*/Bind*, StartConsumer, StopConsumer, CompleteDelivery(Async); the driver thread's loop | any number of callers against one driver thread; connection loss between any two steps; replies that never come; Stop while calls wait |
| **AMQP bus module** (`M`) | shared state: driver, worker pool, handlers, `stopping` | OnInit/OnStart/OnStop/OnFini, delivery and state callbacks | callbacks on the driver thread, handlers on workers, shutdown order |
| **Bus service proxy** (`MessageBusServiceProxy.cpp`) | none | forwards to the driver it finds under the shared mutex | driver stopped or replaced under a caller |
| **Framework** (`ModuleBase`, `ModuleManager`, `Context`, `ServiceRegistry`) | module table and order, states, service table | LoadModule(s), Init, Start, Stop, Fini, Lookup | sweeps that fail half-way and what the host tries next |
| **HTTP transport** (`HttpTransportModule.cpp`) | server, listening thread, handler tables, counters | the four hooks, Register/Unregister, Download/Upload, request handlers | a listen that is late or fails; Stop with requests running; counters reset under calls |
| **SEMI plugin manager** (`SemipluginManagerModule.cpp`) | plugin states, load order, registry | the four hooks, lookups | every plugin function may fail or throw, rollback may fail too |
| **Foundation ThreadPool** | queue, workers, state | Start, Submit, Shutdown(Now) | drain against late submits |
| **Task flow** (`examples/task_flow`) | master: task rows, counters, image store; worker: active jobs, shutdown flag | RunTaskFlowMaster and its result handlers; the worker's task and control handlers; image requests | duplicate and late results, deadline and cancellation against running handlers, early ends, killed workers |
| **Qt master demo** (`examples/task_flow_qt_master_demo`) | window with its worker pointer and rows, one QThread a run, local worker processes | Start, Stop, close; the slot Run; management requests | slots that wait for an event loop, deletion of the worker with its thread, failures after processes were started |
| Utilities, third-party code, scripts | - | - | not modelled |

How they interact. The host thread calls the context, which calls the manager,
which calls each module in loading order (reverse for Stop and Fini). A module
offers an interface through the service table; the bus's is the proxy. A bus
call takes the driver from the shared state, appends a closure to the driver's
command queue and, unless it is asynchronous, blocks on a `PendingResult`. The
driver thread alone touches the AMQP channels: it drains the queue, pumps the
socket, and completes the pending results from channel callbacks. Deliveries go
the other way: channel callback, worker pool, user's handler, and the decision
back as a command. Connection events are emitted by whichever thread changed the
state and dispatched to the pool. The HTTP transport and the plugin manager do
not talk to the bus; they meet it only in the manager. The task flow uses the
bus for tasks, results and a shutdown fanout, the HTTP transport for images, and
a plugin for the algorithm; the Qt demo runs its master in a thread and its
workers as processes.

What makes each part correct:

- *driver*: every blocked caller is answered, once, on every path; nothing of one
  connection is taken for the next; Stop returns and leaves nothing behind; the
  observers' last event is Stopped;
- *confirms*: a receipt says what the broker said about this very message;
- *consumers*: driver, broker and callers agree about which consumers run; a
  stopped consumer hands over nothing; a new connection has them all again;
- *delivery*: the broker disposes of a message as its own handler decided, no
  prefetch slot is lost, decisions taken before Stop go out;
- *bus module*: no state change is lost or handled twice, Stop leaves no thread
  and no task, and every call returns that the broker answers or a stop ends;
- *framework*: a module runs only on top of running modules, Ok means all was
  done, failures can be recovered from, the hooks of a module come in turn, the
  service table never points to a module that is gone;
- *HTTP transport*: nothing runs after Stop or Fini, the server object outlives
  its thread, the snapshot counts what is in flight and never wraps, the lifecycle
  calls return;
- *plugin manager*: all plugins run or none, each is owned by exactly one place,
  failures are reported;
- *task flow*: the report adds up, success is earned, a run leaves nothing
  behind however it ends, a task has a result before it is forgotten, every process
  ends that has nothing left to wait for;
- *Qt demo*: nothing is left over between runs, nothing is posted to a deleted
  worker, each run ends.

Every hazard these properties are aimed at is listed in `PROJECT.json` with the
line where it bites; the four that no property covers carry the reason.

## 2. Modules

| Module | Models | Extends / used by |
|---|---|---|
| `CallService` | abstract: calls asked, answered, shutdown | refined by `ConnectionDriver` |
| `ConnectionDriver` | driver thread, callers, control thread, broker | `MCConnectionDriver` |
| `ConnectionDriverProofs` | callers and replies, the state's moves and what observers see, the step simulation to `CallService` | extends `ConnectionDriver` |
| `ConsumerControl` | bootstrap chain, StartConsumer, StopConsumer, reconnect | `MCConsumerControl` |
| `PublisherConfirms` | publish channel, tags, receipts | `MCPublisherConfirms` |
| `PublisherConfirmsProofs` | tags and receipts | extends `PublisherConfirms` |
| `ConsumerDelivery` | a delivery through callback, pool, handler, driver | `MCConsumerDelivery` |
| `ConsumerProofs` | where a delivery is, and what Stop keeps; who agrees about a consumer, and when it is silent | extends `ConsumerDelivery`, `ConsumerControl` |
| `WorkerPool` | foundation's ThreadPool | extended by `BusModule` |
| `BusModule` | bus module, proxy, dispatch of events and messages | extends `WorkerPool`; `MCBusModule` |
| `BusModuleProofs` | what Stop leaves, where handlers run, no event lost | extends `BusModule` |
| `ModuleLifecycle` | ModuleManager, ModuleBase, ServiceRegistry | `MCModuleLifecycle` |
| `ModuleLifecycleProofs` | sweeps, restarts, hooks, lookups | extends `ModuleLifecycle` |
| `PluginManager` | SemipluginManagerModule and its registry | `MCPluginManager` |
| `PluginManagerProofs` | tables, failures, the turns of the plugins | extends `PluginManager` |
| `HttpTransport` | HttpTransportModule | `MCHttpTransport` |
| `HttpTransportProofs` | the server's life and the active counter | extends `HttpTransport` |
| `TaskBroker` | the broker's queues as the task flow uses them | extended by the next two |
| `TaskMaster`, `TaskWorker` | RunTaskFlowMaster; the worker process | extend `TaskBroker` |
| `TaskFlow` | master, workers and broker together | extends both; `MCTaskFlow` |
| `MasterDemo` | the Qt window, its run threads and worker processes | `MCMasterDemo` |
| `ApplicationProofs` | results before acks, counters, cleanup, success; what a run of the demo leaves | extends `TaskFlow`, `MasterDemo` |

The `MC` modules only name model values and give the constants small values.
Variables keep the names of the C++ members, with their trailing underscore
where the member's name is kept whole; actions keep the names of functions. A
definition introduced by a comment that begins with "Mutant" is not part of any
specification: it is a plausible bug, put in the place of another definition to
see that a property notices. `ConsumerControl` and `MasterDemo` say `ControlInit`,
`DemoNext` and so on, because a proof module extends each of them beside another.

### ConnectionDriver

A *call* is one invocation of a driver operation. `kind[c]` says which, and
`status[c]` where it stands: `new`, `checked` (the state check that some
operations make before they enqueue has passed), `waiting`, or its result. `commands` is `commands_`,
`batch` the local list that `DrainCommands` (D:2858) swaps out, `awaiting` the
deferred replies on `admin_channel_` in order, `confirming` the entries of
`pending_publish_confirms_`. The driver thread is a program counter:

    spawned -> top -> drain -> run -> (dial -> dialing | pump) -> top ... -> teardown -> settle -> off

after `ThreadMain` (D:2458), with `final` set once the loop has seen
`stop_requested_`, and `flush_attempt` counting the flush loop (D:2506). `Dial` is the
question of `ShouldAttemptReconnect` (D:2525), asked before the socket is connected and
not again after. A completion of a delivery (D:2293, D:2333) is a command like
the others, but asks for its consumer's channel and not for a connection that is ready
(`RunCompletion`). One step
is one critical section, one command, or one turn of the socket: that is the
grain at which other threads can interfere, because `mutex_` is released between
them. State changes and the callback that announces them are separate steps
(`control_event`, `driver_event`): `EmitStateChange` runs after the lock was
released. The broker answers declares in order, confirms any set, may close the
connection at any moment and may stay silent for ever.

### ConsumerControl

The same thread seen from its consumers. `boot` is where the bootstrap stands
(D:2961-3191) once `connection` is up: confirms, exchanges, queues, bindings and consumers, one item after
the other, each reply asking for the next. `runtime[c]` is an entry of
`consumer_runtimes_`: whether the consumer has a channel, is active, and under
which tag. `to_broker` and `to_driver` are the frames in flight on each channel,
`consuming` the broker's own list. A StartConsumer or StopConsumer is queued,
run by the driver thread, and answered by the consume-ok or cancel-ok. Between
these the connection may break, the broker may refuse a frame or cancel a
consumer. `wish[c]` records what callers were last told, or what `auto_start`
says after a reconnect.

### PublisherConfirms

`next_publish_confirm_tag` and `pending_publish_confirms` are the driver's,
`received` and `unsettled` the broker's view of the same channel; `wire` and
`frames` are what is under way in the two directions. The broker acknowledges
with and without `multiple`, positively and negatively, in any order, and sends
a return before the acknowledgement of a mandatory message it could not route. A
waiting caller may time out at any moment, which leaves its entry pending
(D:1977). `Alike` says which pending publish `MarkReturnedPublish` takes for
which returned message. `ConfirmsAgree` holds `TypeOK` and the agreement of both
sides about tags; `ReceiptIsTrue` says of every receipt what the broker's answer
and routing were.

### ConsumerDelivery

A delivery is a message, its tag and the connection it came on. It moves from
`inbound` over `dispatch` (callback on the driver thread, between reading the
shared state and submitting) to `tasks` (queued or running in the pool),
`commands` and `outbound`. `stopping`, `pool` and `driver` are the three steps of
`AmqpBusModule::OnStop`. A malformed delivery is rejected by the driver itself, a
submission that the pool refuses is requeued, a lost connection puts what is
unacknowledged back into the queue. `DeliveriesAgree` holds `TypeOK`,
`EveryDeliveryIsHeld` (a delivery that occupies a prefetch slot is somewhere in
the module) and `DecisionsStayApart`.

### WorkerPool and BusModule

`WorkerPool` is the pool as the bus uses it: a queue, `worker[w]`, and a shutdown
that refuses new tasks, runs what is queued and joins. `BusModule` adds the host's
lifecycle calls, one step for each section under a lock or each call that may
block (`hpc`), the client's and the handlers' bus calls (`LookupDriver` under the
shared mutex, then `Enter` on the driver that was found, which may be stopped or
replaced by then), and the way of a state change: `emit[t]` is `EmitStateChange`
on the host's thread (Start) or on the driver's, which copies the handlers, and
hands each a task or, when the pool refuses it, runs it inline (M:84). The driver
is reduced to what `CallService` promises and `ConnectionDriver` is shown to keep:
every call it took is answered before its thread ends (`Leave`). Before that a call
is answered by the driver itself when there is no connection (`TurnsDown`), and
otherwise by the broker, if it replies (`Replies`): a declaration and the start or stop
of a consumer wait for it without a timeout (D:190-197). StartDriver always
succeeds: the error path behind it (M:350-357) needs a driver that has a thread
already (D:1649) or that is null (D:3602), and OnStart has just created this one.
`owed`, `seen` and `watch` are history: what was announced to an observer and not handled, what it handled last, and who was
registered all through a stop.

### ModuleLifecycle

One step is one module's turn in a sweep of `ModuleManager` or one direct call of
a host that holds the module. `held` records what the hooks of an instance
acquired and have not released, `ran` which hooks the last step ran, `sweep` the
manager's call, `direct` how often the host called a module itself. Any hook may
fail at any time. `abandoned` is history: what the last Fini of an instance left held
because its OnStop or OnFini failed (`ModuleBase.cpp:184-202`); the module is in Fini
nevertheless, and the next Init adds to what is held. A load takes a list of names, as a
configuration file does, and changes nothing when an entry is refused.
`ModulesAgree` holds `TypeOK`, `DependenciesAreUp` and `OkMeansDone`.

### PluginManager

One step is one plugin's turn. `hook` is the list being worked through (`load`,
`start`, `rollback`, `stop`, `fini`) and `at` the position in it.
`plugin_states_`, `plugin_load_order_`, `loaded_plugins_` and `registry_` are the
module's tables; `running`, `lingering` (plugins whose Stop failed), `did`,
`failed` and `returned` are history variables that the properties compare them
with. A plugin function that throws and one
that returns false take the same path in the code and are one outcome here.
`PluginsAgree` holds the types, the ownership of every plugin by one place and
the report of every failure.

### HttpTransport

`server_thread_` is `none` when the `std::thread` is not joinable, else where the
thread is in `listen`. A lifecycle call that waits (Start's poll, the join in
OnStop) is `call`, with a second action that ends it. A request is accepted,
counted (`AddActiveRequest`), looked up, served, perhaps streamed, and finished;
a client call is counted and finished. A handler may throw instead (`Throws`): httplib
answers 500 and the rest of the module's function, FinishRequest in it, is not run.
Nothing catches what the reader of a streamed body throws (`ReaderThrows`). Nothing in the environment is assumed to
behave: the port may be taken, `listen` may take longer than the two seconds
OnStart polls, the host may repeat a failed Start and may run client calls across
Init and Fini. Two history variables, `late` and `overlapped`, say which of the
last happened, because what can be promised depends on them; a third, `leaked`, counts
the requests that an exception ended since the counter was last reset. The server's own
steps (`Accept`, `AcceptFails`, `ListenReturns`, `IsRunning`) are those of the vendored
cpp-httplib. `ServerAgrees` holds
the types, that the server outlives `listen`, and that a module that is down is quiet.

### TaskBroker, TaskMaster, TaskWorker, TaskFlow

`place[m]` is where a task message is: not sent, in the master's command queue,
ready at the broker, unacked at a worker, gone, or lost. `TaskMaster` is
`RunTaskFlowMaster` step by step (`mpc`), through every early return: the host is
built and started, the route and the result handler are registered, the tasks
are put into the image store and published one by one, the master waits with or
without a deadline, marks itself late, sweeps what is unfinished, broadcasts the shutdown, cleans up and stops. Its
result handlers work in two lock sections (R:788 and what follows it), so
that a result may come between them, twice, after the sweep, or not at all.
`TaskWorker` has the worker's main thread and its handlers: fetch the image,
compute, publish the result, settle. `TaskFlow` puts them together, with lost
connections on both sides, a killed worker, messages of an earlier run and
garbled messages in the queue. The worker's and the master's bus are the
abstract bus that the modules above justify: a command that is run without a
connection is lost. A delivery has a tag, counted anew on every connection of the
worker (`tags`), and `deliveries` numbers those of one message. A settle command names
its delivery by the tag, on the connection that there is when the command is run
(`Settle`, D:2351-2392): after a reconnect that is another delivery, of this task or another,
or none, and then the broker closes the channel (`closed`). `misled` is history: the
tasks that the settle command of another delivery has ended. The master settles results
in the same way; which of them the ack of an earlier connection has ended is left open
(`MasterDisconnects`).

### MasterDemo

`pc[r]` is where the thread of run `r` is in the slot `Run`, `gui` the queue of
events posted to the GUI thread, `asked` a posted RequestStop that waits for the
worker's event loop: it is delivered only inside a management request (each runs
a nested loop) or after `Run`, not while `RunTaskFlowMaster` runs. `process` are
the local workers, of which one may die. `RunTaskFlowMaster` is reduced to the
calls its observer sees.

## 3. Runs

`PROJECT.json` lists the properties of each run, and for each property the
mutant that violates it. All runs together take about twenty minutes.

| Run | What it asks | Instance | Distinct states |
|---|---|---|---|
| `driver_safety` | blocked callers are never forgotten, replies stay in their connection, Stopped is observed last, only legal state moves | two calls of any operation, two Starts; reconnect and confirms both on or both off; the socket subsystem may fail | 653 000 |
| `driver_liveness` | nothing is left after Stop; the driver implements `CallService`, Stop's return included; every blocked caller is answered if the broker is live | two calls of the operations that block, one Start, reconnect and confirms on | 219 000 |
| `consumer_control` | driver, broker and callers agree on each consumer; nothing is handed over after a stop; the consumers come back | three consumers, two of them with a caller of their own, two started automatically; four calls, two faults, two frames in flight | 87 000 |
| `confirms` | tags agree, receipts are true, every publish settles | two confirmed publishes, one of them mandatory, and a plain mandatory one; two connections | 596 000 |
| `delivery` | no prefetch slot is leaked, decisions are not mixed up on one connection, stopping loses no ack, slots come free, Stop completes | two messages, one malformed, a window of two, two connections, three deliveries each | 142 000 |
| `delivery_stale_tag` | *violated*: a message is settled as its own handler decided, over a reconnect | two messages, two connections | |
| `bus_module` | no state change is lost, Stop is complete, handlers run inline only in Stop, calls return | two pool threads, one observer, two Starts, two changes or messages, two client calls | 145 000 |
| `lifecycle` | dependencies are up, Ok means done, Stop then Start works, hooks in turn, services match modules | up to three modules, three instances, two direct calls | 1 080 000 |
| `plugins` | tables agree, failures are reported, all run or none, plugins in turn | plugin lists of up to three, every function may fail | 688 |
| `http` | server outlives listen, nothing runs when down, the active counter, lifecycle calls return | two requests, one route, any role, two exceptions | 453 000 |
| `task_flow` | the report adds up, success is earned, nothing is left behind, a task has a result before it is forgotten, processes end | seven kinds of run: two tasks; two tasks without a worker, cancelled; one task with lost connections, of a worker without and with a deadline, with a killed worker, behind a message of an earlier run, behind a garbled one | 492 000 |
| `master_demo` | nothing is left over, nothing is posted to a deleted worker, each run ends | two tasks, two workers, two runs, one death | 231 000 |

Conditions that a property carries are part of what it says, and the code gives
the reason for each:

- `DecisionsStayApart` is `SettledByOwnDecision` on the first connection, where a
  tag names one delivery. Over a reconnect it is refuted (`delivery_stale_tag`).
- `StopKeepsAcks` speaks of a link that has held, with its frames written.
- `ReceiptIsTrue` speaks of publishes that no other passes for. For a look-alike
  it says only that one of them was returned (section 5).
- `ControlAgrees` and `NoDeliveryAfterStop` are checked with callers that control
  consumers of their own, and proved for callers that take turns: two calls for one
  consumer that overlap can defeat both (section 5).
- `DependenciesAreUp`, `OkMeansDone` and `RestartIsNotRefused` speak of a host
  that leaves the modules to the manager (`direct = 0`): a host that stops a
  module itself can break any of them. `HooksInTurn` and `ServicesMatchModules`
  hold whatever it does. `HooksInTurn` lets OnInit and OnStart find what a Fini with a
  hook that failed left held (`abandoned`): without such a Fini they find nothing.
- `AllOrNothing` and `PluginsInTurn` need that no plugin is left running by a Stop
  of its own that failed (`lingering = {}`, section 5).
- `ServerOutlivesListen`, `QuietWhenDown` and HTTP's `CallsReturn` need that OnStart did
  not give up on a thread that was still on its way into `listen` (`late`). If it
  did, OnFini destroys the server under the thread, and `~HttpTransportModule`
  may join a thread that came to listen after `stop()` had found nothing to stop.
- `ActiveIsInFlight` says that the counter is the requests in flight and those that an
  exception ended (`leaked`), unless requests were in flight when it was last reset
  (`overlapped`), and never more: a handler that throws does leave it too high.
- `ReportAgrees` compares successes with rows only when the run was neither timed
  out nor cancelled, because a result may overwrite a row between the sweep and
  the late flag (section 5).
- `SettledHasResult` excepts a task that the settle command of another delivery ended by
  its tag (`misled`), and that only where a worker loses a connection and goes on
  (`LinksBreak`); there the code can forget a task (section 5).
- `EveryProcessEnds` is about a master with a deadline. A worker without one may wait
  for its connection, for the shutdown, or for a task that is at the broker or with
  it (`MayWait`); one with a deadline ends in any case.
- The bus module's `CallsReturn` has the broker in its premise for the first of its three
  parts (`BrokerAnswers`): a handler that waits for a silent broker holds up the join
  in OnStop, and nothing else can.
- `RunEnds` of the demo needs answers (below): the demo's master has no deadline.

### Bounds

- *Calls* and *publishes*: two blocked callers are enough for one to be answered
  in place of the other, to be released together, or to sit in the queue and in
  the batch at once; the third, plain publish of `confirms` is what shifts a tag
  and what a returned message can be mistaken for. Each call is made once, which
  loses nothing: a repeated operation is another call. `consumer_control` has
  *MaxCalls* four: stop and start again for each of two callers.
- *MaxRuns*, *MaxStarts*, *MaxConnections*: two, so that something of the first life can be
  found in the second.
- *FlushAttempts*: 50 in the code, 2 here: a first and a last round.
- *Prefetch*, *MaxDeliveries*: a full window, and one delivery after a redelivery. In the
  task flow *deliveries* is two where a task can come back: the redelivered task may
  get the tag of its first delivery.
- *Operations*: all of them for the safety of the driver; those that block for its
  liveness, since the others have nothing to wait for.
- *NConsumers*: three, so that the bootstrap chain has a consumer that is started, one that
  is only prepared and one without a window, in this order. *MaxFaults*: a
  second fault hits the recovery from the first. *MaxFlight*: a delivery under way
  behind a reply.
- *MaxMoves*, *MaxCalls* (BusModule): two, so that a change can wait behind
  another, and a call meets the restart.
- *MaxInstances*: three, for three modules, or for two of which one is reloaded.
  *MaxDirectCalls*: two, enough to finish a module and initialise it again.
- *Configs* (PluginManager): empty, one and three plugins, and a name twice.
- *Requests*: two, so that a served request and a client call, or two served
  ones, overlap. *MaxThrows*: two, so that both may end by an exception.
- *CounterMax* stands for the largest value of a 64-bit counter.
- *Configs* (TaskFlow): the kinds of fault are combined with the smallest run
  each needs, because all together on two tasks is out of reach; a store with room for
  one image is full with two tasks.
- *MaxDeaths*: one of two workers may die, so the other may still answer.

`CHECK_DEADLOCK FALSE` appears where the system really stops: when every call of
the instance has been made and the driver, the consumer or the module is idle,
when all processes have ended, or the window is closed.

### Fairness

- Threads run: weak fairness of the driver thread, of the joining control thread
  and of a pending event (`ThreadFairness`). The code has no lock they could
  starve on. `ServiceSpec`, and with it Stop's return, assumes nothing else.
- `EveryCallAnswered` has its assumption in the formula: `BrokerFairness`, strong
  fairness of the broker's answers, strong because a disconnect disables them and
  the next connection enables them again. Nothing is assumed of Stop.
- `ConsumerControl`: the driver thread loops, the broker answers what each channel
  asked, and frames are read. Faults are bounded, callers and deliveries free.
- Confirms and delivery: the driver thread runs its commands and reads its
  socket, handlers return, the broker reads what it is sent. Giving up a wait
  and losing a connection are never forced.
- `BusModule`: host, driver thread, entering calls, and pool threads each go on.
  Nothing is assumed of the network, of messages or of who calls what; that the broker
  replies to a call is no part of the driver thread's steps (`Replies`) and is assumed
  by one part of `CallsReturn` only, in its formula.
- HTTP: listen binds or fails, handlers return, connections time out (OnStart
  sets httplib's read and write timeouts).
- `TaskFlow`: threads go on, drivers run their commands, a deadline that was set
  (`timeout_ms` above 0) passes, the master's and a worker's each. The master's main
  thread polls and has a condition of its own; the others have finitely many steps to take
  in a run and share one, which is all that is assumed of them. Nothing is assumed of
  the broker, of connections or of the HTTP server, so results may never come.
- `MasterDemo`: both threads run; `AnsweringSpec` adds that tasks are answered as
  long as a worker lives, without which the master waits for ever.
- `lifecycle` and `plugins` have no liveness property: they are sequential, and
  deadlock is checked.

## 4. Proofs

All theorems hold for every value of the constants that satisfies the named
assumptions of the module, which say that the constants have their types. The
exceptions that say more: there is at least one flush attempt
(`ConnectionDriverAssumption`); a message passes for itself
(`PublisherConfirmsAssumption`); the pool has a thread (`WorkerPoolAssumption`),
and its threads and the observers are finite in number (`BusModuleAssumption`);
the requests are finite in number and, with the exceptions, no more than the counter can hold
(`HttpTransportAssumption`); the task flow has at least one task, and tasks,
messages of an earlier run and garbled ones differ from each other
(`TaskBrokerAssumption`); a consumer's channel holds at least one frame, and the
bootstrap is not one of the callers (`ControlAssumption`).

| Theorem | States | Also checked by |
|---|---|---|
| `TypeCorrect` | `Spec => []TypeOK` of `ConnectionDriver` | `driver_safety` |
| `NoCallIsOrphaned` | `Spec => []NoOrphanedCall` | `driver_safety` |
| `RepliesStayInConnection` | `Spec => []RepliesBelongToConnection` | `driver_safety` |
| `NothingLeftBehind` | `~SocketInitMayFail /\ Spec => []NoCallLeftBehind` | `driver_liveness` |
| `StateMovesAreLegal` | `Spec => LegalStateMoves` | `driver_safety` |
| `StopIsSeen` | `Spec => []StopIsObserved` | `driver_safety` |
| `DriverImplementsService` | `~SocketInitMayFail /\ Spec => Service!SafeSpec` | `driver_liveness`, as `ServiceSpec` |
| `CountsAgree` | `Spec => []ConfirmsAgree` | `confirms` |
| `ReceiptsAreTrue` | `Spec => []ReceiptIsTrue` | `confirms` |
| `BrokerAndModuleAgree` | `Spec => []DeliveriesAgree` | `delivery` |
| `StopKeepsEveryAck` | `Spec => StopKeepsAcks` | `delivery` |
| `DriverAndBrokerAgree` | `ControlSpec /\ []TakeTurns => []ControlAgrees` | `consumer_control` |
| `StoppedIsSilent` | `ControlSpec /\ []TakeTurns => NoDeliveryAfterStop` | `consumer_control` |
| `StopIsAlwaysComplete` | `Spec => []StopIsComplete` | `bus_module` |
| `InlineOnlyInStop` | `Spec => InlineOnlyWhenStopping` | `bus_module` |
| `NoChangeIsLost` | `Spec => []EventsAccounted` | `bus_module` |
| `ServerGoesDownInOrder` | `Spec => []ServerAgrees` | `http` |
| `CounterNeverWraps` | `Spec => []ActiveIsInFlight` | `http` |
| `SweepsAgree` | `Spec => []ModulesAgree` | `lifecycle` |
| `StartIsNeverRefused` | `Spec => []RestartIsNotRefused` | `lifecycle` |
| `HooksComeInTurn` | `Spec => HooksInTurn` | `lifecycle` |
| `LookupFindsModules` | `Spec => []ServicesMatchModules` | `lifecycle` |
| `TablesAgree` | `Spec => []PluginsAgree` | `plugins` |
| `AllRunOrNone` | `Spec => []AllOrNothing` | `plugins` |
| `PluginsComeInTurn` | `Spec => PluginsInTurn` | `plugins` |
| `NoTaskIsDropped` | `Spec => []SettledHasResult` | `task_flow` |
| `RunCleansUp` | `Spec => []NothingLeftBehind` | `task_flow` |
| `CountersTellTheTruth` | `Spec => []ReportAgrees` | `task_flow` |
| `SuccessIsEarned` | `Spec => []SuccessIsTrue` | `task_flow` |
| `RunLeavesNothing` | `DemoSpec => []NothingIsLeftOver` | `master_demo` |
| `PointerIsValid` | `DemoSpec => []WorkerOutlivesPointer` | `master_demo` |

Each proof has the same shape: an inductive invariant `IInv`, one lemma or step
for each action that shows it preserved, and the property from `IInv`.

**ConnectionDriver.** `NoOrphanedCall` is not inductive: that the pending confirms may be dropped on a
new dial is harmless only because there are none then, which follows from where
the thread is and whether a connection is up. `NoCallLeftBehind` is not
inductive either: it depends on the thread's last look at the queue. The
inductive invariant is the conjunction of three parts:

- `TypeOK`;
- `LinkInv`: no call is orphaned, replies are due only on a connection that is up
  and fully built, and a thread that is about to dial, or has let go of the link,
  has no connection. This makes the `confirming' = {}` of a new connection safe;
- `ShutdownInv`: the batch is empty outside the run loop; a thread that has left
  its main loop has seen `stop_requested`, and once past its last drain the queue
  is empty, and stays so because nobody enqueues after the request; a driver that
  is not joinable has no thread, and no commands.

Each part is preserved action by action, with the lemmas on sequences
(`ElementsAppend`, `ElementsTail`) and on answering (`AnswerReleases`,
`NobodyOrphaned`) stated once. The hypothesis `~SocketInitMayFail` is needed:
where the socket subsystem cannot be initialised, `ThreadMain` returns without a
last drain (D:2460-2472), `thread_` stays joinable and a caller may wait for
ever. On POSIX the initialisation cannot fail.

The state and its observers need two parts more. `StateInv` ties `state` to the
thread and the link: a connection that is up is Connecting until it is ready and
Connected after, a thread about to dial is in neither Connected nor Stopped, and
a driver that is not joinable is Created or Stopped. `ObservedInv` says that an
event still to be delivered ends in the present state, and that with none to
deliver a Stopped driver has been seen to stop. It relies on Start delivering its
own event before the controlling thread can call Stop.

The refinement maps `joinable` and `stop_requested` to the service's phase,
waiting calls to `asked` and finished ones to `answered`. Every step either
leaves the three alone, answers a set of blocked callers, lets one caller ask or
return, or opens, closes or finishes the service; finishing uses
`NothingLeftBehind`.

**PublisherConfirms.** `IInv` is `TypeOK`, `Once`, `Channel` and `ReceiptIsTrue`.
`Once` says that a publish is in one place at a time. `Channel` has what only the
channel knows: the driver's next tag is the broker's count plus what is on the
wire (`Counts`); an acknowledgement under way is about publishes the broker has
settled (`FrameOrder`), and of those that cover a pending tag the first is the one
that settled it (`Verdicts`), which is what `multiple` makes difficult; and a
return is ahead of every acknowledgement of its publish (`Returns`).

**ConsumerDelivery.** Beside the two properties: what the order of the stop
implies (`StopOrder`), what a link that is down has lost (`LinkOrder`), that a
decision exists for what is on its way back (`Decided`), that on the first
connection a waiting delivery is in one place (`Places`) and a tag names one
delivery and its one decision (`OneTag`), and that while this connection stands
the broker still holds what waits here, and an ack is on its way or has arrived
(`FirstUp`). `StopKeepsEveryAck` follows: when the driver thread leaves, the pool
has been joined and the commands are written, so an ack can only have arrived.

**ConsumerControl.** What the driver believes of a consumer and what the broker has
differ as long as frames are under way, so the invariant `ControlInv` is about each
channel with its frames in both directions. `OneRequest` says that a channel carries
one request, forth or back, and `Requests` and `Answered` who waits for it: the caller
whose consume or cancel it is, or the bootstrap at this consumer. `Stream` carries the
agreement: `RunsAt(c, i)` is what the driver will believe once it has read the frames
before `i`; a delivery only comes where that is true; a broker that consumes has it true
at the end, under the same tag; and a broker that does not, while the driver believes it
or will, has a frame under way that ends this or the disconnect pending. `Setup` is about
the channel of the topology. `Chain` says that a consumer to which the bootstrap has not
come is untouched, and that for those it is past the runtime is active exactly when
callers or configuration were told so. When a channel is quiet, no frame is left that
could change the driver's mind, which gives `ControlAgrees`; when the next frame is a
delivery, `RunsAt` before it is the runtime itself, which gives `NoDeliveryAfterStop`.
TLC checked `ControlInv` on the instance of `consumer_control` before it was proved.

The hypothesis `[]TakeTurns` is needed: any number of threads may control a consumer,
but no StartConsumer or StopConsumer of it begins before the previous one has returned.
`OneRequest` is false of two that overlap, where the code starts two consumers at the
broker (section 5). Callers of different consumers overlap freely. The callers of
`consumer_control` have consumers of their own and always take turns
(`OwnConsumersTakeTurns`).

**BusModule.** What the pool is follows from where the host is (`HostOrder`); a
stopped pool has no task, and the first thread to leave a closing pool leaves
none (`PoolOrder`); the driver's thread lives between two points of the host
(`ThreadOrder`); only message handlers hold calls (`CallOrder`); and while the
thread leaves, what it announces is Stopped to all who have not heard it
(`SeenOrder`). `NoChangeIsLost` counts what is on its way to an observer: the
indices of the queue, the threads and the announcers that hold an event for it.
`LeftOrder` (an announcer has something left to hand out only between copying the
handlers and its end) and the lemmas on what a step adds to or takes from a queue,
a thread and an announcer (`QueueAppend`, `QueueTail`, `ThreadsChange`,
`EmittersChange`) reduce each step to a difference of at most one.

**HttpTransport.** `ThreadInOrder` says where the listening thread can be for each
place of the host, unless a Start gave up on it; the counter does not exceed the
cardinality of what is in flight and `leaked` together, and is equal to that until a
reset met a request. With the assumption on `CounterMax` the increment does not wrap;
the decrement stops at 0 (`Less`).

**ModuleLifecycle.** A sweep is proved for any number of modules, without
induction over its length. `Base` is about instances alone: the tables name the
same ones, and what an instance holds follows from its state, apart from what its last
Fini left: in Fini nothing but `abandoned` is held, and where no Fini failed that is
empty. `Course` says that
what remains of a sweep is a suffix of the loading order (of its reverse for Stop
and Fini), `Past` that the modules it has come past are done, `Ahead` that the
ones it has still to come to are in a state it accepts, and `DependenciesAreUp`
is preserved because a suffix is either all that comes later or all that comes
earlier. `OkMeansDone` follows when the suffix is empty.

**PluginManager.** `Tables` says that the loading order is the part of the
configured list that was loaded, which names what the other tables hold; `Runs`
that what runs is `Expected`, the part of the list that the hook has come to,
apart from plugins that failed to stop. The last is not inductive for a Started
module: after a Stop that failed half-way, the plugins that did stop are still
expected to run. So `Runs` allows the lower bound to fail while a plugin is
`Stuck`, and says of a stop with an error to report that one is. Only a start or
OnFini ends that, and while the module starts the bound holds for the plugins that
it has come to.

**TaskFlow.** `IInv` follows a task from the master to its row. `Deliveries`: an
unacked message is at a worker whose connection stands (`Linked`), a delivery is one job
(`Numbered`), and a job that still holds its delivery comes to its ack only after its
result was taken by the broker (`ResultFirst`). An ack whose own delivery it names
therefore ends a task that has its result; one that names another makes it `misled`. As long
as no worker loses a connection and goes on, a tag names one job, which holds its
delivery (`TagsNameJobs`), so no ack does. This gives `SettledHasResult`.
`Answers`: a result that reaches the master was sent by a worker, and computed if it
says so. `Course`: what the host, the route, the handler and the result jobs can be
at each step of the run. `Rows`: the store holds an image only while its row says
stored, such a row is not finished, and the sweep leaves none. `Report`: the counters
are the sizes of the sets they count, and while the run was not cut short,
success_count is the number of rows that say so and a finished task without a result
was never sent. The two sections of a result handler make the last two difficult:
between them a second result, the sweep or a cancellation may come.

**MasterDemo.** The worker pointer is cleared by a queued event, so `DemoInv` follows
the events. `Pointer`: the pointer names the last run started or none, and no earlier run is
active. `Queue`: there is at most one `finished` event for the window, it comes after
all rows, and its run is over by then; a `quit` of that run comes after it. `Quits`: as
long as the window is open, a thread is told to quit only after the window took that event
and dropped the pointer, which is why the worker outlives it. `ProcessesHeld`: a local process runs only while a run is between spawning and
cleanup, through each of its failures. `Shown`: a row, and a row event, belongs to
no run but the last.

Only model-checked: liveness (`ServiceSpec` with its fairness, `EveryCallAnswered`,
`EveryPublishSettles`, `EverySlotIsFreed`, `StopCompletes`, `CallsReturn`,
`EveryProcessEnds`, `ComesBack`, `RunEnds`), which is beyond the prover, as is `ENABLED`.
Every invariant and action property of a run is also a theorem. No module with a theorem uses
a RECURSIVE operator.

## 5. What the runs found

One run is expected to be violated. It shows a behaviour of the code that
contradicts what a header of the repository says:

- `delivery_stale_tag`. `CompleteDeliveryAsync` (D:2351) names a delivery by its
  tag. Tags start again from 1 on a new channel, so a handler that finishes after
  a reconnect settles whichever message now has its tag.

Behaviour met while modelling, which the models contain and which the conditions
in section 3 exclude from a property, or which was left as it is because nothing promises
otherwise:

*Driver and bus.*

- `basic.return` carries no delivery tag, so `MarkReturnedPublish` (D:3330) takes
  the first pending publish with the same exchange, routing key, body and given
  properties. Headers are not compared: a publish that was routed can get the
  receipt Returned of another, although `Types.h:100` says of the receipt that the
  broker could not route this message. `Alike` of `PublisherConfirms` holds it.
- Two callers that control the same consumer are not kept apart: two
  StartConsumer before the first consume-ok make two consumers at the broker, of
  which StopConsumer cancels the last (D:1985). A reconnect starts the consumers
  by `auto_start`, whatever was started or stopped at run time.
- A call made after the socket subsystem failed to initialise does not return.
- Start announces Connecting on its own thread after the driver thread runs, so
  an observer may see states out of order until Stopped.
- A state handler that runs inline during Stop and makes a synchronous bus call
  blocks the driver thread; the comment at M:84 names the condition.
- Declarations and the start or stop of a consumer wait without a timeout (D:190-197).
  A message handler that makes such a call to a connected broker which does not reply
  holds the pool's Shutdown in OnStop (M:376), and the driver, whose Stop would answer
  it, is stopped only after that: OnStop does not return until the broker replies or
  the connection is lost. `CallsReturn` without `BrokerAnswers` is violated in this way.
- OnStop clears the message handlers: after a restart messages are requeued until
  a handler is registered again. Observers registered before OnInit are dropped
  (M:215). A message handler may still be running when Unregister returns.
- The proxy's RegisterConsumerHandler reads the configuration of the shared state
  without its lock (`MessageBusServiceProxy.cpp:61`).

*Framework, HTTP, plugins.*

- A module in `Fini` may be initialised again, although `IModule.h:95` calls Fini
  the end of its life (a test of `ModuleBase` expects the former). That includes a module
  whose OnStop or OnFini failed in Fini: `Fini` returns the error, the state is Fini all
  the same, and the next Init and Start run OnInit and OnStart over whatever those hooks
  left running or allocated (`ModuleBase.cpp:184-202`).
- `StopPluginsInReverse` skips plugins that are not `kStarted`. A plugin whose Stop
  failed is `kError`; the second Stop of the module skips it and returns Ok. The
  plugin manager hands out plugins in `kError`, which `plugin/Types.h:18` calls
  unavailable.
- After an HTTP Start that failed, `server_thread_` is joinable, and the next Start
  assigns to it, which is `std::terminate`. After a Start that gave up too
  early the module's thread outlives `Fini`.
- A user's handler that throws (H:888, H:995) is answered with 500 by httplib, and
  FinishRequest is not called: `active_requests` stays too high until the next Init
  or Fini. A reader of a streamed body that throws ends the program, since httplib calls
  it outside its try block.

*Applications.*

- A duplicate result may change a row's status between the two lock sections of
  the first; a result between the sweep and the late flag overwrites a row that
  was counted as failed. `timed_out` may be reported with all tasks finished.
- With `timeout_ms` 0 the master waits for ever for a result that was lost, and a worker
  for a connection (`WaitForConnected`) or for a shutdown it did not hear (W:711). 0 is the
  default of `run_task_flow_worker.ps1:23` and `run_task_flow_e2e.ps1:28`, and what the
  Qt demo passes (`mainwindow.cpp:221`).
- A worker that loses its connection between a result and its ack settles with the old
  tag on the new connection (D:2351-2392), as in `delivery_stale_tag`. If the result was
  dropped with the connection and the task comes again under the same tag, the ack ends
  that delivery: should the second computation not publish its result either, the task
  is gone without one. If no delivery has the tag, the broker closes the channel, and the
  driver reconnects.
- `cleanup_failure_count` stays 0.
- A click on Stop posts a RequestStop that the run's thread takes only when its
  event loop runs, not while `RunTaskFlowMaster` does, although
  `mainwindow.cpp:357` tells the user that this run will go to its cleanup.
- `MasterWorker::Run` clears `cancel_requested_`, and loses a stop set by the
  closing window just before; the window waits three seconds and then destroys a
  running QThread, which aborts the process and leaves its workers.
- A task's published snapshot may reach the table after its result.

## 6. What is abstracted, and what is not modelled

- Payloads, names, headers and arguments are model values. Validation that
  depends on them alone is one nondeterministic refusal (`RunRejected`,
  `RunRefused`, `Malformed`).
- `ConnectionDriver` names six kinds of operation; the ones that reach the driver
  thread and are answered in the same way are one kind (`Kinds`). What a successful
  declaration adds to the configuration (D:2158, 2213, 2270) lengthens the next
  bootstrap, which is one step there (`TopologyRebuilt`) and the chain of given items of
  `ConsumerControl`. Its Start and
  Stop are called by one controlling thread, as the framework does.
- Time: a timeout may come at any moment; the length of the reconnect delay, its
  doubling and its reset (D:2552) are left out.
- The thread pool is modelled as the repository uses it. A second, concurrent Shutdown is
  called by none of its own code, and `ShutdownNow` at one place (M:355), behind an error
  that StartDriver cannot return there (section 2).
- Task flow: run identifiers are unique, results that do not parse are left out
  (the handler rejects them), image bytes and timings are abstracted. A stale tag on the
  worker's control consumer is left out: it can only end another copy of the same
  shutdown message or break the connection once more.
- Qt demo: signals that only refresh a label, the settings dialog and workers on
  other machines are left out.
- External: the broker, AMQP-CPP's channels and Qt's event loop are modelled by what
  the code in `src/` relies on. Of cpp-httplib, which is vendored, the accept loop is
  modelled and what is inside a connection is not.
- Not modelled: the context (it forwards to the manager), configuration parsing,
  logging and file utilities, third-party code and the deployment scripts.
  `PROJECT.json` gives the reason for each.

## 7. Plan

What a next step would add, the most consequential first:

1. Two callers on one consumer, as a second instance of `ConsumerControl` with
   the weaker agreement that the code keeps for them.
2. `ReconnectBackoff`: the delay, its doubling and its reset.
3. `ThreadPool` with `ShutdownNow`, which only an unreachable error path calls today, and
   several callers of Shutdown, implementing `WorkerPool`.
