------------------------------ MODULE BusModule ------------------------------
(***************************************************************************)
(* The AMQP bus module around its connection driver: the lifecycle that    *)
(* builds and takes down the worker pool and the driver, the proxy whose   *)
(* calls look the driver up, and the way of messages and of connection     *)
(* state changes from the driver to the handlers.  The driver is reduced   *)
(* to what CallService promises and ConnectionDriver shows: it answers     *)
(* every call it has taken before its thread ends.                         *)
(***************************************************************************)
EXTENDS WorkerPool, Integers, FiniteSets

CONSTANTS
    Observers,          \* names of connection state handlers
    Client,             \* a thread of the program that calls the bus
    MaxStarts,          \* bound: calls of OnStart
    MaxMoves,           \* bound: connection state changes and messages
    MaxCalls            \* bound: calls, registrations and unregistrations of the client

ASSUME BusModuleAssumption ==
    /\ IsFiniteSet(Observers) /\ IsFiniteSet(Threads)
    /\ Client \notin Threads
    /\ MaxStarts \in Nat /\ MaxMoves \in Nat /\ MaxCalls \in Nat

VARIABLES
    mstate,             \* ModuleBase.state_; "created" is "fini"
    hpc,                \* where the host is inside a lifecycle call, or "idle"
    stopping,           \* AmqpBusSharedState.stopping
    driver,             \* AmqpBusSharedState.driver: number of the driver, or 0
    handler,            \* the consumer has a handler in AmqpBusSharedState.handlers
    state_handlers,     \* AmqpBusSharedState.state_handlers
    starts,             \* how many drivers were created
    state,              \* the connection state of the last driver
    thread,             \* its thread: "none", "running", "leaving" or "ended"
    stop_requested,     \* its flag
    moves,              \* bound: changes and messages so far
    emit,               \* emit[t]: the change that thread t is announcing
    call,               \* call[c]: the bus call of thread c
    calls,              \* bound: what the client has done so far
    owed,               \* history: changes announced to an observer and not handled yet
    seen,               \* history: the last state an observer handled
    watch               \* history: observers that were there when OnStop began, and since

module == <<mstate, hpc, stopping, driver, starts>>
handlers == <<handler, state_handlers, watch>>
conn == <<state, thread, stop_requested, moves>>
events == <<owed, seen>>
bus == <<call, calls>>
vars == <<poolVars, module, handlers, conn, emit, events, bus>>

-----------------------------------------------------------------------------
States == {"Created", "Connecting", "Connected", "Reconnecting", "Error", "Stopped"}
Emitters == {"host", "driver"}
Callers == Threads \cup {Client}

\* "stage": "none"; "changed", EmitStateChange is about to begin; "dispatch",
\* the handlers in "left" have been copied and not been served.
Nothing == [stage |-> "none", state |-> "Created", left |-> {}]
Changed(s) == [stage |-> "changed", state |-> s, left |-> {}]
NoCall == [stage |-> "none", driver |-> 0]

\* Tasks of the pool: a state change for an observer, and a message for the
\* handler of the consumer, which may call the bus while it runs.
Event(o, s) == [kind |-> "event", observer |-> o, state |-> s]
Message(found) == [kind |-> "message", found |-> found, called |-> FALSE]
Tasks == [kind : {"event"}, observer : Observers, state : States]
         \cup [kind : {"message"}, found : BOOLEAN, called : BOOLEAN]

ASSUME TasksAssumption == Idle \notin Tasks /\ Exited \notin Tasks

Init ==
    /\ pool = "stopped" /\ queue = <<>> /\ worker = [w \in Threads |-> Exited]
    /\ mstate = "created" /\ hpc = "idle" /\ stopping = FALSE /\ driver = 0 /\ starts = 0
    /\ handler = FALSE /\ state_handlers = {} /\ watch = {}
    /\ state = "Created" /\ thread = "none" /\ stop_requested = FALSE /\ moves = 0
    /\ emit = [t \in Emitters |-> Nothing]
    /\ call = [c \in Callers |-> NoCall] /\ calls = 0
    /\ owed = [o \in Observers |-> 0]
    /\ seen = [o \in Observers |-> "Created"]

HostStep(from, to) == hpc = from /\ hpc' = to

-----------------------------------------------------------------------------
(* The lifecycle of the module.                                            *)

\* A handler that was registered before is dropped.
OnInit ==
    /\ hpc = "idle" /\ mstate = "created"
    /\ mstate' = "inited"
    /\ stopping' = FALSE /\ driver' = 0
    /\ handler' = FALSE /\ state_handlers' = {} /\ watch' = {}
    /\ NewPool
    /\ UNCHANGED <<hpc, starts, conn, emit, events, bus>>

OnStart ==
    /\ mstate \in {"inited", "stopped"} /\ starts < MaxStarts
    /\ HostStep("idle", "pool")
    /\ stopping' = FALSE
    /\ IF pool = "stopped" THEN NewPool ELSE UNCHANGED poolVars
    /\ UNCHANGED <<mstate, driver, starts, handlers, conn, emit, events, bus>>

\* The threads cannot be created: OnStart fails, the pool is as before.
PoolStartFails ==
    /\ HostStep("pool", "idle")
    /\ UNCHANGED <<poolVars, mstate, stopping, driver, starts, handlers, conn, emit, events, bus>>

\* The pool runs; CreateAmqpConnectionDriver; the driver is published to the
\* proxy before it is started.
PoolStarts ==
    /\ HostStep("pool", "driver")
    /\ Start
    /\ starts' = starts + 1
    /\ driver' = starts'
    /\ state' = "Created" /\ thread' = "none" /\ stop_requested' = FALSE
    /\ UNCHANGED <<mstate, stopping, handlers, moves, emit, events, bus>>

\* StartDriver.  Its thread runs before the host announces "Connecting".  (The
\* call has no error to return: Start fails only when the driver has a thread
\* already, and this one was created by OnStart two lines before.)
StartDriver ==
    /\ HostStep("driver", "announce")
    /\ state' = "Connecting"
    /\ thread' = "running"
    /\ emit' = [emit EXCEPT !["host"] = Changed("Connecting")]
    /\ UNCHANGED <<poolVars, mstate, stopping, driver, starts, handlers, stop_requested, moves, events, bus>>

OnStartReturns ==
    /\ emit["host"] = Nothing
    /\ HostStep("announce", "idle")
    /\ mstate' = "started"
    /\ UNCHANGED <<poolVars, stopping, driver, starts, handlers, conn, emit, events, bus>>

\* Mutant: "stopping" is not set.
OnStopUnmarked ==
    /\ mstate = "started"
    /\ HostStep("idle", "close")
    /\ watch' = state_handlers
    /\ UNCHANGED <<poolVars, mstate, stopping, driver, starts, handler, state_handlers, conn, emit, events, bus>>

OnStop ==
    /\ mstate = "started"
    /\ HostStep("idle", "close")
    /\ stopping' = TRUE
    /\ watch' = state_handlers
    /\ UNCHANGED <<poolVars, mstate, driver, starts, handler, state_handlers, conn, emit, events, bus>>

ShutdownPool ==
    /\ HostStep("close", "join")
    /\ Shutdown
    /\ UNCHANGED <<mstate, stopping, driver, starts, handlers, conn, emit, events, bus>>

\* Mutant: ShutdownNow: what is queued is thrown away.
PoolStopsNow ==
    /\ HostStep("join", "halt")
    /\ \A w \in Threads : worker[w] \in {Idle, Exited}
    /\ pool' = "stopped" /\ queue' = <<>> /\ worker' = [w \in Threads |-> Exited]
    /\ UNCHANGED <<mstate, stopping, driver, starts, handlers, conn, emit, events, bus>>

\* Mutant: nobody waits for the threads.
PoolStopsUnjoined ==
    /\ HostStep("join", "halt")
    /\ UNCHANGED <<poolVars, mstate, stopping, driver, starts, handlers, conn, emit, events, bus>>

PoolStops ==
    /\ HostStep("join", "halt")
    /\ ShutdownReturns
    /\ UNCHANGED <<mstate, stopping, driver, starts, handlers, conn, emit, events, bus>>

\* StopDriver: Stop of the driver sets the flag, joins the thread ...
StopDriver ==
    /\ HostStep("halt", "last")
    /\ stop_requested' = TRUE
    /\ UNCHANGED <<poolVars, mstate, stopping, driver, starts, handlers, state, thread, moves, emit, events, bus>>

\* ... and announces "Stopped" if the thread has not.
DriverStopped ==
    /\ HostStep("last", "clear")
    /\ thread = "ended"
    /\ thread' = "none"
    /\ state' = "Stopped"
    /\ emit' = IF state = "Stopped" THEN emit ELSE [emit EXCEPT !["host"] = Changed("Stopped")]
    /\ UNCHANGED <<poolVars, mstate, stopping, driver, starts, handlers, stop_requested, moves, events, bus>>

\* Message handlers go, connection state handlers stay.
OnStopReturns ==
    /\ emit["host"] = Nothing
    /\ HostStep("clear", "idle")
    /\ handler' = FALSE
    /\ mstate' = "stopped"
    /\ UNCHANGED <<poolVars, stopping, driver, starts, state_handlers, watch, conn, emit, events, bus>>

\* (Fini of a module that is started calls OnStop first.)
OnFini ==
    /\ hpc = "idle" /\ mstate \in {"inited", "stopped"}
    /\ mstate' = "created"
    /\ stopping' = FALSE /\ driver' = 0
    /\ handler' = FALSE /\ state_handlers' = {} /\ watch' = {}
    /\ pool' = "stopped"
    /\ UNCHANGED <<queue, worker, hpc, starts, conn, emit, events, bus>>

-----------------------------------------------------------------------------
(* DispatchConnectionStateChange.                                          *)

Owe(S) == owed' = [o \in Observers |-> IF o \in S THEN owed[o] + 1 ELSE owed[o]]

\* The handlers are copied under the lock.
Snapshot(t) ==
    /\ emit[t].stage = "changed"
    /\ emit' = [emit EXCEPT ![t] = [@ EXCEPT !.stage = "dispatch", !.left = state_handlers]]
    /\ Owe(state_handlers)
    /\ UNCHANGED <<poolVars, module, handlers, conn, seen, bus>>

Served(t, o) ==
    /\ emit[t].stage = "dispatch" /\ o \in emit[t].left
    /\ emit' = [emit EXCEPT ![t].left = @ \ {o}]

SubmitsEvent(t, o) ==
    /\ Served(t, o)
    /\ Accepts
    /\ Submit(<<Event(o, emit[t].state)>>)
    /\ UNCHANGED <<pool, worker, module, handlers, conn, events, bus>>

Handles(o, s) ==
    /\ seen' = [seen EXCEPT ![o] = s]
    /\ owed' = [owed EXCEPT ![o] = @ - 1]

\* The pool refuses: the handler runs on the thread that announces.
RunsInline(t, o) ==
    /\ Served(t, o)
    /\ ~ Accepts
    /\ Handles(o, emit[t].state)
    /\ UNCHANGED <<poolVars, module, handlers, conn, bus>>

Announced(t) ==
    /\ emit[t].stage = "dispatch" /\ emit[t].left = {}
    /\ emit' = [emit EXCEPT ![t] = Nothing]
    /\ UNCHANGED <<poolVars, module, handlers, conn, events, bus>>

Dispatch(t) == Snapshot(t) \/ Announced(t) \/ (\E o \in Observers : SubmitsEvent(t, o) \/ RunsInline(t, o))

-----------------------------------------------------------------------------
(* The thread of the driver.  It does one thing at a time: while it        *)
(* announces a change it neither answers calls nor delivers messages.  A   *)
(* call here is one that has to wait: a declaration, the start or the stop *)
(* of a consumer, a publish with confirm.                                  *)

Free == thread = "running" /\ emit["driver"] = Nothing

\* ConnectSocket and the bootstrap succeed or fail, the connection is lost.  The
\* state is "Connecting" again when a socket is there.
NextStates(s) ==
    CASE s = "Connecting" -> {"Connected", "Reconnecting", "Error"}
      [] s = "Connected" -> {"Reconnecting", "Error"}
      [] s = "Reconnecting" -> {"Connecting"}
      [] OTHER -> {}

Move ==
    /\ Free
    /\ moves < MaxMoves
    /\ moves' = moves + 1
    /\ \E s \in NextStates(state) :
        /\ state' = s
        /\ emit' = [emit EXCEPT !["driver"] = Changed(s)]
    /\ UNCHANGED <<poolVars, module, handlers, thread, stop_requested, events, bus>>

\* A message arrives.  It is requeued when the module is stopping or the pool
\* refuses it; a task without a handler requeues it too.
Deliver ==
    /\ Free
    /\ state = "Connected"
    /\ moves < MaxMoves
    /\ moves' = moves + 1
    /\ IF ~ stopping /\ Accepts THEN Submit(<<Message(handler)>>) ELSE UNCHANGED queue
    /\ UNCHANGED <<pool, worker, module, handlers, state, thread, stop_requested, emit, events, bus>>

\* A call has its answer: DrainCommands turns it down without a connection, the
\* broker replies, HandleDisconnect fails it.
Answer(c) ==
    /\ Free
    /\ call[c].stage = "queued"
    /\ call' = [call EXCEPT ![c] = NoCall]
    /\ UNCHANGED <<poolVars, module, handlers, conn, emit, events, calls>>

\* stop_requested is seen.  The commands are drained and HandleDisconnect fails
\* what the broker has not answered: no call is left.
Leave ==
    /\ Free
    /\ stop_requested
    /\ thread' = "leaving"
    /\ state' = "Stopped"
    /\ emit' = [emit EXCEPT !["driver"] = Changed("Stopped")]
    /\ call' = [c \in Callers |-> IF call[c].stage = "queued" THEN NoCall ELSE call[c]]
    /\ UNCHANGED <<poolVars, module, handlers, stop_requested, moves, events, calls>>

ThreadEnds ==
    /\ thread = "leaving" /\ emit["driver"] = Nothing
    /\ thread' = "ended"
    /\ UNCHANGED <<poolVars, module, handlers, state, stop_requested, moves, emit, events, bus>>

-----------------------------------------------------------------------------
(* The proxy.                                                              *)

\* LookupDriver copies the reference under the lock ...
LookupDriver(c) == call' = [call EXCEPT ![c] = [stage |-> "found", driver |-> driver]]

Running(d) == d # 0 /\ d = starts /\ thread # "none" /\ ~ stop_requested

\* Mutant: EnqueueCommand does not look at stop_requested_.
EnterAlways(c) ==
    /\ call[c].stage = "found"
    /\ call' = [call EXCEPT ![c] = IF @.driver # 0 /\ @.driver = starts /\ thread # "none"
                                   THEN [@ EXCEPT !.stage = "queued"] ELSE NoCall]
    /\ UNCHANGED <<poolVars, module, handlers, conn, emit, events, calls>>

\* ... and the call goes to that driver, whatever has become of it since:
\* without a driver, or without a running one, it returns an error.
Enter(c) ==
    /\ call[c].stage = "found"
    /\ call' = [call EXCEPT ![c] = IF Running(@.driver) THEN [@ EXCEPT !.stage = "queued"] ELSE NoCall]
    /\ UNCHANGED <<poolVars, module, handlers, conn, emit, events, calls>>

ClientCalls ==
    /\ call[Client] = NoCall
    /\ LookupDriver(Client)
    /\ UNCHANGED <<poolVars, module, handlers, conn, emit, events>>

\* Before OnInit the configuration names no consumer; afterwards it does.
RegisterConsumerHandler ==
    /\ mstate # "created"
    /\ handler' = TRUE
    /\ UNCHANGED <<poolVars, module, state_handlers, watch, conn, emit, events, call>>

UnregisterConsumerHandler ==
    /\ handler
    /\ handler' = FALSE
    /\ UNCHANGED <<poolVars, module, state_handlers, watch, conn, emit, events, call>>

RegisterConnectionStateHandler(o) ==
    /\ state_handlers' = state_handlers \cup {o}
    /\ UNCHANGED <<poolVars, module, handler, watch, conn, emit, events, call>>

UnregisterConnectionStateHandler(o) ==
    /\ o \in state_handlers
    /\ state_handlers' = state_handlers \ {o}
    /\ watch' = watch \ {o}
    /\ UNCHANGED <<poolVars, module, handler, conn, emit, events, call>>

-----------------------------------------------------------------------------
(* The threads of the pool.                                                *)

TakeTask(w) == Take(w) /\ UNCHANGED <<module, handlers, conn, emit, events, bus>>
ThreadExits(w) == Exit(w) /\ UNCHANGED <<module, handlers, conn, emit, events, bus>>

Busy(w, kind) == worker[w] \notin {Idle, Exited} /\ worker[w].kind = kind

RunEvent(w) ==
    /\ Busy(w, "event")
    /\ Handles(worker[w].observer, worker[w].state)
    /\ Finished(w)
    /\ UNCHANGED <<pool, queue, module, handlers, conn, emit, bus>>

\* The handler of a message publishes, or declares, or calls nothing.
MessageCalls(w) ==
    /\ Busy(w, "message")
    /\ worker[w].found /\ ~ worker[w].called
    /\ LookupDriver(w)
    /\ worker' = [worker EXCEPT ![w].called = TRUE]
    /\ UNCHANGED <<pool, queue, module, handlers, conn, emit, events, calls>>

\* It returns; its completion is a command nobody waits for.
MessageDone(w) ==
    /\ Busy(w, "message")
    /\ call[w] = NoCall
    /\ Finished(w)
    /\ UNCHANGED <<pool, queue, module, handlers, conn, emit, events, bus>>

-----------------------------------------------------------------------------
Host ==
    \/ PoolStartFails \/ PoolStarts \/ StartDriver \/ OnStartReturns
    \/ ShutdownPool \/ PoolStops \/ StopDriver \/ DriverStopped \/ OnStopReturns
    \/ Dispatch("host")

Lifecycle == OnInit \/ OnStart \/ OnStop \/ OnFini

\* Without a connection a call needs no broker to be answered.
TurnsDown(c) == state # "Connected" /\ Answer(c)
Replies(c) == state = "Connected" /\ Answer(c)

DriverThread == Leave \/ ThreadEnds \/ Dispatch("driver") \/ (\E c \in Callers : TurnsDown(c))

PoolThread(w) == TakeTask(w) \/ ThreadExits(w) \/ RunEvent(w) \/ MessageCalls(w) \/ MessageDone(w)

Program ==
    /\ calls < MaxCalls
    /\ calls' = calls + 1
    /\ \/ ClientCalls \/ RegisterConsumerHandler \/ UnregisterConsumerHandler
       \/ \E o \in Observers : RegisterConnectionStateHandler(o) \/ UnregisterConnectionStateHandler(o)

Next ==
    \/ Lifecycle \/ Host \/ Program
    \/ Move \/ Deliver \/ DriverThread
    \/ \E c \in Callers : Enter(c) \/ Replies(c)
    \/ \E w \in Threads : PoolThread(w)

Spec == Init /\ [][Next]_vars

\* Every thread goes on.  Nothing is assumed of the broker and the network, of
\* the messages and of who calls what.
Fairness ==
    /\ WF_vars(Host)
    /\ WF_vars(DriverThread)
    /\ WF_vars(\E c \in Callers : Enter(c))
    /\ WF_vars(\E w \in Threads : PoolThread(w))

FairSpec == Spec /\ Fairness

-----------------------------------------------------------------------------
(* Properties.                                                             *)

TypeOK ==
    /\ pool \in {"created", "running", "closing", "stopped"}
    /\ queue \in Seq(Tasks)
    /\ worker \in [Threads -> {Idle, Exited} \cup Tasks]
    /\ mstate \in {"created", "inited", "started", "stopped"}
    /\ hpc \in {"idle", "pool", "driver", "announce", "close", "join", "halt", "last", "clear"}
    /\ stopping \in BOOLEAN /\ handler \in BOOLEAN /\ stop_requested \in BOOLEAN
    /\ starts \in 0 .. MaxStarts /\ driver \in 0 .. MaxStarts
    /\ state_handlers \subseteq Observers /\ watch \subseteq Observers
    /\ state \in States
    /\ thread \in {"none", "running", "leaving", "ended"}
    /\ moves \in 0 .. MaxMoves /\ calls \in 0 .. MaxCalls
    /\ emit \in [Emitters -> [stage : {"none", "changed", "dispatch"}, state : States, left : SUBSET Observers]]
    /\ call \in [Callers -> [stage : {"none", "found", "queued"}, driver : 0 .. MaxStarts]]
    /\ owed \in [Observers -> Int]
    /\ seen \in [Observers -> States]

IsFor(o, t) == t \notin {Idle, Exited} /\ t.kind = "event" /\ t.observer = o

Pending(o) == Cardinality({i \in DOMAIN queue : IsFor(o, queue[i])})
              + Cardinality({w \in Threads : IsFor(o, worker[w])})
              + Cardinality({t \in Emitters : o \in emit[t].left})

\* No state change is lost and none is handled twice, on the pool or inline,
\* however announcements, shutdown and registrations interleave: what was
\* announced to an observer was handled or is still on its way.
EventsAccounted ==
    /\ TypeOK
    /\ \A o \in Observers : owed[o] = Pending(o)

\* After OnStop no thread of the module is left and nothing waits, and the
\* last thing every observer heard is "Stopped": the stop of the pool comes
\* before the stop of the driver, so no older change can overtake it.
StopIsComplete ==
    hpc = "idle" /\ mstate = "stopped" =>
        /\ thread = "none" /\ Joined /\ queue = <<>>
        /\ \A t \in Emitters : emit[t] = Nothing
        /\ \A w \in Threads : call[w] = NoCall
        /\ \A o \in watch : seen[o] = "Stopped"

\* A connection state handler runs on the announcing thread only while the
\* module stops, as the comment in DispatchConnectionStateChange says: at any
\* other time a handler that calls the bus does not block the driver thread.
InlineOnlyWhenStopping ==
    [][\A t \in Emitters, o \in Observers : RunsInline(t, o) => stopping]_vars

\* WaitPendingResult has no timeout: a declaration, and the start or the stop of
\* a consumer, wait for a connected broker as long as it takes.
BrokerAnswers == \A c \in Callers : WF_vars(Replies(c))

\* If the broker answers, every lifecycle call returns, and so does every call
\* of the bus, also one that a message handler makes while OnStop waits for that
\* handler.  What the broker owes can hold up the join of the pool and nothing
\* else: OnStart returns, OnStop returns once the handlers have, and stopping
\* the driver frees every caller, also one that found a driver which has been
\* stopped or replaced since.
CallsReturn ==
    /\ BrokerAnswers => /\ hpc # "idle" ~> hpc = "idle"
                        /\ \A c \in Callers : call[c] # NoCall ~> call[c] = NoCall
    /\ hpc \notin {"idle", "close", "join"} ~> hpc = "idle"
    /\ \A c \in Callers : stop_requested /\ call[c] # NoCall ~> call[c] = NoCall
=============================================================================
