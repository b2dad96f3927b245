--------------------------- MODULE BusModuleProofs ---------------------------
(***************************************************************************)
(* Theorems about BusModule, for any number of threads in the pool, any    *)
(* observers and any number of Starts, state changes and calls.            *)
(***************************************************************************)
EXTENDS BusModule, FiniteSetTheorems, FunctionTheorems, TLAPS

USE BusModuleAssumption, TasksAssumption, WorkerPoolAssumption

-----------------------------------------------------------------------------
(* The inductive invariant.                                                *)

Started == hpc = "idle" /\ mstate = "started"
Down    == hpc = "idle" /\ mstate # "started"

\* What the pool is, is decided by where the host is.
HostOrder ==
    /\ hpc \in {"close", "join", "halt", "last", "clear"} => mstate = "started" /\ stopping
    /\ hpc \in {"pool", "driver", "announce"} => mstate \in {"inited", "stopped"}
    /\ Started \/ hpc \in {"driver", "announce", "close"} => pool = "running"
    /\ hpc = "pool" => starts < MaxStarts
    /\ hpc = "pool" \/ (Down /\ mstate = "inited") => pool = "created"
    /\ hpc = "join" => pool = "closing"
    /\ hpc \in {"halt", "last", "clear"} \/ (Down /\ mstate = "created") => pool = "stopped"
    /\ Down /\ mstate = "stopped" => pool \in {"created", "stopped"}

\* A pool that does not run has no thread and no task, and the first thread to
\* leave a closing one leaves no task behind.
PoolOrder ==
    /\ pool \in {"created", "stopped"} => Joined /\ queue = <<>>
    /\ pool = "running" => \A w \in Threads : worker[w] # Exited
    /\ pool = "closing" /\ (\E w \in Threads : worker[w] = Exited) => queue = <<>>

\* The thread of the driver lives from StartDriver to DriverStopped, and only
\* it and the host between the two announce anything.
ThreadOrder ==
    /\ Down \/ hpc \in {"pool", "driver", "clear"} => thread = "none"
    /\ thread \in {"none", "ended"} => emit["driver"] = Nothing
    /\ emit["host"] # Nothing => hpc = "announce"
    /\ thread \in {"leaving", "ended"} => hpc = "last" /\ state = "Stopped"
    /\ stop_requested /\ thread # "none" => hpc = "last"
    /\ hpc = "driver" => ~ stop_requested

\* Only a thread that handles a message has a call.
CallOrder ==
    \A w \in Threads : call[w] # NoCall => worker[w] \notin {Idle, Exited} /\ worker[w].kind = "message"

Heard == \A o \in watch : seen[o] = "Stopped"

\* While the thread leaves, what it announces is "Stopped", and who has not
\* heard it yet will hear it from that announcement.
SeenOrder ==
    /\ watch \subseteq state_handlers
    /\ thread = "leaving" =>
          /\ emit["driver"] = Nothing \/ emit["driver"].state = "Stopped"
          /\ \A o \in watch : \/ seen[o] = "Stopped"
                              \/ emit["driver"].stage = "changed"
                              \/ emit["driver"].stage = "dispatch" /\ o \in emit["driver"].left
    /\ thread = "ended" \/ hpc = "clear" => Heard
    /\ mstate = "stopped" /\ hpc \in {"idle", "pool"} => Heard

IInv == TypeOK /\ HostOrder /\ PoolOrder /\ ThreadOrder /\ CallOrder /\ SeenOrder

-----------------------------------------------------------------------------
Announcements ==
    [stage : {"none", "changed", "dispatch"}, state : States, left : SUBSET Observers]
CallStates == [stage : {"none", "found", "queued"}, driver : 0 .. MaxStarts]

LEMMA InitInv == Init => IInv
<1> SUFFICES ASSUME Init PROVE IInv
  OBVIOUS
<1>1. TypeOK
  <2>1. queue \in Seq(Tasks)
    BY DEF Init
  <2>2. emit \in [Emitters -> Announcements]
    BY DEF Init, Announcements, Nothing, States
  <2>3. call \in [Callers -> CallStates]
    BY DEF Init, CallStates, NoCall
  <2>4. owed \in [Observers -> Int] /\ seen \in [Observers -> States]
    BY DEF Init, States
  <2>5. worker \in [Threads -> {Idle, Exited} \cup Tasks]
    BY DEF Init
  <2>6. stopping \in BOOLEAN /\ handler \in BOOLEAN /\ stop_requested \in BOOLEAN
    BY DEF Init
  <2>7. starts \in 0 .. MaxStarts /\ driver \in 0 .. MaxStarts /\ moves \in 0 .. MaxMoves /\ calls \in 0 .. MaxCalls
    BY DEF Init
  <2>8. QED BY <2>1, <2>2, <2>3, <2>4, <2>5, <2>6, <2>7 DEF Init, TypeOK, States, Announcements, CallStates
<1>2. HostOrder /\ PoolOrder
  BY DEF Init, HostOrder, PoolOrder, Started, Down, Joined
<1>3. ThreadOrder /\ CallOrder
  BY DEF Init, ThreadOrder, CallOrder, Emitters, Callers, Down
<1>4. SeenOrder
  BY DEF Init, SeenOrder, Heard
<1>5. QED BY <1>1, <1>2, <1>3, <1>4 DEF IInv

-----------------------------------------------------------------------------
(* Types.                                                                  *)

LEMMA TypeLifecycle ==
    ASSUME TypeOK, Lifecycle
    PROVE  TypeOK'
<1>0. 0 \in 0 .. MaxStarts /\ {} \subseteq Observers
  OBVIOUS
<1>1. CASE OnInit
  BY <1>0, <1>1 DEF TypeOK, OnInit, NewPool, conn, events, bus
<1>2. CASE OnStart
  BY <1>2 DEF TypeOK, OnStart, HostStep, NewPool, poolVars, handlers, conn, events, bus
<1>3. CASE OnStop
  BY <1>3 DEF TypeOK, OnStop, HostStep, poolVars, conn, events, bus
<1>4. CASE OnFini
  BY <1>0, <1>4 DEF TypeOK, OnFini, conn, events, bus
<1>5. QED BY <1>1, <1>2, <1>3, <1>4 DEF Lifecycle

LEMMA TypeHost ==
    ASSUME TypeOK, HostOrder, Host, ~ Dispatch("host")
    PROVE  TypeOK'
<1>1. ASSUME NEW s \in States PROVE [emit EXCEPT !["host"] = Changed(s)] \in [Emitters -> Announcements]
  BY DEF TypeOK, Announcements, Changed, Emitters
<1>2. CASE PoolStartFails
  BY <1>2 DEF TypeOK, PoolStartFails, HostStep, poolVars, handlers, conn, events, bus
<1>3. CASE PoolStarts
  <2>1. starts' \in 0 .. MaxStarts
    BY <1>3 DEF TypeOK, HostOrder, PoolStarts, HostStep
  <2>2. QED BY <1>3, <2>1 DEF TypeOK, PoolStarts, Start, HostStep, States, handlers, events, bus
<1>4. CASE StartDriver
  BY <1>1, <1>4 DEF TypeOK, StartDriver, HostStep, States, Announcements, poolVars, handlers, events, bus
<1>5. CASE OnStartReturns
  BY <1>5 DEF TypeOK, OnStartReturns, HostStep, poolVars, handlers, conn, events, bus
<1>6. CASE ShutdownPool
  BY <1>6 DEF TypeOK, ShutdownPool, Shutdown, HostStep, handlers, conn, events, bus
<1>7. CASE PoolStops
  BY <1>7 DEF TypeOK, PoolStops, ShutdownReturns, HostStep, handlers, conn, events, bus
<1>8. CASE StopDriver
  BY <1>8 DEF TypeOK, StopDriver, HostStep, poolVars, handlers, events, bus
<1>9. CASE DriverStopped
  BY <1>1, <1>9 DEF TypeOK, DriverStopped, HostStep, States, Announcements, poolVars, handlers, events, bus
<1>10. CASE OnStopReturns
  BY <1>10 DEF TypeOK, OnStopReturns, HostStep, poolVars, conn, events, bus
<1>11. QED BY <1>2, <1>3, <1>4, <1>5, <1>6, <1>7, <1>8, <1>9, <1>10 DEF Host

LEMMA TypeDispatch ==
    ASSUME TypeOK, NEW t \in Emitters, Dispatch(t)
    PROVE  TypeOK'
<1>1. emit \in [Emitters -> Announcements] /\ emit[t] \in Announcements
  BY DEF TypeOK, Announcements
<1>2. CASE Snapshot(t)
  <2>1. [[emit[t] EXCEPT !.stage = "dispatch"] EXCEPT !.left = state_handlers] \in Announcements
    BY <1>1 DEF TypeOK, Announcements
  <2>2. emit' \in [Emitters -> Announcements]
    BY <1>1, <1>2, <2>1 DEF Snapshot
  <2>3. owed' \in [Observers -> Int]
    BY <1>2 DEF TypeOK, Snapshot, Owe
  <2>4. QED BY <1>2, <2>2, <2>3 DEF TypeOK, Announcements, Snapshot, poolVars, module, handlers, conn, bus
<1>3. CASE Announced(t)
  <2>1. emit' \in [Emitters -> Announcements]
    BY <1>1, <1>3 DEF Announced, Nothing, Announcements, States
  <2>2. QED BY <1>3, <2>1 DEF TypeOK, Announcements, Announced, poolVars, module, handlers, conn, events, bus
<1>4. ASSUME NEW o \in Observers, Served(t, o)
      PROVE  emit' \in [Emitters -> Announcements] /\ emit[t].state \in States
  <2>1. [emit[t] EXCEPT !.left = emit[t].left \ {o}] \in Announcements
    BY <1>1 DEF Announcements
  <2>2. QED BY <1>1, <1>4, <2>1 DEF Served, Announcements
<1>5. ASSUME NEW o \in Observers, SubmitsEvent(t, o) PROVE TypeOK'
  <2>1. Event(o, emit[t].state) \in Tasks
    BY <1>4, <1>5 DEF SubmitsEvent, Event, Tasks
  <2>2. queue' \in Seq(Tasks)
    BY <1>5, <2>1 DEF TypeOK, SubmitsEvent, Submit
  <2>3. emit' \in [Emitters -> Announcements]
    BY <1>4, <1>5 DEF SubmitsEvent
  <2>4. QED BY <1>5, <2>2, <2>3 DEF TypeOK, Announcements, SubmitsEvent, module, handlers, conn, events, bus
<1>6. ASSUME NEW o \in Observers, RunsInline(t, o) PROVE TypeOK'
  <2>1. emit' \in [Emitters -> Announcements] /\ emit[t].state \in States
    BY <1>4, <1>6 DEF RunsInline
  <2>2. owed' \in [Observers -> Int] /\ seen' \in [Observers -> States]
    BY <1>6, <2>1 DEF TypeOK, RunsInline, Handles
  <2>3. QED BY <1>6, <2>1, <2>2 DEF TypeOK, Announcements, RunsInline, poolVars, module, handlers, conn, bus
<1>7. QED BY <1>2, <1>3, <1>5, <1>6 DEF Dispatch

LEMMA TypeDriver ==
    ASSUME TypeOK, Move \/ Deliver \/ Leave \/ ThreadEnds
    PROVE  TypeOK'
<1>1. ASSUME NEW s \in States PROVE [emit EXCEPT !["driver"] = Changed(s)] \in [Emitters -> Announcements]
  BY DEF TypeOK, Announcements, Changed, Emitters
<1>2. CASE Move
  <2>1. moves' \in 0 .. MaxMoves
    BY <1>2 DEF TypeOK, Move
  <2>2. PICK s \in NextStates(state) : state' = s /\ emit' = [emit EXCEPT !["driver"] = Changed(s)]
    BY <1>2, Zenon DEF Move
  <2>3. NextStates(state) \subseteq States
    BY DEF TypeOK, NextStates, States
  <2>4. state' \in States /\ emit' \in [Emitters -> Announcements]
    BY <1>1, <2>2, <2>3
  <2>5. UNCHANGED <<poolVars, module, handlers, thread, stop_requested, events, bus>>
    BY <1>2 DEF Move
  <2>6. QED BY <2>1, <2>4, <2>5 DEF TypeOK, Announcements, poolVars, module, handlers, events, bus
<1>3. CASE Deliver
  <2>1. Message(handler) \in Tasks
    BY DEF TypeOK, Message, Tasks
  <2>2. queue' \in Seq(Tasks)
    <3>1. queue' = queue \o <<Message(handler)>> \/ queue' = queue
      BY <1>3, Zenon DEF Deliver, Submit
    <3>2. queue \in Seq(Tasks) /\ \A m \in Tasks : queue \o <<m>> \in Seq(Tasks)
      BY DEF TypeOK
    <3>3. QED BY <2>1, <3>1, <3>2, Zenon
  <2>3. moves' \in 0 .. MaxMoves
    BY <1>3 DEF TypeOK, Deliver
  <2>4. QED BY <1>3, <2>2, <2>3 DEF TypeOK, Deliver, module, handlers, events, bus
<1>4. CASE Leave
  <2>1. call' \in [Callers -> CallStates]
    BY <1>4 DEF TypeOK, Leave, CallStates, NoCall
  <2>2. QED
    BY <1>1, <1>4, <2>1 DEF TypeOK, Announcements, CallStates, Leave, States, poolVars, module, handlers, events
<1>5. CASE ThreadEnds
  BY <1>5 DEF TypeOK, ThreadEnds, poolVars, module, handlers, events, bus
<1>6. QED BY <1>2, <1>3, <1>4, <1>5

LEMMA TypeCall ==
    ASSUME TypeOK, NEW c \in Callers, Answer(c) \/ Enter(c)
    PROVE  TypeOK'
<1>1. call \in [Callers -> CallStates] /\ call[c] \in CallStates /\ NoCall \in CallStates
  BY DEF TypeOK, CallStates, NoCall
<1>2. [call[c] EXCEPT !.stage = "queued"] \in CallStates
  BY <1>1 DEF CallStates
<1>3. call' \in [Callers -> CallStates]
  BY <1>1, <1>2 DEF Answer, Enter
<1>4. QED
  <2>1. UNCHANGED <<poolVars, module, handlers, conn, emit, events, calls>>
    BY DEF Answer, Enter
  <2>2. QED BY <1>3, <2>1 DEF TypeOK, CallStates, poolVars, module, handlers, conn, events

LEMMA TypeProgram ==
    ASSUME TypeOK, Program
    PROVE  TypeOK'
<1>1. calls' \in 0 .. MaxCalls
  BY DEF TypeOK, Program
<1>2. CASE ClientCalls
  <2>1. call' \in [Callers -> CallStates]
    BY <1>2 DEF TypeOK, ClientCalls, LookupDriver, CallStates, Callers
  <2>2. QED BY <1>1, <1>2, <2>1 DEF TypeOK, CallStates, ClientCalls, poolVars, module, handlers, conn, events
<1>3. CASE RegisterConsumerHandler \/ UnregisterConsumerHandler
  <2>1. handler' \in BOOLEAN
    BY <1>3 DEF RegisterConsumerHandler, UnregisterConsumerHandler
  <2>2. UNCHANGED <<poolVars, module, state_handlers, watch, conn, emit, events, call>>
    BY <1>3 DEF RegisterConsumerHandler, UnregisterConsumerHandler
  <2>3. QED BY <1>1, <2>1, <2>2 DEF TypeOK, poolVars, module, conn, events
<1>4. CASE \E o \in Observers : RegisterConnectionStateHandler(o) \/ UnregisterConnectionStateHandler(o)
  BY <1>1, <1>4 DEF TypeOK, RegisterConnectionStateHandler, UnregisterConnectionStateHandler, poolVars,
                    module, conn, events
<1>5. QED BY <1>2, <1>3, <1>4 DEF Program

LEMMA TypePool ==
    ASSUME TypeOK, NEW w \in Threads, PoolThread(w)
    PROVE  TypeOK'
<1>1. worker \in [Threads -> {Idle, Exited} \cup Tasks]
  BY DEF TypeOK
<1>2. CASE TakeTask(w)
  <2>1. Head(queue) \in Tasks /\ Tail(queue) \in Seq(Tasks)
    BY <1>2 DEF TypeOK, TakeTask, Take
  <2>2. QED BY <1>2, <2>1 DEF TypeOK, TakeTask, Take, module, handlers, conn, events, bus
<1>3. CASE ThreadExits(w)
  BY <1>3 DEF TypeOK, ThreadExits, Exit, module, handlers, conn, events, bus
<1>4. CASE RunEvent(w)
  <2>1. worker[w] \in Tasks /\ worker[w].kind = "event"
    BY <1>1, <1>4 DEF RunEvent, Busy
  <2>2. worker[w].observer \in Observers /\ worker[w].state \in States
    BY <2>1 DEF Tasks
  <2>3. owed' \in [Observers -> Int] /\ seen' \in [Observers -> States]
    BY <1>4, <2>2 DEF TypeOK, RunEvent, Handles
  <2>4. QED BY <1>4, <2>3 DEF TypeOK, RunEvent, Finished, module, handlers, conn, bus
<1>5. CASE MessageCalls(w)
  <2>1. worker[w] \in Tasks /\ worker[w].kind = "message"
    BY <1>1, <1>5 DEF MessageCalls, Busy
  <2>2. [worker[w] EXCEPT !.called = TRUE] \in Tasks
    BY <2>1 DEF Tasks
  <2>3. worker' \in [Threads -> {Idle, Exited} \cup Tasks]
    BY <1>1, <1>5, <2>2 DEF MessageCalls
  <2>4. call' \in [Callers -> CallStates]
    BY <1>5 DEF TypeOK, MessageCalls, LookupDriver, CallStates, Callers
  <2>5. QED BY <1>5, <2>3, <2>4 DEF TypeOK, CallStates, MessageCalls, module, handlers, conn, events
<1>6. CASE MessageDone(w)
  BY <1>6 DEF TypeOK, MessageDone, Finished, module, handlers, conn, events, bus
<1>7. QED BY <1>2, <1>3, <1>4, <1>5, <1>6 DEF PoolThread

LEMMA TypeNext ==
    ASSUME TypeOK, HostOrder, [Next]_vars
    PROVE  TypeOK'
<1>1. CASE Host
  BY <1>1, TypeHost, TypeDispatch DEF Host, Emitters
<1>2. CASE DriverThread
  BY <1>2, TypeDriver, TypeDispatch, TypeCall DEF DriverThread, TurnsDown, Emitters
<1>3. CASE Lifecycle \/ Program \/ Move \/ Deliver
  BY <1>3, TypeLifecycle, TypeProgram, TypeDriver
<1>4. CASE (\E c \in Callers : Enter(c) \/ Replies(c)) \/ (\E w \in Threads : PoolThread(w))
  BY <1>4, TypeCall, TypePool DEF Replies
<1>5. CASE UNCHANGED vars
  BY <1>5 DEF TypeOK, vars, poolVars, module, handlers, conn, events, bus
<1>6. QED BY <1>1, <1>2, <1>3, <1>4, <1>5 DEF Next

-----------------------------------------------------------------------------
(* The order of the host, the pool and the thread of the driver.  Most     *)
(* steps touch few of the variables it speaks of.                          *)

\* Neither the host nor the state of the pool moves.
Aside == UNCHANGED <<hpc, mstate, stopping, pool, starts>>

LEMMA AsideOrder ==
    ASSUME HostOrder, Aside
    PROVE  HostOrder'
BY DEF HostOrder, Aside, Started, Down

LEMMA Asides ==
    /\ \A t \in Emitters : Dispatch(t) => Aside /\ UNCHANGED <<worker, handlers, conn, bus>>
    /\ Move \/ Deliver \/ Leave \/ ThreadEnds => Aside /\ UNCHANGED <<worker, handlers, events, calls>>
    /\ \A c \in Callers : Answer(c) \/ Enter(c) =>
           Aside /\ UNCHANGED <<queue, worker, handlers, conn, emit, events>>
    /\ Program => Aside /\ UNCHANGED <<queue, worker, conn, emit, events>>
    /\ \A w \in Threads : PoolThread(w) => Aside /\ UNCHANGED <<handlers, conn, emit>>
<1>1. ASSUME NEW t \in Emitters, Dispatch(t)
      PROVE  Aside /\ UNCHANGED <<worker, handlers, conn, bus>>
  BY <1>1 DEF Dispatch, Snapshot, Announced, SubmitsEvent, RunsInline, Aside, poolVars, module
<1>2. ASSUME Move \/ Deliver \/ Leave \/ ThreadEnds
      PROVE  Aside /\ UNCHANGED <<worker, handlers, events, calls>>
  BY <1>2 DEF Move, Deliver, Leave, ThreadEnds, Aside, poolVars, module, bus
<1>3. ASSUME NEW c \in Callers, Answer(c) \/ Enter(c)
      PROVE  Aside /\ UNCHANGED <<queue, worker, handlers, conn, emit, events>>
  BY <1>3 DEF Answer, Enter, Aside, poolVars, module
<1>4. ASSUME Program
      PROVE  Aside /\ UNCHANGED <<queue, worker, conn, emit, events>>
  BY <1>4 DEF Program, ClientCalls, RegisterConsumerHandler, UnregisterConsumerHandler,
              RegisterConnectionStateHandler, UnregisterConnectionStateHandler, Aside, poolVars, module
<1>5. ASSUME NEW w \in Threads, PoolThread(w)
      PROVE  Aside /\ UNCHANGED <<handlers, conn, emit>>
  BY <1>5 DEF PoolThread, TakeTask, Take, ThreadExits, Exit, RunEvent, MessageCalls, MessageDone, Aside, module
<1>6. QED BY <1>1, <1>2, <1>3, <1>4, <1>5

LEMMA Announces ==
    ASSUME NEW t \in Emitters, Dispatch(t)
    PROVE  emit[t] # Nothing
<1>1. emit[t].stage \in {"changed", "dispatch"}
  <2>1. CASE Snapshot(t) \/ Announced(t)
    BY <2>1 DEF Snapshot, Announced
  <2>2. ASSUME NEW o \in Observers, SubmitsEvent(t, o) \/ RunsInline(t, o) PROVE emit[t].stage = "dispatch"
    BY <2>2 DEF SubmitsEvent, RunsInline, Served
  <2>3. QED BY <2>1, <2>2 DEF Dispatch
<1>2. Nothing.stage = "none"
  BY DEF Nothing
<1>3. QED BY <1>1, <1>2

LEMMA HostOrderNext ==
    ASSUME TypeOK, HostOrder, ThreadOrder, [Next]_vars
    PROVE  HostOrder'
<1>1. CASE Lifecycle
  <2>1. CASE OnInit
    BY <1>1, <2>1 DEF TypeOK, HostOrder, Started, Down, OnInit, NewPool
  <2>2. CASE OnStart
    BY <1>1, <2>2 DEF TypeOK, HostOrder, Started, Down, OnStart, HostStep, NewPool, poolVars
  <2>3. CASE OnStop
    BY <1>1, <2>3 DEF TypeOK, HostOrder, Started, Down, OnStop, HostStep, poolVars
  <2>4. CASE OnFini
    BY <1>1, <2>4 DEF TypeOK, HostOrder, Started, Down, OnFini
  <2>5. QED BY <1>1, <2>1, <2>2, <2>3, <2>4 DEF Lifecycle
<1>2. CASE PoolStartFails \/ PoolStarts \/ StartDriver \/ OnStartReturns
  BY <1>2 DEF TypeOK, HostOrder, Started, Down, HostStep, PoolStartFails, PoolStarts, Start, StartDriver,
              OnStartReturns, poolVars
<1>3. CASE ShutdownPool \/ PoolStops \/ StopDriver \/ DriverStopped \/ OnStopReturns
  BY <1>3 DEF TypeOK, HostOrder, Started, Down, HostStep, ShutdownPool, Shutdown, PoolStops, ShutdownReturns,
              StopDriver, DriverStopped, OnStopReturns, poolVars
<1>4. CASE Dispatch("host") \/ DriverThread \/ Move \/ Deliver \/ Program
           \/ (\E c \in Callers : Enter(c) \/ Replies(c)) \/ (\E w \in Threads : PoolThread(w))
  <2>1. Aside
    BY <1>4, Asides DEF DriverThread, TurnsDown, Replies, Emitters
  <2>2. QED BY <2>1, AsideOrder
<1>5. CASE UNCHANGED vars
  BY <1>5, AsideOrder DEF vars, poolVars, module, Aside
<1>6. QED BY <1>1, <1>2, <1>3, <1>4, <1>5 DEF Next, Host

LEMMA PoolOrderNext ==
    ASSUME TypeOK, HostOrder, PoolOrder, [Next]_vars
    PROVE  PoolOrder'
<1>1. CASE Lifecycle
  BY <1>1 DEF TypeOK, HostOrder, PoolOrder, Joined, Started, Down, Lifecycle, OnInit, OnStart, OnStop, OnFini, HostStep,
              NewPool, poolVars
<1>2. CASE Host /\ ~ Dispatch("host")
  <2>1. CASE PoolStarts
    BY <2>1 DEF PoolOrder, Joined, PoolStarts, Start
  <2>2. CASE ShutdownPool \/ PoolStops
    BY <2>2 DEF TypeOK, HostOrder, PoolOrder, Joined, HostStep, ShutdownPool, Shutdown, PoolStops, ShutdownReturns
  <2>3. CASE PoolStartFails \/ StartDriver \/ OnStartReturns \/ StopDriver \/ DriverStopped \/ OnStopReturns
    BY <2>3 DEF PoolOrder, Joined, PoolStartFails, StartDriver, OnStartReturns, StopDriver, DriverStopped,
                OnStopReturns, poolVars
  <2>4. QED BY <1>2, <2>1, <2>2, <2>3 DEF Host
<1>3. CASE Dispatch("host") \/ DriverThread \/ Move \/ Deliver \/ Program \/ (\E c \in Callers : Enter(c) \/ Replies(c))
  <2>1. worker' = worker /\ pool' = pool
    BY <1>3, Asides DEF DriverThread, TurnsDown, Replies, Aside, Emitters
  <2>2. queue' = queue \/ pool = "running"
    BY <1>3 DEF Dispatch, Snapshot, Announced, SubmitsEvent, RunsInline, DriverThread, TurnsDown, Replies, Answer, Leave, ThreadEnds,
                Move, Deliver, Program, ClientCalls, RegisterConsumerHandler, UnregisterConsumerHandler,
                RegisterConnectionStateHandler, UnregisterConnectionStateHandler, Enter, Accepts, poolVars
  <2>3. QED BY <2>1, <2>2 DEF PoolOrder, Joined
<1>4. ASSUME NEW w \in Threads, PoolThread(w) PROVE PoolOrder'
  <2>1. pool' = pool /\ worker \in [Threads -> {Idle, Exited} \cup Tasks]
    BY <1>4, Asides DEF Aside, TypeOK
  <2>2. CASE TakeTask(w)
    <3>1. Head(queue) \in Tasks
      BY <2>2 DEF TypeOK, TakeTask, Take
    <3>2. QED BY <2>1, <2>2, <3>1 DEF PoolOrder, Joined, TakeTask, Take
  <2>3. CASE ThreadExits(w)
    BY <2>1, <2>3 DEF PoolOrder, Joined, ThreadExits, Exit
  <2>4. CASE RunEvent(w) \/ MessageCalls(w) \/ MessageDone(w)
    <3>1. queue' = queue /\ worker[w] # Exited /\ worker[w] \in Tasks
      BY <2>1, <2>4 DEF RunEvent, MessageCalls, MessageDone, Busy
    <3>2. \E v : v # Exited /\ worker' = [worker EXCEPT ![w] = v]
      <4>1. CASE RunEvent(w) \/ MessageDone(w)
        BY <4>1 DEF RunEvent, MessageDone, Finished
      <4>2. CASE MessageCalls(w)
        <5>1. [worker[w] EXCEPT !.called = TRUE] \in Tasks
          BY <3>1, <4>2 DEF MessageCalls, Busy, Tasks
        <5>2. worker' = [worker EXCEPT ![w] = [worker[w] EXCEPT !.called = TRUE]]
          BY <4>2 DEF MessageCalls
        <5>3. QED BY <5>1, <5>2
      <4>3. QED BY <2>4, <4>1, <4>2
    <3>3. QED BY <2>1, <3>1, <3>2 DEF PoolOrder, Joined
  <2>5. QED BY <1>4, <2>2, <2>3, <2>4 DEF PoolThread
<1>5. CASE UNCHANGED vars
  BY <1>5 DEF PoolOrder, Joined, vars, poolVars
<1>6. QED BY <1>1, <1>2, <1>3, <1>4, <1>5 DEF Next, Host

LEMMA ThreadOrderNext ==
    ASSUME TypeOK, HostOrder, ThreadOrder, [Next]_vars
    PROVE  ThreadOrder'
<1>1. CASE Lifecycle
  BY <1>1 DEF TypeOK, ThreadOrder, Down, Lifecycle, OnInit, OnStart, OnStop, OnFini, HostStep, conn
<1>2. CASE Host /\ ~ Dispatch("host")
  <2>1. CASE PoolStartFails \/ PoolStarts
    BY <2>1 DEF TypeOK, HostOrder, ThreadOrder, Down, HostStep, PoolStartFails, PoolStarts, conn
  <2>2. CASE StartDriver
    BY <2>2 DEF TypeOK, ThreadOrder, Down, HostStep, StartDriver, Emitters
  <2>3. CASE OnStartReturns \/ ShutdownPool \/ PoolStops
    BY <2>3 DEF TypeOK, HostOrder, ThreadOrder, Down, HostStep, OnStartReturns, ShutdownPool, PoolStops, conn
  <2>4. CASE StopDriver
    BY <2>4 DEF TypeOK, ThreadOrder, Down, HostStep, StopDriver
  <2>5. CASE DriverStopped
    BY <2>5 DEF TypeOK, ThreadOrder, Down, HostStep, DriverStopped
  <2>6. CASE OnStopReturns
    BY <2>6 DEF TypeOK, ThreadOrder, Down, HostStep, OnStopReturns, conn
  <2>7. QED BY <1>2, <2>1, <2>2, <2>3, <2>4, <2>5, <2>6 DEF Host
<1>3. ASSUME NEW t \in Emitters, Dispatch(t) PROVE ThreadOrder'
  <2>1. UNCHANGED <<hpc, mstate, state, thread, stop_requested>>
    BY <1>3, Asides DEF Aside, conn
  <2>2. emit[t] # Nothing
    BY <1>3, Announces
  <2>3. \E v : emit' = [emit EXCEPT ![t] = v]
    BY <1>3 DEF Dispatch, Snapshot, Announced, SubmitsEvent, RunsInline, Served
  <2>4. \A u \in Emitters \ {t} : emit'[u] = emit[u]
    BY <2>3 DEF TypeOK
  <2>5. QED BY <1>3, <2>1, <2>2, <2>4 DEF ThreadOrder, Down, Emitters
<1>4. CASE Move \/ Deliver \/ Leave \/ ThreadEnds
  <2>1. UNCHANGED <<hpc, mstate>>
    BY <1>4, Asides DEF Aside
  <2>2. CASE Move
    BY <2>1, <2>2 DEF TypeOK, ThreadOrder, Down, Free, Move, Emitters
  <2>3. CASE Deliver
    BY <2>1, <2>3 DEF ThreadOrder, Down, Deliver
  <2>4. CASE Leave
    BY <2>1, <2>4 DEF TypeOK, ThreadOrder, Down, Free, Leave, Emitters
  <2>5. CASE ThreadEnds
    BY <2>1, <2>5 DEF ThreadOrder, Down, ThreadEnds
  <2>6. QED BY <1>4, <2>2, <2>3, <2>4, <2>5
<1>5. CASE Program \/ (\E c \in Callers : Enter(c) \/ Answer(c)) \/ (\E w \in Threads : PoolThread(w))
  <2>1. UNCHANGED <<hpc, mstate, conn, emit>>
    BY <1>5, Asides DEF Aside
  <2>2. QED BY <2>1 DEF ThreadOrder, Down, conn
<1>6. CASE UNCHANGED vars
  BY <1>6 DEF ThreadOrder, Down, vars, module, conn
<1>7. QED BY <1>1, <1>2, <1>3, <1>4, <1>5, <1>6 DEF Next, Host, DriverThread, TurnsDown, Replies, Emitters

LEMMA CallOrderNext ==
    ASSUME TypeOK, HostOrder, PoolOrder, CallOrder, [Next]_vars
    PROVE  CallOrder'
<1>1. CASE UNCHANGED <<call, worker>>
  BY <1>1 DEF CallOrder
<1>2. CASE PoolStarts
  <2>1. \A w \in Threads : worker[w] = Exited /\ call[w] = NoCall
    BY <1>2 DEF HostOrder, PoolOrder, Joined, CallOrder, PoolStarts, HostStep
  <2>2. call' = call
    BY <1>2 DEF PoolStarts, bus
  <2>3. QED BY <2>1, <2>2 DEF CallOrder
<1>3. ASSUME NEW c \in Callers, Answer(c) \/ Enter(c) PROVE CallOrder'
  <2>1. worker' = worker
    BY <1>3, Asides
  <2>2. call[c] # NoCall /\ \A w \in Callers \ {c} : call'[w] = call[w]
    BY <1>3 DEF TypeOK, Answer, Enter, NoCall
  <2>3. QED BY <2>1, <2>2 DEF CallOrder, Callers
<1>4. CASE ClientCalls
  BY <1>4 DEF TypeOK, CallOrder, ClientCalls, LookupDriver, Callers, poolVars
<1>5. ASSUME NEW w \in Threads, PoolThread(w) PROVE CallOrder'
  <2>1. /\ worker \in [Threads -> {Idle, Exited} \cup Tasks]
        /\ call \in [Callers -> CallStates] /\ Threads \subseteq Callers
    BY DEF TypeOK, CallStates, Callers
  <2>2. CASE TakeTask(w) \/ ThreadExits(w)
    BY <2>1, <2>2 DEF CallOrder, TakeTask, Take, ThreadExits, Exit, bus
  <2>3. CASE RunEvent(w)
    BY <2>1, <2>3 DEF CallOrder, RunEvent, Busy, Finished, bus
  <2>4. CASE MessageDone(w)
    BY <2>1, <2>4 DEF CallOrder, MessageDone, Finished, bus
  <2>5. CASE MessageCalls(w)
    <3>1. worker[w] \in Tasks /\ worker[w].kind = "message"
      BY <2>1, <2>5 DEF MessageCalls, Busy
    <3>2. /\ [worker[w] EXCEPT !.called = TRUE] \in Tasks
          /\ [worker[w] EXCEPT !.called = TRUE].kind = "message"
      BY <3>1 DEF Tasks
    <3>3. worker' = [worker EXCEPT ![w] = [worker[w] EXCEPT !.called = TRUE]]
      BY <2>5 DEF MessageCalls
    <3>4. worker'[w] \notin {Idle, Exited} /\ worker'[w].kind = "message"
      BY <2>1, <3>2, <3>3
    <3>5. ASSUME NEW v \in Threads \ {w} PROVE worker'[v] = worker[v] /\ call'[v] = call[v]
      BY <2>1, <2>5, <3>3, <3>5 DEF MessageCalls, LookupDriver
    <3>6. QED BY <3>4, <3>5 DEF CallOrder
  <2>6. QED BY <1>5, <2>2, <2>3, <2>4, <2>5 DEF PoolThread
<1>6. CASE Lifecycle \/ (Host /\ ~ PoolStarts) \/ (Program /\ ~ ClientCalls) \/ Move \/ Deliver \/ DriverThread
           \/ (\E c \in Callers : Replies(c))
  <2>1. CASE Lifecycle
    BY <1>1, <2>1 DEF Lifecycle, OnInit, OnStart, OnStop, OnFini, NewPool, poolVars, bus
  <2>2. CASE Host /\ ~ PoolStarts /\ ~ Dispatch("host")
    BY <1>1, <2>2 DEF Host, PoolStartFails, StartDriver, OnStartReturns, ShutdownPool, Shutdown, PoolStops,
                      ShutdownReturns, StopDriver, DriverStopped, OnStopReturns, poolVars, bus
  <2>3. CASE Program /\ ~ ClientCalls
    BY <1>1, <2>3 DEF Program, RegisterConsumerHandler, UnregisterConsumerHandler,
                      RegisterConnectionStateHandler, UnregisterConnectionStateHandler, poolVars
  <2>4. CASE Move \/ Deliver \/ ThreadEnds \/ (\E t \in Emitters : Dispatch(t))
    BY <1>1, <2>4, Asides DEF Move, Deliver, ThreadEnds, bus
  <2>5. CASE Leave
    <3>1. worker' = worker /\ Threads \subseteq Callers
      BY <2>5, Asides DEF Callers
    <3>2. \A w \in Threads : call'[w] # NoCall => call[w] # NoCall
      BY <2>5, <3>1 DEF Leave
    <3>3. QED BY <3>1, <3>2 DEF CallOrder
  <2>6. QED BY <1>3, <1>6, <2>1, <2>2, <2>3, <2>4, <2>5 DEF Host, DriverThread, TurnsDown, Replies, Emitters
<1>7. CASE UNCHANGED vars
  BY <1>1, <1>7 DEF vars, poolVars, bus
<1>8. QED BY <1>2, <1>3, <1>4, <1>5, <1>6, <1>7 DEF Next

-----------------------------------------------------------------------------
(* What the observers have heard.                                          *)

\* Steps that touch none of what SeenOrder speaks of but the thread, which stays.
LEMMA SeenSame ==
    ASSUME SeenOrder, UNCHANGED <<hpc, mstate, thread, emit, seen, watch>>,
           watch' \subseteq state_handlers'
    PROVE  SeenOrder'
BY DEF SeenOrder, Heard

LEMMA SeenOrderNext ==
    ASSUME IInv, [Next]_vars
    PROVE  SeenOrder'
<1>1. CASE Lifecycle
  <2>1. thread' = thread /\ emit' = emit /\ seen' = seen
    BY <1>1 DEF Lifecycle, OnInit, OnStart, OnStop, OnFini, conn, events
  <2>2. thread # "leaving" /\ thread # "ended"
    BY <1>1 DEF IInv, ThreadOrder, Lifecycle, OnInit, OnStart, OnStop, OnFini, HostStep
  <2>3. CASE OnInit \/ OnFini
    BY <2>1, <2>2, <2>3 DEF SeenOrder, Heard, OnInit, OnFini
  <2>4. CASE OnStart
    BY <2>1, <2>2, <2>4 DEF IInv, SeenOrder, Heard, OnStart, HostStep, handlers
  <2>5. CASE OnStop
    BY <2>1, <2>2, <2>5 DEF IInv, SeenOrder, Heard, OnStop, HostStep
  <2>6. QED BY <1>1, <2>3, <2>4, <2>5 DEF Lifecycle
<1>2. CASE Host /\ ~ Dispatch("host")
  <2>1. CASE PoolStartFails \/ PoolStarts \/ StartDriver
    BY <2>1 DEF IInv, HostOrder, ThreadOrder, SeenOrder, Heard, HostStep, PoolStartFails, PoolStarts, StartDriver,
                handlers, conn, events
  <2>2. CASE OnStartReturns \/ ShutdownPool \/ PoolStops \/ StopDriver
    BY <2>2 DEF IInv, HostOrder, ThreadOrder, SeenOrder, Heard, HostStep, OnStartReturns, ShutdownPool, PoolStops,
                StopDriver, handlers, conn, events
  <2>3. CASE DriverStopped \/ OnStopReturns
    BY <2>3 DEF IInv, HostOrder, ThreadOrder, SeenOrder, Heard, HostStep, DriverStopped, OnStopReturns,
                handlers, conn, events
  <2>4. QED BY <1>2, <2>1, <2>2, <2>3 DEF Host
<1>3. ASSUME NEW t \in Emitters, Dispatch(t) PROVE SeenOrder'
  <2>1. UNCHANGED <<hpc, mstate, thread, watch, state_handlers>>
    BY <1>3, Asides DEF Aside, conn, handlers
  <2>2. emit[t] # Nothing
    BY <1>3, Announces
  <2>3. thread # "ended" /\ hpc # "clear" /\ ~(mstate = "stopped" /\ hpc \in {"idle", "pool"})
    BY <2>2 DEF IInv, ThreadOrder, Down, Emitters
  <2>4. CASE thread # "leaving"
    BY <2>1, <2>3, <2>4 DEF IInv, SeenOrder, Heard
  <2>5. CASE thread = "leaving"
    <3>1. t = "driver" /\ pool = "stopped"
      BY <2>2, <2>5 DEF IInv, HostOrder, ThreadOrder, Emitters
    <3>2. emit \in [Emitters -> Announcements] /\ "driver" \in Emitters /\ emit["driver"].state = "Stopped"
      BY <2>2, <2>5, <3>1 DEF IInv, TypeOK, SeenOrder, Announcements, Emitters
    <3>3. CASE Snapshot(t)
      <4>1. /\ emit'["driver"].state = "Stopped"
            /\ emit'["driver"].stage = "dispatch" /\ emit'["driver"].left = state_handlers
        BY <3>1, <3>2, <3>3 DEF Snapshot, Announcements
      <4>2. seen' = seen
        BY <3>3 DEF Snapshot
      <4>3. QED BY <2>1, <2>3, <4>1, <4>2 DEF IInv, SeenOrder, Heard
    <3>4. CASE Announced(t)
      <4>1. emit'["driver"] = Nothing /\ seen' = seen
        BY <3>1, <3>2, <3>4 DEF Announced, events
      <4>2. \A o \in watch : seen[o] = "Stopped"
        BY <2>5, <3>1, <3>4 DEF IInv, SeenOrder, Announced
      <4>3. QED BY <2>1, <2>3, <4>1, <4>2 DEF IInv, SeenOrder, Heard
    <3>5. ASSUME NEW o \in Observers, RunsInline(t, o) PROVE SeenOrder'
      <4>1. /\ emit'["driver"].state = "Stopped"
            /\ emit'["driver"].stage = "dispatch" /\ emit'["driver"].left = emit["driver"].left \ {o}
            /\ emit["driver"].stage = "dispatch"
        BY <3>1, <3>2, <3>5 DEF RunsInline, Served, Announcements
      <4>2. seen \in [Observers -> States] /\ seen' = [seen EXCEPT ![o] = "Stopped"]
        BY <3>1, <3>2, <3>5 DEF IInv, TypeOK, RunsInline, Handles
      <4>3. watch \subseteq Observers
        BY DEF IInv, TypeOK
      <4>4. QED BY <2>1, <2>3, <2>5, <4>1, <4>2, <4>3 DEF IInv, SeenOrder, Heard
    <3>6. ASSUME NEW o \in Observers, SubmitsEvent(t, o) PROVE FALSE
      BY <3>1, <3>6 DEF SubmitsEvent, Accepts
    <3>7. QED BY <1>3, <3>3, <3>4, <3>5, <3>6 DEF Dispatch
  <2>6. QED BY <2>4, <2>5
<1>4. CASE Move \/ Deliver \/ Leave \/ ThreadEnds
  <2>1. UNCHANGED <<hpc, mstate, watch, state_handlers, seen>>
    BY <1>4, Asides DEF Aside, handlers, events
  <2>2. CASE Move
    <3>1. thread = "running" /\ thread' = "running"
      BY <2>2 DEF Move, Free
    <3>2. QED BY <2>1, <3>1 DEF IInv, SeenOrder, Heard
  <2>3. CASE Deliver
    <3>1. thread = "running" /\ thread' = "running"
      BY <2>3 DEF Deliver, Free
    <3>2. QED BY <2>1, <3>1 DEF IInv, SeenOrder, Heard
  <2>4. CASE Leave
    <3>1. emit'["driver"] = Changed("Stopped") /\ thread = "running" /\ thread' = "leaving"
      BY <2>4 DEF IInv, TypeOK, Leave, Free, Emitters
    <3>2. QED BY <2>1, <3>1 DEF IInv, SeenOrder, Heard, Changed
  <2>5. CASE ThreadEnds
    <3>1. \A o \in watch : seen[o] = "Stopped"
      BY <2>5 DEF IInv, SeenOrder, ThreadEnds, Nothing
    <3>2. QED BY <2>1, <2>5, <3>1 DEF IInv, SeenOrder, Heard, ThreadEnds
  <2>6. QED BY <1>4, <2>2, <2>3, <2>4, <2>5
<1>5. CASE \E c \in Callers : Enter(c) \/ Answer(c)
  BY <1>5, Asides, SeenSame DEF IInv, SeenOrder, Aside, handlers, conn, events
<1>6. CASE Program
  <2>1. UNCHANGED <<hpc, mstate, thread, emit, seen>>
    BY <1>6, Asides DEF Aside, conn, events
  <2>2. CASE ClientCalls \/ RegisterConsumerHandler \/ UnregisterConsumerHandler
             \/ (\E o \in Observers : RegisterConnectionStateHandler(o))
    <3>1. watch' = watch /\ state_handlers \subseteq state_handlers'
      BY <2>2 DEF ClientCalls, RegisterConsumerHandler, UnregisterConsumerHandler,
                  RegisterConnectionStateHandler, handlers
    <3>2. QED BY <2>1, <3>1, SeenSame DEF IInv, SeenOrder
  <2>3. ASSUME NEW o \in Observers, UnregisterConnectionStateHandler(o) PROVE SeenOrder'
    <3>1. watch' = watch \ {o} /\ state_handlers' = state_handlers \ {o}
      BY <2>3 DEF UnregisterConnectionStateHandler
    <3>2. QED BY <2>1, <3>1 DEF IInv, SeenOrder, Heard
  <2>4. QED BY <1>6, <2>2, <2>3 DEF Program
<1>7. ASSUME NEW w \in Threads, PoolThread(w) PROVE SeenOrder'
  <2>1. UNCHANGED <<hpc, mstate, thread, emit, watch, state_handlers>>
    BY <1>7, Asides DEF Aside, handlers, conn
  <2>2. CASE RunEvent(w)
    <3>1. worker[w] # Exited
      BY <2>2 DEF RunEvent, Busy
    <3>2. pool \notin {"created", "stopped"}
      BY <3>1 DEF IInv, PoolOrder, Joined
    <3>3. /\ thread \notin {"leaving", "ended"} /\ hpc # "clear"
          /\ ~(mstate = "stopped" /\ hpc \in {"idle", "pool"})
      BY <3>2 DEF IInv, HostOrder, ThreadOrder, Down
    <3>4. QED BY <2>1, <3>3 DEF IInv, SeenOrder, Heard
  <2>3. CASE ~ RunEvent(w)
    <3>1. seen' = seen
      BY <1>7, <2>3 DEF PoolThread, TakeTask, ThreadExits, MessageCalls, MessageDone, events
    <3>2. QED BY <2>1, <3>1, SeenSame DEF IInv, SeenOrder
  <2>4. QED BY <2>2, <2>3
<1>8. CASE UNCHANGED vars
  BY <1>8, SeenSame DEF IInv, SeenOrder, vars, module, handlers, conn, events
<1>9. QED
  BY <1>1, <1>2, <1>3, <1>4, <1>5, <1>6, <1>7, <1>8 DEF Next, Host, DriverThread, TurnsDown, Replies, Emitters

-----------------------------------------------------------------------------
LEMMA NextInv == IInv /\ [Next]_vars => IInv'
<1> SUFFICES ASSUME IInv, [Next]_vars PROVE IInv'
  OBVIOUS
<1>1. TypeOK' /\ HostOrder' /\ PoolOrder'
  BY TypeNext, HostOrderNext, PoolOrderNext DEF IInv
<1>2. ThreadOrder' /\ CallOrder' /\ SeenOrder'
  BY ThreadOrderNext, CallOrderNext, SeenOrderNext DEF IInv
<1>3. QED BY <1>1, <1>2 DEF IInv

\* The variables keep their types: a caller, an emitter and a pool thread are
\* always in a stage the code has, and the queue holds only tasks of the
\* module (handlers of one announcement or of one message).
THEOREM TypeCorrect == Spec => []TypeOK
<1>1. IInv => TypeOK
  BY DEF IInv
<1>2. QED BY <1>1, InitInv, NextInv, PTL DEF Spec

\* AmqpBusModule::OnStop leaves no thread, no task and no call behind, and
\* every observer that was there when it began has heard "Stopped" last.
THEOREM StopIsAlwaysComplete == Spec => []StopIsComplete
<1>1. IInv => StopIsComplete
  <2> SUFFICES ASSUME IInv, hpc = "idle", mstate = "stopped"
               PROVE  /\ thread = "none" /\ Joined /\ queue = <<>>
                      /\ \A t \in Emitters : emit[t] = Nothing
                      /\ \A w \in Threads : call[w] = NoCall
                      /\ \A o \in watch : seen[o] = "Stopped"
    BY DEF StopIsComplete
  <2>1. Joined /\ queue = <<>>
    BY DEF IInv, HostOrder, PoolOrder, Down
  <2>2. thread = "none" /\ \A t \in Emitters : emit[t] = Nothing
    BY DEF IInv, ThreadOrder, Down, Emitters
  <2>3. \A w \in Threads : call[w] = NoCall
    BY <2>1 DEF IInv, CallOrder, Joined
  <2>4. \A o \in watch : seen[o] = "Stopped"
    BY DEF IInv, SeenOrder, Heard
  <2>5. QED BY <2>1, <2>2, <2>3, <2>4
<1>2. QED BY <1>1, InitInv, NextInv, PTL DEF Spec

\* A state handler runs on the announcing thread only while the module stops:
\* the comment in DispatchConnectionStateChange is true of every execution.
THEOREM InlineOnlyInStop == Spec => InlineOnlyWhenStopping
<1>1. ASSUME IInv, NEW t \in Emitters, NEW o \in Observers, RunsInline(t, o)
      PROVE  stopping
  <2>1. emit[t] # Nothing /\ pool # "running"
    BY <1>1 DEF RunsInline, Served, Nothing, Accepts
  <2>2. ~ Down /\ hpc \notin {"pool", "driver"}
    BY <1>1, <2>1 DEF IInv, ThreadOrder, Down, Emitters
  <2>3. ~ Started /\ hpc # "announce"
    BY <1>1, <2>1 DEF IInv, HostOrder
  <2>4. QED BY <1>1, <2>2, <2>3 DEF IInv, TypeOK, HostOrder, Started, Down
<1>2. IInv => [\A t \in Emitters, o \in Observers : RunsInline(t, o) => stopping]_vars
  BY <1>1
<1>3. QED BY <1>2, InitInv, NextInv, PTL DEF Spec, InlineOnlyWhenStopping

-----------------------------------------------------------------------------
(* No state change is lost.                                                *)

\* The three places where a state change waits for an observer.
InQueue(o, q)   == {i \in DOMAIN q : IsFor(o, q[i])}
AtThreads(o, f) == {w \in Threads : IsFor(o, f[w])}
LeftBy(o, e)    == {t \in Emitters : o \in e[t].left}

In(x, S)  == IF x \in S THEN 1 ELSE 0
One(o, t) == IF IsFor(o, t) THEN 1 ELSE 0

\* What has been announced is handed out from the moment the handlers are copied.
LeftOrder == \A t \in Emitters : emit[t].stage # "dispatch" => emit[t].left = {}

Accounted == \A o \in Observers : owed[o] = Pending(o)

\* Two sets that differ in one element at most.
LEMMA Differs ==
    ASSUME NEW S, NEW T, NEW x, IsFiniteSet(S), S \ {x} = T \ {x}
    PROVE  /\ IsFiniteSet(T) /\ Cardinality(S) \in Nat /\ Cardinality(T) \in Nat
           /\ Cardinality(T) = Cardinality(S) - In(x, S) + In(x, T)
<1>1. IsFiniteSet(T)
  <2>1. IsFiniteSet(T \ {x}) /\ IsFiniteSet((T \ {x}) \cup {x})
    BY FS_RemoveElement, FS_AddElement
  <2>2. T \subseteq (T \ {x}) \cup {x}
    OBVIOUS
  <2>3. QED BY <2>1, <2>2, FS_Subset
<1>2. Cardinality(S) \in Nat /\ Cardinality(T) \in Nat
  BY <1>1, FS_CardinalityType
<1>3. Cardinality(S \ {x}) = Cardinality(S) - In(x, S)
  <2>1. Cardinality(S \ {x}) = IF x \in S THEN Cardinality(S) - 1 ELSE Cardinality(S)
    BY FS_RemoveElement, Zenon
  <2>2. QED BY ONLY <1>2, <2>1 DEF In
<1>4. Cardinality(T \ {x}) = Cardinality(T) - In(x, T)
  <2>1. Cardinality(T \ {x}) = IF x \in T THEN Cardinality(T) - 1 ELSE Cardinality(T)
    BY <1>1, FS_RemoveElement, Zenon
  <2>2. QED BY ONLY <1>2, <2>1 DEF In
<1>5. In(x, S) \in Int /\ In(x, T) \in Int
  BY DEF In
<1>6. Cardinality(S) - In(x, S) = Cardinality(T) - In(x, T)
  BY <1>3, <1>4
<1>7. Cardinality(T) = Cardinality(S) - In(x, S) + In(x, T)
  BY ONLY <1>2, <1>5, <1>6
<1>8. QED BY <1>1, <1>2, <1>7

LEMMA QueueFinite ==
    ASSUME NEW o, NEW q \in Seq(Tasks)
    PROVE  IsFiniteSet(InQueue(o, q)) /\ Cardinality(InQueue(o, q)) \in Nat
<1>1. IsFiniteSet(1 .. Len(q)) /\ InQueue(o, q) \subseteq 1 .. Len(q)
  BY FS_Interval DEF InQueue
<1>2. QED BY <1>1, FS_Subset, FS_CardinalityType

LEMMA QueueAppend ==
    ASSUME NEW o, NEW q \in Seq(Tasks), NEW x \in Tasks
    PROVE  Cardinality(InQueue(o, q \o <<x>>)) = Cardinality(InQueue(o, q)) + One(o, x)
<1> DEFINE n == Len(q) + 1
<1>1. DOMAIN (q \o <<x>>) = 1 .. n /\ (q \o <<x>>)[n] = x
      /\ \A i \in 1 .. Len(q) : (q \o <<x>>)[i] = q[i]
  OBVIOUS
<1>2. InQueue(o, q \o <<x>>) \ {n} = InQueue(o, q) \ {n}
  BY <1>1 DEF InQueue
<1>3. n \notin InQueue(o, q) /\ (n \in InQueue(o, q \o <<x>>) <=> IsFor(o, x))
  BY <1>1 DEF InQueue
<1>4. IsFiniteSet(InQueue(o, q))
  BY QueueFinite
<1> HIDE DEF n
<1>5. QED BY <1>2, <1>3, <1>4, Differs DEF One, In

LEMMA QueueTail ==
    ASSUME NEW o, NEW q \in Seq(Tasks), q # <<>>
    PROVE  Cardinality(InQueue(o, Tail(q))) = Cardinality(InQueue(o, q)) - One(o, Head(q))
<1> DEFINE S == InQueue(o, Tail(q))
           T == InQueue(o, q) \ {1}
           F == [i \in S |-> i + 1]
<1>1. /\ Tail(q) \in Seq(Tasks) /\ Head(q) = q[1] /\ 1 \in DOMAIN q
      /\ DOMAIN Tail(q) = 1 .. Len(q) - 1 /\ DOMAIN q = 1 .. Len(q) /\ Len(q) \in Nat \ {0}
      /\ \A i \in 1 .. Len(q) - 1 : Tail(q)[i] = q[i + 1]
  OBVIOUS
<1>2. F \in [S -> T]
  BY <1>1 DEF InQueue
<1>3. \A a, b \in S : F[a] = F[b] => a = b
  BY <1>1 DEF InQueue
<1>4. \A t \in T : \E s \in S : F[s] = t
  <2> SUFFICES ASSUME NEW t \in T PROVE t - 1 \in S /\ F[t - 1] = t
    OBVIOUS
  <2>1. t \in 2 .. Len(q) /\ IsFor(o, q[t])
    BY <1>1 DEF InQueue
  <2>2. t - 1 \in 1 .. Len(q) - 1 /\ Tail(q)[t - 1] = q[t]
    BY <1>1, <2>1
  <2>3. QED BY <1>1, <2>1, <2>2 DEF InQueue
<1>5. IsFiniteSet(S) /\ IsFiniteSet(InQueue(o, q))
  BY <1>1, QueueFinite
<1>6. Cardinality(T) = Cardinality(S)
  <2> HIDE DEF S, T, F
  <2>1. ExistsBijection(S, T)
    BY <1>2, <1>3, <1>4, Fun_IsBij, Fun_ExistsBij
  <2>2. QED BY <1>5, <2>1, FS_Bijection
<1>7. 1 \in InQueue(o, q) <=> IsFor(o, Head(q))
  BY <1>1 DEF InQueue
<1>8. Cardinality(T) = Cardinality(InQueue(o, q)) - One(o, Head(q))
  <2>1. Cardinality(T) = IF 1 \in InQueue(o, q) THEN Cardinality(InQueue(o, q)) - 1
                                                ELSE Cardinality(InQueue(o, q))
    BY <1>5, FS_RemoveElement, Zenon
  <2>2. Cardinality(InQueue(o, q)) \in Nat
    BY <1>5, FS_CardinalityType
  <2>3. QED BY ONLY <1>7, <2>1, <2>2 DEF One
<1>9. QED BY <1>6, <1>8

LEMMA ThreadsChange ==
    ASSUME NEW o, NEW f, NEW g, NEW w \in Threads, \A v \in Threads \ {w} : g[v] = f[v]
    PROVE  /\ Cardinality(AtThreads(o, f)) \in Nat
           /\ Cardinality(AtThreads(o, g))
                  = Cardinality(AtThreads(o, f)) - One(o, f[w]) + One(o, g[w])
<1>1. AtThreads(o, f) \ {w} = AtThreads(o, g) \ {w}
  BY DEF AtThreads
<1>2. (w \in AtThreads(o, f) <=> IsFor(o, f[w])) /\ (w \in AtThreads(o, g) <=> IsFor(o, g[w]))
  BY DEF AtThreads
<1>3. IsFiniteSet(AtThreads(o, f))
  BY FS_Subset DEF AtThreads, BusModuleAssumption
<1>4. QED BY <1>1, <1>2, <1>3, Differs DEF One, In

LEMMA EmittersChange ==
    ASSUME NEW o, NEW e, NEW g, NEW t \in Emitters, \A u \in Emitters \ {t} : g[u] = e[u]
    PROVE  /\ Cardinality(LeftBy(o, e)) \in Nat
           /\ Cardinality(LeftBy(o, g))
                  = Cardinality(LeftBy(o, e)) - In(o, e[t].left) + In(o, g[t].left)
<1>1. LeftBy(o, e) \ {t} = LeftBy(o, g) \ {t}
  BY DEF LeftBy
<1>2. (t \in LeftBy(o, e) <=> o \in e[t].left) /\ (t \in LeftBy(o, g) <=> o \in g[t].left)
  BY DEF LeftBy
<1>3. IsFiniteSet(LeftBy(o, e))
  <2>1. IsFiniteSet({} \cup {"host"})
    BY FS_EmptySet, FS_AddElement, Zenon
  <2>2. IsFiniteSet(({} \cup {"host"}) \cup {"driver"})
    BY <2>1, FS_AddElement, Zenon
  <2>3. Emitters = ({} \cup {"host"}) \cup {"driver"}
    BY DEF Emitters
  <2>4. QED BY <2>2, <2>3, FS_Subset DEF LeftBy
<1>4. QED BY <1>1, <1>2, <1>3, Differs DEF One, In

LEMMA Sums ==
    ASSUME NEW o \in Observers
    PROVE  /\ Pending(o) = Cardinality(InQueue(o, queue)) + Cardinality(AtThreads(o, worker))
                           + Cardinality(LeftBy(o, emit))
           /\ Pending(o)' = Cardinality(InQueue(o, queue')) + Cardinality(AtThreads(o, worker'))
                            + Cardinality(LeftBy(o, emit'))
BY DEF Pending, InQueue, AtThreads, LeftBy

LEMMA Counts ==
    ASSUME TypeOK, NEW o \in Observers
    PROVE  /\ Cardinality(InQueue(o, queue)) \in Nat /\ Cardinality(AtThreads(o, worker)) \in Nat
           /\ Cardinality(LeftBy(o, emit)) \in Nat /\ owed[o] \in Int
<1>1. \E w \in Threads : TRUE
  BY DEF WorkerPoolAssumption
<1>2. "host" \in Emitters
  BY DEF Emitters
<1>3. queue \in Seq(Tasks) /\ owed \in [Observers -> Int]
  BY DEF TypeOK
<1>4. QED BY <1>1, <1>2, <1>3, QueueFinite, ThreadsChange, EmittersChange

\* Steps that hand nothing on.
LEMMA NothingMoves ==
    ASSUME Accounted, queue' = queue, owed' = owed,
           \A o \in Observers, w \in Threads : IsFor(o, worker'[w]) <=> IsFor(o, worker[w]),
           \A t \in Emitters : emit'[t].left = emit[t].left
    PROVE  Accounted'
<1> SUFFICES ASSUME NEW o \in Observers PROVE owed'[o] = Pending(o)'
  BY DEF Accounted
<1>1. AtThreads(o, worker') = AtThreads(o, worker) /\ LeftBy(o, emit') = LeftBy(o, emit)
  BY DEF AtThreads, LeftBy
<1>2. owed[o] = Pending(o)
  BY DEF Accounted
<1>3. QED BY ONLY <1>1, <1>2, Sums, queue' = queue, owed' = owed, o \in Observers

\* A state change is for its observer, a message for none.
LEMMA ForWhom ==
    ASSUME NEW o \in Observers
    PROVE  /\ \A p \in Observers, s \in States : One(o, Event(p, s)) = In(o, {p})
           /\ \A m \in Tasks : m.kind = "message" => One(o, m) = 0
           /\ One(o, Idle) = 0 /\ One(o, Exited) = 0
<1>1. ASSUME NEW p \in Observers, NEW s \in States PROVE One(o, Event(p, s)) = In(o, {p})
  <2>1. Event(p, s) \in Tasks /\ Event(p, s).kind = "event" /\ Event(p, s).observer = p
    BY DEF Event, Tasks
  <2>2. Event(p, s) \notin {Idle, Exited}
    BY <2>1 DEF TasksAssumption
  <2>3. IsFor(o, Event(p, s)) <=> o \in {p}
    BY <2>1, <2>2 DEF IsFor
  <2>4. QED BY <2>3 DEF One, In
<1>2. QED BY <1>1 DEF One, IsFor

LEMMA LeftOrderNext ==
    ASSUME IInv, LeftOrder, [Next]_vars
    PROVE  LeftOrder'
<1>0. emit \in [Emitters -> Announcements]
  BY DEF IInv, TypeOK, Announcements
<1>1. CASE emit' = emit
  BY <1>1 DEF LeftOrder
<1>2. CASE StartDriver \/ DriverStopped \/ Move \/ Leave
  <2>1. ASSUME NEW t \in Emitters, NEW s, emit' = [emit EXCEPT ![t] = Changed(s)]
        PROVE  LeftOrder'
    BY <1>0, <2>1 DEF LeftOrder, Changed
  <2>2. QED BY <1>1, <1>2, <2>1 DEF StartDriver, DriverStopped, Move, Leave, Emitters
<1>3. ASSUME NEW t \in Emitters, Dispatch(t) PROVE LeftOrder'
  <2>1. CASE Snapshot(t)
    <3>1. emit'[t].stage = "dispatch" /\ \A u \in Emitters \ {t} : emit'[u] = emit[u]
      BY <1>0, <2>1 DEF Snapshot, Announcements
    <3>2. QED BY <3>1 DEF LeftOrder
  <2>2. CASE Announced(t)
    BY <1>0, <2>2 DEF LeftOrder, Announced, Nothing
  <2>3. ASSUME NEW o \in Observers, Served(t, o) PROVE LeftOrder'
    <3>1. emit'[t].stage = "dispatch" /\ \A u \in Emitters \ {t} : emit'[u] = emit[u]
      BY <1>0, <2>3 DEF Served, Announcements
    <3>2. QED BY <3>1 DEF LeftOrder
  <2>4. QED BY <1>3, <2>1, <2>2, <2>3 DEF Dispatch, SubmitsEvent, RunsInline
<1>4. CASE Lifecycle
  BY <1>1, <1>4 DEF Lifecycle, OnInit, OnStart, OnStop, OnFini
<1>5. CASE Host /\ ~ Dispatch("host") /\ ~ StartDriver /\ ~ DriverStopped
  BY <1>1, <1>5 DEF Host, PoolStartFails, PoolStarts, OnStartReturns, ShutdownPool, PoolStops,
                    StopDriver, OnStopReturns
<1>6. CASE Deliver \/ ThreadEnds
  BY <1>1, <1>6 DEF Deliver, ThreadEnds
<1>7. CASE Program \/ (\E c \in Callers : Enter(c) \/ Answer(c)) \/ (\E w \in Threads : PoolThread(w))
  BY <1>1, <1>7, Asides
<1>8. CASE UNCHANGED vars
  BY <1>1, <1>8 DEF vars
<1>9. QED BY <1>2, <1>3, <1>4, <1>5, <1>6, <1>7, <1>8 DEF Next, Host, DriverThread, TurnsDown, Replies, Emitters

LEMMA AccountsDispatch ==
    ASSUME IInv, LeftOrder, Accounted, NEW t \in Emitters, Dispatch(t)
    PROVE  Accounted'
<1> SUFFICES ASSUME NEW o \in Observers PROVE owed'[o] = Pending(o)'
  BY DEF Accounted
<1>0. /\ emit \in [Emitters -> Announcements] /\ emit[t] \in Announcements
      /\ owed \in [Observers -> Int] /\ queue \in Seq(Tasks) /\ state_handlers \subseteq Observers
  BY DEF IInv, TypeOK, Announcements
<1>1. /\ Cardinality(InQueue(o, queue)) \in Nat /\ Cardinality(AtThreads(o, worker)) \in Nat
      /\ Cardinality(LeftBy(o, emit)) \in Nat /\ owed[o] \in Int
  BY Counts DEF IInv
<1>2. owed[o] = Cardinality(InQueue(o, queue)) + Cardinality(AtThreads(o, worker)) + Cardinality(LeftBy(o, emit))
  BY Sums DEF Accounted
<1>3. worker' = worker
  BY Asides
<1>4. ASSUME \A u \in Emitters \ {t} : emit'[u] = emit[u]
      PROVE  Cardinality(LeftBy(o, emit'))
                 = Cardinality(LeftBy(o, emit)) - In(o, emit[t].left) + In(o, emit'[t].left)
  BY <1>4, EmittersChange
<1>5. ASSUME NEW S PROVE In(o, S) \in {0, 1}
  BY DEF In
<1>6. CASE Snapshot(t)
  <2>1. /\ emit'[t].left = state_handlers /\ \A u \in Emitters \ {t} : emit'[u] = emit[u]
        /\ queue' = queue /\ emit[t].stage = "changed"
    BY <1>0, <1>6 DEF Snapshot, Announcements, poolVars
  <2>2. emit[t].left = {}
    BY <2>1 DEF LeftOrder
  <2>3. In(o, emit[t].left) = 0
    BY <2>2 DEF In
  <2>4. owed'[o] = owed[o] + In(o, state_handlers)
    BY <1>0, <1>6 DEF Snapshot, Owe, In
  <2>5. Cardinality(LeftBy(o, emit')) = Cardinality(LeftBy(o, emit)) + In(o, state_handlers)
    BY <1>1, <1>4, <1>5, <2>1, <2>3
  <2>6. In(o, state_handlers) \in {0, 1}
    BY <1>5
  <2>7. QED BY <1>1, <1>2, <1>3, <2>1, <2>4, <2>5, <2>6, Sums
<1>7. CASE Announced(t)
  <2>1. \A u \in Emitters : emit'[u].left = emit[u].left
    BY <1>0, <1>7 DEF Announced, Nothing
  <2>2. Accounted'
    BY <1>3, <1>7, <2>1, NothingMoves DEF Announced, poolVars, events
  <2>3. QED BY <2>2 DEF Accounted
<1>8. ASSUME NEW p \in Observers, Served(t, p)
      PROVE  Cardinality(LeftBy(o, emit')) = Cardinality(LeftBy(o, emit)) - In(o, {p})
  <2>1. /\ p \in emit[t].left /\ emit'[t].left = emit[t].left \ {p}
        /\ \A u \in Emitters \ {t} : emit'[u] = emit[u]
    BY <1>0, <1>8 DEF Served, Announcements
  <2>2. In(o, emit[t].left) - In(o, {p}) = In(o, emit'[t].left)
    BY <2>1 DEF In
  <2>3. In(o, emit[t].left) \in {0, 1} /\ In(o, {p}) \in {0, 1} /\ In(o, emit'[t].left) \in {0, 1}
    BY <1>5
  <2>4. QED BY <1>1, <1>4, <2>1, <2>2, <2>3
<1>9. ASSUME NEW p \in Observers, SubmitsEvent(t, p) PROVE owed'[o] = Pending(o)'
  <2>1. Served(t, p) /\ owed' = owed /\ queue' = queue \o <<Event(p, emit[t].state)>>
    BY <1>9 DEF SubmitsEvent, Submit, events
  <2>2. emit[t].state \in States
    BY <1>0 DEF Announcements
  <2>3. Event(p, emit[t].state) \in Tasks
    BY <2>2 DEF Event, Tasks
  <2>4. Cardinality(InQueue(o, queue')) = Cardinality(InQueue(o, queue)) + One(o, Event(p, emit[t].state))
    BY <1>0, <2>1, <2>3, QueueAppend
  <2>5. One(o, Event(p, emit[t].state)) = In(o, {p})
    BY <2>2, ForWhom
  <2>6. Cardinality(LeftBy(o, emit')) = Cardinality(LeftBy(o, emit)) - In(o, {p})
    BY <1>8, <2>1
  <2>7. In(o, {p}) \in {0, 1}
    BY <1>5
  <2>8. QED BY <1>1, <1>2, <1>3, <2>1, <2>4, <2>5, <2>6, <2>7, Sums
<1>10. ASSUME NEW p \in Observers, RunsInline(t, p) PROVE owed'[o] = Pending(o)'
  <2>1. Served(t, p) /\ owed' = [owed EXCEPT ![p] = @ - 1] /\ queue' = queue
    BY <1>10 DEF RunsInline, Handles, poolVars
  <2>2. owed'[o] = owed[o] - In(o, {p})
    BY <1>0, <2>1 DEF In
  <2>3. Cardinality(LeftBy(o, emit')) = Cardinality(LeftBy(o, emit)) - In(o, {p})
    BY <1>8, <2>1
  <2>4. In(o, {p}) \in {0, 1}
    BY <1>5
  <2>5. QED BY <1>1, <1>2, <1>3, <2>1, <2>2, <2>3, <2>4, Sums
<1>11. QED BY <1>6, <1>7, <1>9, <1>10 DEF Dispatch

LEMMA AccountsPool ==
    ASSUME IInv, Accounted, NEW w \in Threads, PoolThread(w)
    PROVE  Accounted'
<1> SUFFICES ASSUME NEW o \in Observers PROVE owed'[o] = Pending(o)'
  BY DEF Accounted
<1>0. /\ owed \in [Observers -> Int] /\ queue \in Seq(Tasks)
      /\ worker \in [Threads -> {Idle, Exited} \cup Tasks]
  BY DEF IInv, TypeOK
<1>1. /\ Cardinality(InQueue(o, queue)) \in Nat /\ Cardinality(AtThreads(o, worker)) \in Nat
      /\ Cardinality(LeftBy(o, emit)) \in Nat /\ owed[o] \in Int
  BY Counts DEF IInv
<1>2. owed[o] = Cardinality(InQueue(o, queue)) + Cardinality(AtThreads(o, worker)) + Cardinality(LeftBy(o, emit))
  BY Sums DEF Accounted
<1>3. emit' = emit
  BY Asides
<1>4. ASSUME \A v \in Threads \ {w} : worker'[v] = worker[v]
      PROVE  Cardinality(AtThreads(o, worker'))
                 = Cardinality(AtThreads(o, worker)) - One(o, worker[w]) + One(o, worker'[w])
  BY <1>4, ThreadsChange
<1>5. ASSUME NEW x PROVE One(o, x) \in {0, 1}
  BY DEF One
<1>6. CASE TakeTask(w)
  <2>1. /\ worker[w] = Idle /\ worker'[w] = Head(queue) /\ \A v \in Threads \ {w} : worker'[v] = worker[v]
        /\ queue # <<>> /\ queue' = Tail(queue) /\ owed' = owed
    BY <1>0, <1>6 DEF TakeTask, Take, events
  <2>2. Cardinality(InQueue(o, queue')) = Cardinality(InQueue(o, queue)) - One(o, Head(queue))
    BY <1>0, <2>1, QueueTail
  <2>3. Cardinality(AtThreads(o, worker')) = Cardinality(AtThreads(o, worker)) - 0 + One(o, Head(queue))
    BY <1>4, <2>1, ForWhom
  <2>4. One(o, Head(queue)) \in {0, 1}
    BY <1>5
  <2>5. QED BY <1>1, <1>2, <1>3, <2>1, <2>2, <2>3, <2>4, Sums
<1>7. CASE RunEvent(w)
  <2>1. worker[w] \in Tasks /\ worker[w].kind = "event" /\ worker[w] \notin {Idle, Exited}
    BY <1>0, <1>7 DEF RunEvent, Busy
  <2>2. /\ worker'[w] = Idle /\ \A v \in Threads \ {w} : worker'[v] = worker[v]
        /\ owed' = [owed EXCEPT ![worker[w].observer] = @ - 1]
    BY <1>0, <1>7 DEF RunEvent, Finished, Handles
  <2>3. queue' = queue
    BY <1>7 DEF RunEvent
  <2>4. One(o, worker[w]) = In(o, {worker[w].observer})
    BY <2>1 DEF One, In, IsFor
  <2>5. owed'[o] = owed[o] - In(o, {worker[w].observer})
    BY <1>0, <2>2 DEF In
  <2>6. Cardinality(AtThreads(o, worker')) = Cardinality(AtThreads(o, worker)) - One(o, worker[w]) + 0
    BY <1>4, <2>2, ForWhom
  <2>7. One(o, worker[w]) \in {0, 1}
    BY <1>5
  <2>8. QED BY <1>1, <1>2, <1>3, <2>3, <2>4, <2>5, <2>6, <2>7, Sums
<1>8. CASE ThreadExits(w) \/ MessageCalls(w) \/ MessageDone(w)
  <2>1. queue' = queue /\ owed' = owed
    BY <1>8 DEF ThreadExits, Exit, MessageCalls, MessageDone, events
  <2>2. \A v \in Threads \ {w} : worker'[v] = worker[v]
    BY <1>0, <1>8 DEF ThreadExits, Exit, MessageCalls, MessageDone, Finished
  <2>3. One(o, worker[w]) = 0 /\ One(o, worker'[w]) = 0
    <3>1. CASE ThreadExits(w)
      BY <1>0, <3>1, ForWhom DEF ThreadExits, Exit
    <3>2. CASE MessageCalls(w)
      <4>1. worker[w] \in Tasks /\ worker[w].kind = "message"
        BY <1>0, <3>2 DEF MessageCalls, Busy
      <4>2. /\ [worker[w] EXCEPT !.called = TRUE] \in Tasks
            /\ [worker[w] EXCEPT !.called = TRUE].kind = "message"
        BY <4>1 DEF Tasks
      <4>3. worker'[w] = [worker[w] EXCEPT !.called = TRUE]
        BY <1>0, <3>2 DEF MessageCalls
      <4>4. QED BY <4>1, <4>2, <4>3, ForWhom
    <3>3. CASE MessageDone(w)
      <4>1. worker[w] \in Tasks /\ worker[w].kind = "message" /\ worker'[w] = Idle
        BY <1>0, <3>3 DEF MessageDone, Busy, Finished
      <4>2. QED BY <4>1, ForWhom
    <3>4. QED BY <1>8, <3>1, <3>2, <3>3
  <2>4. Cardinality(AtThreads(o, worker')) = Cardinality(AtThreads(o, worker)) - 0 + 0
    BY <1>4, <2>2, <2>3
  <2>5. QED BY <1>1, <1>2, <1>3, <2>1, <2>4, Sums
<1>9. QED BY <1>6, <1>7, <1>8 DEF PoolThread

LEMMA AccountsNext ==
    ASSUME IInv, LeftOrder, Accounted, [Next]_vars
    PROVE  Accounted'
<1>0. emit \in [Emitters -> Announcements]
  BY DEF IInv, TypeOK, Announcements
<1>1. CASE UNCHANGED <<queue, worker, owed, emit>>
  BY <1>1, NothingMoves
<1>2. CASE Lifecycle
  BY <1>1, <1>2 DEF Lifecycle, OnInit, OnStart, OnStop, OnFini, NewPool, poolVars, events
<1>3. CASE Host /\ ~ Dispatch("host")
  <2>1. CASE PoolStarts
    <3>1. pool = "created"
      BY <2>1 DEF PoolStarts, Start
    <3>2. \A w \in Threads : worker[w] = Exited /\ worker'[w] = Idle
      BY <2>1, <3>1 DEF IInv, PoolOrder, Joined, PoolStarts, Start
    <3>3. \A o \in Observers, w \in Threads : ~ IsFor(o, worker[w]) /\ ~ IsFor(o, worker'[w])
      BY <3>2 DEF IsFor
    <3>4. queue' = queue /\ owed' = owed /\ emit' = emit
      BY <2>1 DEF PoolStarts, Start, events
    <3>5. QED BY <3>3, <3>4, NothingMoves
  <2>2. CASE StartDriver
    <3>1. emit["host"] = Nothing
      BY <2>2 DEF IInv, ThreadOrder, StartDriver, HostStep
    <3>2. \A t \in Emitters : emit'[t].left = emit[t].left
      BY <1>0, <2>2, <3>1 DEF StartDriver, Changed, Nothing
    <3>3. UNCHANGED <<queue, worker, owed>>
      BY <2>2 DEF StartDriver, poolVars, events
    <3>4. QED BY <3>2, <3>3, NothingMoves
  <2>3. CASE DriverStopped
    <3>1. state = "Stopped"
      BY <2>3 DEF IInv, ThreadOrder, DriverStopped
    <3>2. UNCHANGED <<queue, worker, owed, emit>>
      BY <2>3, <3>1 DEF DriverStopped, poolVars, events
    <3>3. QED BY <1>1, <3>2
  <2>4. CASE PoolStartFails \/ OnStartReturns \/ ShutdownPool \/ PoolStops \/ StopDriver \/ OnStopReturns
    BY <1>1, <2>4 DEF PoolStartFails, OnStartReturns, ShutdownPool, Shutdown, PoolStops, ShutdownReturns,
                      StopDriver, OnStopReturns, poolVars, events
  <2>5. QED BY <1>3, <2>1, <2>2, <2>3, <2>4 DEF Host
<1>4. CASE Move \/ Leave
  <2>1. emit["driver"] = Nothing
    BY <1>4 DEF Move, Leave, Free
  <2>2. \E s : emit' = [emit EXCEPT !["driver"] = Changed(s)]
    BY <1>4 DEF Move, Leave
  <2>3. \A t \in Emitters : emit'[t].left = emit[t].left
    BY <1>0, <2>1, <2>2 DEF Changed, Nothing
  <2>4. UNCHANGED <<queue, worker, owed>>
    BY <1>4 DEF Move, Leave, poolVars, events
  <2>5. QED BY <2>3, <2>4, NothingMoves
<1>5. CASE Deliver
  <2>1. UNCHANGED <<worker, owed, emit>>
    BY <1>5 DEF Deliver, events
  <2>2. queue' = queue \/ queue' = queue \o <<Message(handler)>>
    BY <1>5, Zenon DEF Deliver, Submit
  <2>3. CASE queue' = queue
    BY <1>1, <2>1, <2>3
  <2>4. CASE queue' = queue \o <<Message(handler)>>
    <3> SUFFICES ASSUME NEW o \in Observers PROVE owed'[o] = Pending(o)'
      BY DEF Accounted
    <3>1. Message(handler) \in Tasks /\ Message(handler).kind = "message" /\ queue \in Seq(Tasks)
      BY DEF IInv, TypeOK, Message, Tasks
    <3>2. One(o, Message(handler)) = 0
      BY <3>1, ForWhom
    <3>3. Cardinality(InQueue(o, queue')) = Cardinality(InQueue(o, queue)) + 0
      BY <2>4, <3>1, <3>2, QueueAppend
    <3>4. Cardinality(InQueue(o, queue)) \in Nat
      BY Counts DEF IInv
    <3>5. owed[o] = Pending(o)
      BY DEF Accounted
    <3>6. QED BY <2>1, <3>3, <3>4, <3>5, Sums
  <2>5. QED BY <2>2, <2>3, <2>4
<1>6. CASE ThreadEnds
  BY <1>1, <1>6 DEF ThreadEnds, poolVars, events
<1>7. CASE Program \/ (\E c \in Callers : Enter(c) \/ Answer(c))
  <2>1. UNCHANGED <<queue, worker, owed, emit>>
    BY <1>7, Asides DEF events
  <2>2. QED BY <1>1, <2>1
<1>8. CASE \E w \in Threads : PoolThread(w)
  BY <1>8, AccountsPool
<1>9. CASE \E t \in Emitters : Dispatch(t)
  BY <1>9, AccountsDispatch
<1>10. CASE UNCHANGED vars
  BY <1>1, <1>10 DEF vars, poolVars, events
<1>11. QED BY <1>2, <1>3, <1>4, <1>5, <1>6, <1>7, <1>8, <1>9, <1>10 DEF Next, Host, DriverThread, TurnsDown, Replies, Emitters

\* Whatever the order of announcements, registrations, the pool's threads and
\* OnStop, no state change is lost and none handled twice
\* (AmqpBusModule::DispatchConnectionStateChange).
THEOREM NoChangeIsLost == Spec => []EventsAccounted
<1>1. Init => LeftOrder /\ Accounted
  <2> SUFFICES ASSUME Init PROVE LeftOrder /\ Accounted
    OBVIOUS
  <2>1. \A t \in Emitters : emit[t].left = {}
    BY DEF Init, Nothing
  <2>2. ASSUME NEW o \in Observers PROVE owed[o] = Pending(o)
    <3>1. InQueue(o, queue) = {} /\ AtThreads(o, worker) = {} /\ LeftBy(o, emit) = {}
      BY <2>1 DEF Init, InQueue, AtThreads, LeftBy, IsFor
    <3>2. owed[o] = 0
      BY DEF Init
    <3>3. Cardinality({}) = 0
      BY FS_EmptySet, Zenon
    <3>4. QED BY ONLY <3>1, <3>2, <3>3, Sums, o \in Observers
  <2>3. QED BY <2>1, <2>2 DEF LeftOrder, Accounted
<1>2. IInv /\ LeftOrder /\ Accounted /\ [Next]_vars => LeftOrder' /\ Accounted'
  BY LeftOrderNext, AccountsNext
<1>3. IInv /\ Accounted => EventsAccounted
  BY DEF IInv, Accounted, EventsAccounted
<1>4. QED BY <1>1, <1>2, <1>3, InitInv, NextInv, PTL DEF Spec
==============================================================================
