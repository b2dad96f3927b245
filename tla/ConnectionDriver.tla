-------------------------- MODULE ConnectionDriver --------------------------
(***************************************************************************)
(* AmqpConnectionDriver: the thread that owns the broker connection, the   *)
(* command queue through which other threads reach it, and Start and Stop. *)
(* Callers and the controller touch only the fields guarded by mutex_      *)
(* (joinable, stop_requested, state, commands); every other field belongs  *)
(* to the driver thread.  One action is one critical section, or one piece *)
(* of work of the driver thread between two of them.                       *)
(***************************************************************************)
EXTENDS Naturals, Sequences, FiniteSets

CONSTANTS
    Calls,              \* invocations of the driver's operations, each made at most once
    Operations,         \* what these calls may invoke, see Kinds
    Configs,            \* the configurations a driver may be built with
    SocketInitMayFail,  \* WSAStartup may fail; always FALSE on POSIX
    FlushAttempts,      \* rounds of the flush loop after the main loop; 50 in the code
    MaxRuns             \* bound: how often Start is called

ASSUME ConnectionDriverAssumption ==
    /\ Configs \subseteq [reconnect : BOOLEAN, confirms : BOOLEAN]
    /\ SocketInitMayFail \in BOOLEAN
    /\ FlushAttempts \in Nat \ {0}
    /\ MaxRuns \in Nat

VARIABLES
    joinable,           \* thread_.joinable()
    stop_requested,
    state,              \* state_
    commands,           \* commands_, each command named by its call
    kind,               \* kind[c]: which operation the call invoked
    status,             \* status[c]: where the call is, or its result
    control,            \* the thread that calls Start and Stop
    control_event,      \* its EmitStateChange that is still to happen
    runs,               \* number of Starts so far
    config,             \* config_: connection.reconnect.enabled, publisher_confirms_enabled
    pc,                 \* where the driver thread is
    final,              \* the driver thread has left its main loop
    flush_attempt,      \* rounds of the flush loop that are over
    batch,              \* local_commands of DrainCommands
    connected,          \* connected_, and with it the channels
    boot,               \* which broker reply the bootstrap chain waits for
    publisher_confirms_ready,
    ready,              \* ready_
    pending_disconnect,
    awaiting,           \* calls with a deferred reply outstanding on admin_channel_
    confirming,         \* calls in pending_publish_confirms_
    driver_event,       \* the driver thread's EmitStateChange still to happen
    observed            \* current_state of the last event the state callback got

shared  == <<joinable, stop_requested, state, commands>>
callers == <<kind, status>>
ctl     == <<control, control_event, runs, config>>
thread  == <<pc, final, flush_attempt, batch>>
link    == <<connected, boot, publisher_confirms_ready, ready, pending_disconnect>>
replies == <<awaiting, confirming>>
events  == <<driver_event, observed>>
vars    == <<shared, callers, ctl, thread, link, replies, events>>

-----------------------------------------------------------------------------
States == {"Created", "Connecting", "Connected", "Reconnecting", "Stopped", "Error"}

\* Declare stands for DeclareExchange, DeclareQueue and BindQueue.
Completions == {"CompleteDelivery", "CompleteDeliveryAsync"}
Kinds       == {"Publish", "PublishAsync", "PublishConfirmed", "Declare"} \cup Completions

Blocking   == {"Publish", "PublishConfirmed", "Declare", "CompleteDelivery"}
Prechecked == {"PublishAsync", "PublishConfirmed"}

ASSUME OperationsAssumption == Operations \subseteq Kinds

Results == {"Ok", "Disconnected", "InvalidState", "OperationFailed", "NotSupported", "Timeout"}

Change == [previous : States, current : States]

\* EmitStateChange does nothing for a change that changes nothing.
Silent(change) == change.previous = change.current

StateChange(next) == [previous |-> state, current |-> next]

NoChange == [previous |-> "Created", current |-> "Created"]

Elements(s) == {s[i] : i \in DOMAIN s}

\* The calls the driver thread still has to answer, or holds in a queue.
Held == Elements(commands) \cup Elements(batch) \cup Elements(awaiting) \cup confirming

\* CompletePendingResult and CompletePendingPublishResult: the first
\* completion counts, and nobody listens once the caller has given up.
Answer(S, result) ==
    status' = [c \in Calls |-> IF c \in S /\ status[c] = "waiting" THEN result ELSE status[c]]

-----------------------------------------------------------------------------
Init ==
    /\ joinable = FALSE
    /\ stop_requested = FALSE
    /\ state = "Created"
    /\ commands = <<>>
    /\ kind = [c \in Calls |-> "Publish"]
    /\ status = [c \in Calls |-> "new"]
    /\ control = "idle"
    /\ control_event = NoChange
    /\ runs = 0
    /\ config \in Configs
    /\ pc = "off"
    /\ final = FALSE
    /\ flush_attempt = 0
    /\ batch = <<>>
    /\ connected = FALSE
    /\ boot = "none"
    /\ publisher_confirms_ready = FALSE
    /\ ready = FALSE
    /\ pending_disconnect = FALSE
    /\ awaiting = <<>>
    /\ confirming = {}
    /\ driver_event = NoChange
    /\ observed = "Created"

-----------------------------------------------------------------------------
(* Threads that call the driver.                                           *)

Running == joinable /\ ~stop_requested

\* EnqueueCommand; the caller of an asynchronous operation returns at once.
EnqueueCommand(c) ==
    \/ /\ Running
       /\ commands' = Append(commands, c)
       /\ status' = [status EXCEPT ![c] = IF kind'[c] \in Blocking THEN "waiting" ELSE "Ok"]
    \/ /\ ~Running
       /\ status' = [status EXCEPT ![c] = "InvalidState"]
       /\ UNCHANGED commands

\* Publish, DeclareExchange, ... : straight to the command queue.  (What
\* CompleteDeliveryAsync asks before, EnqueueCommand asks again.)
InvokeDirect(c, k) ==
    /\ status[c] = "new"
    /\ k \in Kinds \ Prechecked
    /\ kind' = [kind EXCEPT ![c] = k]
    /\ EnqueueCommand(c)
    /\ UNCHANGED <<joinable, stop_requested, state, ctl, thread, link, replies, events>>

\* PublishAsync and PublishConfirmed look at the state first, in a critical
\* section of their own.
InvokeChecked(c, k) ==
    /\ status[c] = "new"
    /\ k \in Prechecked
    /\ kind' = [kind EXCEPT ![c] = k]
    /\ status' = [status EXCEPT ![c] =
                     IF ~Running THEN "InvalidState"
                     ELSE IF state # "Connected" THEN "Disconnected"
                     ELSE "checked"]
    /\ UNCHANGED <<shared, ctl, thread, link, replies, events>>

EnqueueChecked(c) ==
    /\ status[c] = "checked"
    /\ UNCHANGED kind
    /\ EnqueueCommand(c)
    /\ UNCHANGED <<joinable, stop_requested, state, ctl, thread, link, replies, events>>

\* WaitPendingPublishResult gives up; the command and the entry in
\* pending_publish_confirms_ stay where they are.
CallerTimeout(c) ==
    /\ status[c] = "waiting"
    /\ kind[c] = "PublishConfirmed"
    /\ status' = [status EXCEPT ![c] = "Timeout"]
    /\ UNCHANGED <<shared, kind, ctl, thread, link, replies, events>>

-----------------------------------------------------------------------------
(* Start and Stop, called by one controlling thread.                       *)

Start ==
    /\ control = "idle"
    /\ ~joinable
    /\ runs < MaxRuns
    /\ runs' = runs + 1
    /\ joinable' = TRUE
    /\ stop_requested' = FALSE
    /\ state' = "Connecting"
    /\ control' = "starting"
    /\ control_event' = StateChange("Connecting")
    /\ pc' = "spawned"
    /\ final' = FALSE
    /\ flush_attempt' = 0
    /\ UNCHANGED <<config, commands, callers, batch, link, replies, events>>

StopRequest ==
    /\ control = "idle"
    /\ stop_requested' = TRUE
    /\ control' = "stopping"
    /\ UNCHANGED <<joinable, state, commands, callers, control_event, runs, config, thread, link, replies, events>>

\* Mutant: Stop does not wait for the driver thread.
StopDetached ==
    /\ control = "stopping"
    /\ joinable' = FALSE
    /\ state' = "Stopped"
    /\ control_event' = StateChange("Stopped")
    /\ control' = "stopped"
    /\ UNCHANGED <<stop_requested, commands, callers, runs, config, thread, link, replies, events>>

\* thread_.join() returns when ThreadMain has; with no thread it is skipped.
StopJoin ==
    /\ control = "stopping"
    /\ joinable => pc = "off" /\ Silent(driver_event)
    /\ joinable' = FALSE
    /\ state' = "Stopped"
    /\ control_event' = StateChange("Stopped")
    /\ control' = "stopped"
    /\ UNCHANGED <<stop_requested, commands, callers, runs, config, thread, link, replies, events>>

\* The event goes out after the lock is released; then the call returns.
ControlEmit ==
    /\ control \in {"starting", "stopped"}
    /\ observed' = IF Silent(control_event) THEN observed ELSE control_event.current
    /\ control_event' = NoChange
    /\ control' = "idle"
    /\ UNCHANGED <<shared, callers, runs, config, thread, link, replies, driver_event>>

-----------------------------------------------------------------------------
(* The driver thread.                                                      *)

\* A state callback runs on the driver thread: nothing happens until it is done.
At(place) == pc = place /\ Silent(driver_event)

DriverEmit ==
    /\ ~Silent(driver_event)
    /\ observed' = driver_event.current
    /\ driver_event' = NoChange
    /\ UNCHANGED <<shared, callers, ctl, thread, link, replies>>

\* ThreadMain gives up when the socket subsystem cannot be initialised: it
\* returns at once and leaves the command queue alone.
ThreadStart ==
    /\ At("spawned")
    /\ \/ /\ pc' = "top"
          /\ UNCHANGED <<state, driver_event>>
       \/ /\ SocketInitMayFail
          /\ pc' = "off"
          /\ state' = "Error"
          /\ driver_event' = StateChange("Error")
    /\ UNCHANGED <<joinable, stop_requested, commands, callers, ctl, final, flush_attempt, batch, link, replies, observed>>

\* Mutant: the thread leaves its main loop without a last look at the queue.
LoopTopLeaves ==
    /\ At("top")
    /\ final' = stop_requested
    /\ pc' = IF stop_requested THEN "teardown" ELSE "drain"
    /\ UNCHANGED <<shared, callers, ctl, flush_attempt, batch, link, replies, events>>

\* while (!ShouldStop())
LoopTop ==
    /\ At("top")
    /\ final' = stop_requested
    /\ pc' = "drain"
    /\ UNCHANGED <<shared, callers, ctl, flush_attempt, batch, link, replies, events>>

\* DrainCommands takes the whole queue under the lock ...
DrainSwap ==
    /\ At("drain")
    /\ batch' = commands
    /\ commands' = <<>>
    /\ pc' = "run"
    /\ UNCHANGED <<joinable, stop_requested, state, callers, ctl, final, flush_attempt, link, replies, events>>

IsReady == connected /\ ready /\ (config.confirms => publisher_confirms_ready)

\* FlushOutboundData: a failing send asks for the connection to be given up.
Flush ==
    \/ pending_disconnect' = pending_disconnect
    \/ connected /\ pending_disconnect' = TRUE

Pop ==
    /\ batch' = Tail(batch)
    /\ Flush
    /\ UNCHANGED <<shared, kind, ctl, pc, final, flush_attempt, connected, boot, publisher_confirms_ready, ready, events>>

AtCommand(kinds) == At("run") /\ batch # <<>> /\ kind[Head(batch)] \in kinds

\* Mutant: a dropped command forgets the caller that is blocked on it.
RunUnreadySilently ==
    /\ AtCommand(Kinds \ Completions)
    /\ ~IsReady
    /\ UNCHANGED status
    /\ Pop
    /\ UNCHANGED replies

\* ... and runs the commands one after the other without it.  A command that
\* finds the connection gone answers its caller; one that nobody waits for
\* is dropped.
RunUnready ==
    /\ AtCommand(Kinds \ Completions)
    /\ ~IsReady
    /\ Answer({Head(batch)}, "Disconnected")
    /\ Pop
    /\ UNCHANGED replies

\* A header or argument that has no AMQP form, or a publish that the channel
\* refuses.
RunRejected ==
    /\ AtCommand(Kinds \ Completions)
    /\ IsReady
    /\ Answer({Head(batch)}, "OperationFailed")
    /\ Pop
    /\ UNCHANGED replies

\* Publish is answered when the frames are in the channel.
RunPublish ==
    /\ AtCommand({"Publish", "PublishAsync"})
    /\ IsReady
    /\ Answer({Head(batch)}, "Ok")
    /\ Pop
    /\ UNCHANGED replies

\* A delivery is settled on the channel that its consumer has by now, be the
\* bootstrap at an end or not, and without such a channel not at all.  The channel
\* may refuse the command.
RunCompletion ==
    /\ AtCommand(Completions)
    /\ \E result \in {"Disconnected"} \cup IF boot \in {"topology", "done", "failed"} THEN {"Ok", "OperationFailed"} ELSE {} :
           Answer({Head(batch)}, result)
    /\ Pop
    /\ UNCHANGED replies

\* A confirmed publish is answered by the broker, if the channel confirms.
RunPublishConfirmed ==
    /\ AtCommand({"PublishConfirmed"})
    /\ IsReady
    /\ \/ /\ publisher_confirms_ready
          /\ confirming' = confirming \cup {Head(batch)}
          /\ UNCHANGED status
       \/ /\ ~publisher_confirms_ready
          /\ Answer({Head(batch)}, "NotSupported")
          /\ UNCHANGED confirming
    /\ Pop
    /\ UNCHANGED awaiting

\* A declaration is answered by the broker's reply on the admin channel.
RunDeclare ==
    /\ AtCommand({"Declare"})
    /\ IsReady
    /\ awaiting' = Append(awaiting, Head(batch))
    /\ Pop
    /\ UNCHANGED <<status, confirming>>

\* The end of DrainCommands in the main loop.
DrainDone ==
    /\ At("run")
    /\ batch = <<>>
    /\ ~final
    /\ pc' = IF connected THEN "pump" ELSE "dial"
    /\ UNCHANGED <<shared, callers, ctl, final, flush_attempt, batch, link, replies, events>>

\* Mutant: one round too many.
FlushOnceMore ==
    /\ At("run")
    /\ batch = <<>>
    /\ final
    /\ connected
    /\ ~pending_disconnect
    /\ flush_attempt < FlushAttempts
    /\ flush_attempt' = flush_attempt + 1
    /\ pc' = "drain"
    /\ UNCHANGED <<shared, callers, ctl, final, batch, link, replies, events>>

\* After the main loop: drain and flush again while outbound bytes are left on
\* a link that still seems to work, a bounded number of times.
FlushAgain ==
    /\ At("run")
    /\ batch = <<>>
    /\ final
    /\ connected
    /\ ~pending_disconnect
    /\ flush_attempt + 1 < FlushAttempts
    /\ flush_attempt' = flush_attempt + 1
    /\ pc' = "drain"
    /\ UNCHANGED <<shared, callers, ctl, final, batch, link, replies, events>>

\* HandleDisconnect("AMQP driver stopped").
FlushDone ==
    /\ At("run")
    /\ batch = <<>>
    /\ final
    /\ pc' = "teardown"
    /\ UNCHANGED <<shared, callers, ctl, final, flush_attempt, batch, link, replies, events>>

\* ShouldAttemptReconnect says: not yet, or (with reconnect disabled) never again.
DialLater ==
    /\ At("dial")
    /\ config.reconnect \/ stop_requested \/ state # "Connecting"
    /\ pc' = "top"
    /\ UNCHANGED <<shared, callers, ctl, final, flush_attempt, batch, link, replies, events>>

\* It says that it is time.
Dial ==
    /\ At("dial")
    /\ config.reconnect \/ (~stop_requested /\ state = "Connecting")
    /\ pc' = "dialing"
    /\ UNCHANGED <<shared, callers, ctl, final, flush_attempt, batch, link, replies, events>>

Lost == IF config.reconnect THEN "Reconnecting" ELSE "Error"

\* ConnectSocket fails: ApplyReconnectBackoff.
DialFailed ==
    /\ At("dialing")
    /\ state' = Lost
    /\ driver_event' = StateChange(Lost)
    /\ pc' = "top"
    /\ UNCHANGED <<joinable, stop_requested, commands, callers, ctl, final, flush_attempt, batch, link, replies, observed>>

\* Mutant: the state is left as it was when the socket connects.
DialConnectedQuietly ==
    /\ At("dialing")
    /\ connected' = TRUE
    /\ boot' = "handshake"
    /\ publisher_confirms_ready' = FALSE
    /\ ready' = FALSE
    /\ pending_disconnect' = FALSE
    /\ confirming' = {}
    /\ pc' = "top"
    /\ UNCHANGED <<shared, callers, ctl, final, flush_attempt, batch, awaiting, events>>

\* ConnectSocket succeeds: fresh channels, and no entry of an earlier
\* connection is left in pending_publish_confirms_.
DialConnected ==
    /\ At("dialing")
    /\ connected' = TRUE
    /\ boot' = "handshake"
    /\ publisher_confirms_ready' = FALSE
    /\ ready' = FALSE
    /\ pending_disconnect' = FALSE
    /\ confirming' = {}
    /\ state' = "Connecting"
    /\ driver_event' = StateChange("Connecting")
    /\ pc' = "top"
    /\ UNCHANGED <<joinable, stop_requested, commands, callers, ctl, final, flush_attempt, batch, awaiting, observed>>

-----------------------------------------------------------------------------
(* PumpIncomingData: what a frame from the broker makes the thread do.     *)

pumping == <<joinable, stop_requested, commands, kind, ctl, thread>>

\* onReady; without confirms the topology is rebuilt at once.
Handshake ==
    /\ At("pump")
    /\ boot = "handshake"
    /\ boot' = IF config.confirms THEN "confirms" ELSE "topology"
    /\ UNCHANGED <<pumping, state, status, connected, publisher_confirms_ready, ready, pending_disconnect, replies, events>>

ConfirmSelected ==
    /\ At("pump")
    /\ boot = "confirms"
    /\ publisher_confirms_ready' = TRUE
    /\ boot' = "topology"
    /\ UNCHANGED <<pumping, state, status, connected, ready, pending_disconnect, replies, events>>

\* The last reply of the bootstrap chain: BootstrapConsumers past the end.
TopologyRebuilt ==
    /\ At("pump")
    /\ boot = "topology"
    /\ boot' = "done"
    /\ ready' = TRUE
    /\ state' = "Connected"
    /\ driver_event' = StateChange("Connected")
    /\ UNCHANGED <<pumping, status, connected, publisher_confirms_ready, pending_disconnect, replies, observed>>

\* The broker refuses a step of the bootstrap: that chain is at an end.
BootstrapFailed ==
    /\ At("pump")
    /\ boot \in {"confirms", "topology"}
    /\ boot' = "failed"
    /\ pending_disconnect' = TRUE
    /\ UNCHANGED <<pumping, state, status, connected, publisher_confirms_ready, ready, replies, events>>

\* (The spec is also put where the topology step of a later bootstrap finds it.)
Declared ==
    /\ At("pump")
    /\ awaiting # <<>>
    /\ Answer({Head(awaiting)}, "Ok")
    /\ awaiting' = Tail(awaiting)
    /\ UNCHANGED <<pumping, state, link, confirming, events>>

\* An error closes the admin channel for everybody: each reply outstanding on
\* it fails, and so does the connection.
DeclareRefused ==
    /\ At("pump")
    /\ awaiting # <<>>
    /\ Answer(Elements(awaiting), "OperationFailed")
    /\ awaiting' = <<>>
    /\ pending_disconnect' = TRUE
    /\ UNCHANGED <<pumping, state, connected, boot, publisher_confirms_ready, ready, confirming, events>>

\* CompletePublishConfirm; an ack may cover several publishes.
Confirmed(S) ==
    /\ At("pump")
    /\ S # {}
    /\ S \subseteq confirming
    /\ Answer(S, "Ok")
    /\ confirming' = confirming \ S
    /\ UNCHANGED <<pumping, state, link, awaiting, events>>

\* The socket fails, the broker cancels a consumer or closes another channel
\* (RequestDisconnect only), or it closes the connection, which also fails
\* the outstanding replies.
LinkFault ==
    /\ At("pump")
    /\ ~pending_disconnect
    /\ pending_disconnect' = TRUE
    /\ \/ UNCHANGED <<status, awaiting, boot>>
       \/ /\ Answer(Elements(awaiting), "OperationFailed")
          /\ awaiting' = <<>>
          /\ boot' = IF ready THEN boot ELSE "failed"
    /\ UNCHANGED <<pumping, state, connected, publisher_confirms_ready, ready, confirming, events>>

PumpDone ==
    /\ At("pump")
    /\ pc' = IF pending_disconnect THEN "teardown" ELSE "top"
    /\ UNCHANGED <<shared, callers, ctl, final, flush_attempt, batch, link, replies, events>>

-----------------------------------------------------------------------------
(* HandleDisconnect: first the driver's own fields, then the shared state. *)

\* Mutant: the pending confirms are cleared without being failed first.
TeardownForgetting ==
    /\ At("teardown")
    /\ Answer(Elements(awaiting), "OperationFailed")
    /\ confirming' = {}
    /\ awaiting' = <<>>
    /\ connected' = FALSE
    /\ boot' = "none"
    /\ publisher_confirms_ready' = FALSE
    /\ ready' = FALSE
    /\ pending_disconnect' = FALSE
    /\ pc' = "settle"
    /\ UNCHANGED <<shared, kind, ctl, final, flush_attempt, batch, events>>

\* Mutant: the connection object is dropped without Connection::fail.
TeardownWithoutFail ==
    /\ At("teardown")
    /\ Answer(confirming, "Disconnected")
    /\ confirming' = {}
    /\ connected' = FALSE
    /\ boot' = "none"
    /\ publisher_confirms_ready' = FALSE
    /\ ready' = FALSE
    /\ pending_disconnect' = FALSE
    /\ pc' = "settle"
    /\ UNCHANGED <<shared, kind, ctl, final, flush_attempt, batch, awaiting, events>>

\* FailPendingPublishes, then Connection::fail for the deferred replies.
Teardown ==
    /\ At("teardown")
    /\ status' = [c \in Calls |->
                     IF status[c] # "waiting" THEN status[c]
                     ELSE IF c \in confirming THEN "Disconnected"
                     ELSE IF c \in Elements(awaiting) THEN "OperationFailed"
                     ELSE status[c]]
    /\ confirming' = {}
    /\ awaiting' = <<>>
    /\ connected' = FALSE
    /\ boot' = "none"
    /\ publisher_confirms_ready' = FALSE
    /\ ready' = FALSE
    /\ pending_disconnect' = FALSE
    /\ pc' = "settle"
    /\ UNCHANGED <<shared, kind, ctl, final, flush_attempt, batch, events>>

\* Mutant: HandleDisconnect leaves it to Stop to report the last change.
SettleUnreported ==
    /\ At("settle")
    /\ state' = IF stop_requested THEN "Stopped" ELSE Lost
    /\ driver_event' = IF stop_requested THEN NoChange ELSE StateChange(state')
    /\ pc' = IF final THEN "off" ELSE "top"
    /\ UNCHANGED <<joinable, stop_requested, commands, callers, ctl, final, flush_attempt, batch, link, replies, observed>>

Settle ==
    /\ At("settle")
    /\ state' = IF stop_requested THEN "Stopped" ELSE Lost
    /\ driver_event' = StateChange(state')
    /\ pc' = IF final THEN "off" ELSE "top"
    /\ UNCHANGED <<joinable, stop_requested, commands, callers, ctl, final, flush_attempt, batch, link, replies, observed>>

-----------------------------------------------------------------------------
Caller(c) ==
    \/ \E k \in Operations : InvokeDirect(c, k) \/ InvokeChecked(c, k)
    \/ EnqueueChecked(c)
    \/ CallerTimeout(c)

Controller == Start \/ StopRequest \/ StopJoin \/ ControlEmit

RunCommand == RunUnready \/ RunRejected \/ RunPublish \/ RunCompletion \/ RunPublishConfirmed \/ RunDeclare

\* What the driver thread does without waiting for anybody.
Driver ==
    \/ DriverEmit \/ ThreadStart \/ LoopTop \/ DrainSwap \/ RunCommand \/ DrainDone \/ FlushAgain \/ FlushDone
    \/ DialLater \/ Dial \/ DialFailed \/ DialConnected
    \/ PumpDone \/ Teardown \/ Settle

Broker ==
    \/ Handshake \/ ConfirmSelected \/ TopologyRebuilt \/ BootstrapFailed
    \/ Declared \/ DeclareRefused \/ LinkFault
    \/ \E S \in SUBSET Calls : Confirmed(S)

Next == (\E c \in Calls : Caller(c)) \/ Controller \/ Driver \/ Broker

Spec == Init /\ [][Next]_vars

\* The operating system schedules the driver thread and the thread that
\* called Start or Stop; nobody has to call, and the broker need not answer.
ThreadFairness ==
    /\ WF_vars(Driver)
    /\ WF_vars(StopJoin)
    /\ WF_vars(ControlEmit)

\* A live broker answers, or the connection is seen to fail.
BrokerFairness ==
    /\ SF_vars(Declared \/ DeclareRefused)
    /\ \A c \in Calls : SF_vars(\E S \in SUBSET Calls : c \in S /\ Confirmed(S))

FairSpec == Spec /\ ThreadFairness

AnsweringSpec == FairSpec /\ BrokerFairness

-----------------------------------------------------------------------------
(* Properties.                                                             *)

\* Every variable holds a value of its type.
TypeOK ==
    /\ joinable \in BOOLEAN
    /\ stop_requested \in BOOLEAN
    /\ state \in States
    /\ commands \in Seq(Calls)
    /\ kind \in [Calls -> Kinds]
    /\ status \in [Calls -> {"new", "checked", "waiting"} \cup Results]
    /\ control \in {"idle", "starting", "stopping", "stopped"}
    /\ control_event \in Change
    /\ runs \in Nat
    /\ config \in Configs
    /\ pc \in {"off", "spawned", "top", "drain", "run", "dial", "dialing", "pump", "teardown", "settle"}
    /\ final \in BOOLEAN
    /\ flush_attempt \in 0..FlushAttempts - 1
    /\ batch \in Seq(Calls)
    /\ connected \in BOOLEAN
    /\ boot \in {"none", "handshake", "confirms", "topology", "done", "failed"}
    /\ publisher_confirms_ready \in BOOLEAN
    /\ ready \in BOOLEAN
    /\ pending_disconnect \in BOOLEAN
    /\ awaiting \in Seq(Calls)
    /\ confirming \subseteq Calls
    /\ driver_event \in Change
    /\ observed \in States

\* A caller that is blocked is known to the driver: its call is in the command
\* queue, in the batch being run, or waits for the broker.  No completion is
\* ever forgotten, whatever is cleared on reconnect (ConnectSocket clears
\* pending_publish_confirms_ without completing its entries).
NoOrphanedCall == \A c \in Calls : status[c] = "waiting" => c \in Held

\* When the driver thread has been joined no caller is blocked and no command
\* is left to run in a later session: EnqueueCommand and Stop share the lock,
\* and ThreadMain drains the queue once more after it has seen the request.
NoCallLeftBehind ==
    ~joinable => commands = <<>> /\ \A c \in Calls : status[c] # "waiting"

\* A reply is only outstanding on a connection that is up and fully built;
\* nothing is carried from one connection into the next.
RepliesBelongToConnection ==
    (awaiting # <<>> \/ confirming # {}) => connected /\ ready

\* The observers' last event is the state in which a stopped driver is.
StopIsObserved ==
    (~joinable /\ control = "idle" /\ state # "Created") => observed = "Stopped" /\ state = "Stopped"

\* How state_ may move.  Connected comes only from a rebuild that follows a
\* TCP connect, a lost link leads to Connecting again only through Reconnecting,
\* and an Error, which needs a driver without reconnect or without sockets, is
\* left only by Stop.
StateMoves ==
    {<<"Created", "Connecting">>, <<"Created", "Stopped">>, <<"Stopped", "Connecting">>,
     <<"Connecting", "Connected">>, <<"Connecting", "Stopped">>,
     <<"Connected", "Stopped">>}
    \cup (IF config.reconnect
          THEN {<<"Connecting", "Reconnecting">>, <<"Connected", "Reconnecting">>,
                <<"Reconnecting", "Connecting">>, <<"Reconnecting", "Stopped">>}
          ELSE {<<"Connected", "Error">>})
    \cup (IF config.reconnect /\ ~SocketInitMayFail
          THEN {}
          ELSE {<<"Connecting", "Error">>, <<"Error", "Stopped">>})

LegalStateMoves == [][state' # state => <<state, state'>> \in StateMoves]_vars

\* A blocked caller gets its answer, if the broker answers or the driver is
\* stopped.
EveryCallAnswered ==
    BrokerFairness => \A c \in Calls : status[c] = "waiting" ~> status[c] # "waiting"

\* The driver implements the service its callers rely on.
Service == INSTANCE CallService WITH
    phase <- IF ~joinable THEN "closed" ELSE IF stop_requested THEN "closing" ELSE "open",
    asked <- {c \in Calls : status[c] = "waiting"},
    answered <- {c \in Calls : status[c] \in Results}

ServiceSpec == Service!Spec
=============================================================================
