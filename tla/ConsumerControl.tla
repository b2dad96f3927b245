-------------------------- MODULE ConsumerControl --------------------------
(* How the AMQP driver brings its consumers up, keeps them up and lets     *)
(* callers stop and start them: the bootstrap that runs as a chain of      *)
(* broker replies on every new connection (confirms, exchanges, queues,    *)
(* bindings, then the consumers in the order of the configuration), and    *)
(* StartConsumer and StopConsumer, which wait for the broker's consume-ok  *)
(* or cancel-ok on the consumer's own channel.                             *)
(*                                                                         *)
(* The broker is external: it answers each channel's requests in order,    *)
(* may deliver to whoever consumes, may refuse a request (which closes the *)
(* channel) or cancel a consumer (its queue is gone).  Reconnecting is     *)
(* enabled.  The end of the driver is left to ConnectionDriver, the        *)
(* settling of deliveries to ConsumerDelivery.                             *)
EXTENDS Integers, Sequences, FiniteSets, SequencesExt

CONSTANTS
    NConsumers,     \* config_.consumers, numbered in the configured order
    AutoStart,      \* those with auto_start
    WithQos,        \* those with prefetch_count > 0
    NExchanges, NQueues, NBindings,     \* the configured topology
    Confirms,       \* publisher_confirms_enabled
    Calls,          \* threads that call StartConsumer and StopConsumer
    Target,         \* the consumer each of them controls
    Boot,           \* who asks when it is the bootstrap
    MaxCalls,       \* bound: calls over the whole run
    MaxFaults,      \* bound: failed dials, lost connections, refusals, cancels
    MaxFlight       \* bound: frames in flight to the driver per channel

Consumers == 1 .. NConsumers

ASSUME ControlAssumption ==
    /\ NConsumers \in Nat /\ AutoStart \subseteq Consumers /\ WithQos \subseteq Consumers
    /\ NExchanges \in Nat /\ NQueues \in Nat /\ NBindings \in Nat
    /\ Confirms \in BOOLEAN
    /\ Target \in [Calls -> Consumers] /\ Boot \notin Calls
    /\ MaxCalls \in Nat /\ MaxFaults \in Nat /\ MaxFlight \in Nat \ {0}

VARIABLES
    connection,     \* connected_ and ready_: "down", "setup" or "ready"
    boot,           \* where the bootstrap is, and whether it awaits a reply
    pending_disconnect,
    runtime,        \* consumer_runtimes_
    to_broker,      \* frames on their way, per channel (0 is the admin and
    to_driver,      \* publish channels', used one after the other)
    consuming,      \* the broker's consumers on each channel, by tag
    call,           \* what each caller waits for
    wish,           \* what the driver last said of each consumer: running or not
    calls, faults   \* calls made, faults left

driverVars == <<connection, boot, pending_disconnect, runtime>>
brokerVars == <<to_broker, to_driver, consuming>>
callVars == <<call, wish, calls>>
controlVars == <<driverVars, brokerVars, callVars, faults>>

Channels == 0 .. NConsumers
NoTag == 0
NoRuntime == [channel |-> FALSE, active |-> FALSE, active_tag |-> NoTag]
NoCall == [stage |-> "none", asks |-> "start"]
At(stage, index, asked) == [stage |-> stage, index |-> index, asked |-> asked]
Frame(is, tag, by) == [is |-> is, tag |-> tag, by |-> by]
Silence == [c \in Channels |-> <<>>]

ControlInit ==
    /\ connection = "down" /\ boot = At("handshake", 1, TRUE) /\ pending_disconnect = FALSE
    /\ runtime = [c \in Consumers |-> NoRuntime]
    /\ to_broker = Silence /\ to_driver = Silence
    /\ consuming = [c \in Channels |-> {}]
    /\ call = [k \in Calls |-> NoCall]
    /\ wish = [c \in Consumers |-> FALSE]
    /\ calls = 0 /\ faults = MaxFaults

-----------------------------------------------------------------------------
(* The connection.                                                         *)

ConnectSocket ==
    /\ connection = "down"
    /\ connection' = "setup" /\ pending_disconnect' = FALSE
    /\ boot' = At("handshake", 1, TRUE)
    /\ to_broker' = [Silence EXCEPT ![0] = <<Frame("setup", NoTag, Boot)>>]
    /\ UNCHANGED <<runtime, to_driver, consuming, callVars, faults>>

\* The dial fails; the driver comes back after its backoff.
ApplyReconnectBackoff ==
    /\ connection = "down" /\ faults > 0 /\ faults' = faults - 1
    /\ UNCHANGED <<driverVars, brokerVars, callVars>>

\* The socket fails, or the broker closes it or the connection.
ConnectionLost ==
    /\ connection # "down" /\ ~pending_disconnect /\ faults > 0
    /\ faults' = faults - 1 /\ pending_disconnect' = TRUE
    /\ UNCHANGED <<connection, boot, runtime, brokerVars, callVars>>

\* Deferred replies fail with the connection, so every waiting call returns.
HandleDisconnect ==
    /\ pending_disconnect /\ boot.asked
    /\ connection' = "down" /\ pending_disconnect' = FALSE
    /\ boot' = At("handshake", 1, TRUE)
    /\ runtime' = [c \in Consumers |-> NoRuntime]
    /\ to_broker' = Silence /\ to_driver' = Silence
    /\ consuming' = [c \in Channels |-> {}]
    /\ call' = [k \in Calls |-> IF call[k].stage = "waiting" THEN NoCall ELSE call[k]]
    /\ UNCHANGED <<wish, calls, faults>>

-----------------------------------------------------------------------------
(* The bootstrap: each step asks the broker, and its reply takes the next. *)

Asks(channel, is, tag, by) ==
    to_broker' = [to_broker EXCEPT ![channel] = Append(@, Frame(is, tag, by))]

\* A step with a number beyond the configured list goes on to the next list.
Goes(stage, index) == boot' = At(stage, index, FALSE) /\ UNCHANGED <<to_broker, runtime, connection, wish>>
Declares(stage, index) == boot' = At(stage, index, TRUE) /\ Asks(0, "setup", NoTag, Boot)
                          /\ UNCHANGED <<runtime, connection, wish>>

EnablePublisherConfirms ==
    /\ boot.stage = "confirms"
    /\ IF Confirms THEN Declares("confirms", 1) ELSE Goes("exchanges", 1)

BootstrapExchanges ==
    /\ boot.stage = "exchanges"
    /\ IF boot.index > NExchanges THEN Goes("queues", 1) ELSE Declares("exchanges", boot.index)

BootstrapQueues ==
    /\ boot.stage = "queues"
    /\ IF boot.index > NQueues THEN Goes("bindings", 1) ELSE Declares("queues", boot.index)

BootstrapBindings ==
    /\ boot.stage = "bindings"
    /\ IF boot.index > NBindings THEN Goes("consumers", 1) ELSE Declares("bindings", boot.index)

\* What StartConsumerRuntime sends; the tag is the broker's to choose.
Consume(c, by) == Asks(c, "consume", NoTag, by)

BootstrapConsumersDone ==
    /\ boot.stage = "consumers" /\ boot.index > NConsumers
    /\ connection' = "ready" /\ boot' = At("done", 1, TRUE)
    /\ UNCHANGED <<to_broker, runtime, wish>>

\* Mutant: nothing goes on after a consumer that does not start by itself.
PreparedLast(c) == boot' = At("consumers", c, TRUE)

\* A consumer without auto_start is only prepared.
Prepared(c) == boot' = At("consumers", c + 1, FALSE)

\* A consumer gets a new channel; if it starts by itself that is promised.
BootstrapConsumer(c) ==
    /\ boot.stage = "consumers" /\ boot.index = c
    /\ runtime' = [runtime EXCEPT ![c] = [NoRuntime EXCEPT !.channel = TRUE]]
    /\ wish' = [wish EXCEPT ![c] = c \in AutoStart]
    /\ \/ c \in WithQos /\ Asks(c, "qos", NoTag, Boot) /\ boot' = At("consumers", c, TRUE)
       \/ c \notin WithQos /\ c \in AutoStart /\ Consume(c, Boot) /\ boot' = At("consumers", c, TRUE)
       \/ c \notin WithQos /\ c \notin AutoStart /\ Prepared(c) /\ UNCHANGED to_broker
    /\ UNCHANGED connection

\* The steps of the bootstrap run inside the callback that led to them.
Bootstrap ==
    /\ ~boot.asked
    /\ \/ EnablePublisherConfirms \/ BootstrapExchanges \/ BootstrapQueues \/ BootstrapBindings
       \/ BootstrapConsumersDone \/ \E c \in Consumers : BootstrapConsumer(c)
    /\ UNCHANGED <<pending_disconnect, to_driver, consuming, call, calls, faults>>

-----------------------------------------------------------------------------
(* The callers.                                                            *)

Controls(k, c) == call[k].stage # "none" /\ Target[k] = c
Returns(k) == call' = [call EXCEPT ![k] = NoCall]
Says(k, running) == Returns(k) /\ wish' = [wish EXCEPT ![Target[k]] = running]
Waits(k) == call' = [call EXCEPT ![k].stage = "waiting"] /\ UNCHANGED wish

\* A call queues its command and waits; the commands of one consumer are few
\* enough that their order in the queue is left open.
Enqueue(k) ==
    /\ call[k] = NoCall /\ calls < MaxCalls
    /\ \E asks \in {"start", "stop"} : call' = [call EXCEPT ![k] = [stage |-> "queued", asks |-> asks]]
    /\ calls' = calls + 1
    /\ UNCHANGED <<driverVars, brokerVars, wish, faults>>

\* The command finds the connection not ready, or the consumer unprepared.
RunRefused(k) ==
    /\ connection # "ready" \/ ~runtime[Target[k]].channel
    /\ Returns(k) /\ UNCHANGED <<to_broker, wish>>

StartConsumer(k) ==
    /\ connection = "ready" /\ runtime[Target[k]].channel /\ call[k].asks = "start"
    /\ IF runtime[Target[k]].active
       THEN Says(k, TRUE) /\ UNCHANGED to_broker
       ELSE Waits(k) /\ Consume(Target[k], k)

\* Mutant: the call is answered once the request is on its way.
StopConsumerUnawaited(k) ==
    /\ connection = "ready" /\ runtime[Target[k]].channel /\ call[k].asks = "stop"
    /\ IF runtime[Target[k]].active
       THEN Says(k, FALSE) /\ Asks(Target[k], "cancel", runtime[Target[k]].active_tag, k)
       ELSE Says(k, FALSE) /\ UNCHANGED to_broker

StopConsumer(k) ==
    /\ connection = "ready" /\ runtime[Target[k]].channel /\ call[k].asks = "stop"
    /\ IF runtime[Target[k]].active
       THEN Waits(k) /\ Asks(Target[k], "cancel", runtime[Target[k]].active_tag, k)
       ELSE Says(k, FALSE) /\ UNCHANGED to_broker

\* DrainCommands: the driver thread runs what was queued.
Run(k) ==
    /\ call[k].stage = "queued" /\ boot.asked
    /\ RunRefused(k) \/ StartConsumer(k) \/ StopConsumer(k)
    /\ UNCHANGED <<driverVars, to_driver, consuming, calls, faults>>

-----------------------------------------------------------------------------
(* The broker.                                                             *)

FreshTag(c) == CHOOSE t \in 1 .. 1 + Cardinality(consuming[c]) : t \notin consuming[c]

Replies(channel, frame, running) ==
    /\ to_driver' = [to_driver EXCEPT ![channel] = Append(@, frame)]
    /\ consuming' = [consuming EXCEPT ![channel] = running]

\* The broker takes a channel's requests in order.
Answer(channel) ==
    /\ to_broker[channel] # <<>>
    /\ LET r == Head(to_broker[channel]) IN
        CASE r.is = "consume" ->
                Replies(channel, [r EXCEPT !.tag = FreshTag(channel)], consuming[channel] \cup {FreshTag(channel)})
          [] r.is = "cancel" -> Replies(channel, r, consuming[channel] \ {r.tag})
          [] OTHER -> Replies(channel, r, consuming[channel])
    /\ to_broker' = [to_broker EXCEPT ![channel] = Tail(@)]
    /\ UNCHANGED <<driverVars, callVars, faults>>

\* A refused request closes its channel and all that was asked on it.
Refuse(channel) ==
    /\ to_broker[channel] # <<>> /\ faults > 0
    /\ Replies(channel, [Head(to_broker[channel]) EXCEPT !.is = "error"], {})
    /\ to_broker' = [to_broker EXCEPT ![channel] = <<>>]
    /\ faults' = faults - 1
    /\ UNCHANGED <<driverVars, callVars>>

Push(c) ==
    /\ Len(to_driver[c]) < MaxFlight
    /\ \E t \in consuming[c] : Replies(c, Frame("deliver", t, Boot), consuming[c])
    /\ UNCHANGED <<driverVars, to_broker, callVars, faults>>

\* The consumer's queue is deleted.
CancelConsumer(c) ==
    /\ faults > 0 /\ faults' = faults - 1
    /\ \E t \in consuming[c] : Replies(c, Frame("cancelled", t, Boot), consuming[c] \ {t})
    /\ UNCHANGED <<driverVars, to_broker, callVars>>

-----------------------------------------------------------------------------
(* What the driver does with a frame.                                      *)

\* The bootstrap step that follows the one the broker confirmed.
NextStep ==
    CASE boot.stage = "handshake" -> At("confirms", 1, FALSE)
      [] boot.stage = "confirms" -> At("exchanges", 1, FALSE)
      [] OTHER -> At(boot.stage, boot.index + 1, FALSE)

BootGoesOn == boot' = NextStep /\ UNCHANGED <<call, wish>>

Configured == boot' = NextStep /\ UNCHANGED <<runtime, pending_disconnect, to_broker, call, wish>>

QosApplied(c) ==
    /\ IF c \in AutoStart THEN Consume(c, Boot) /\ UNCHANGED boot ELSE Prepared(c) /\ UNCHANGED to_broker
    /\ UNCHANGED <<runtime, pending_disconnect, call, wish>>

Consumed(c, frame) ==
    /\ runtime' = [runtime EXCEPT ![c].active = TRUE, ![c].active_tag = frame.tag]
    /\ IF frame.by = Boot THEN BootGoesOn ELSE Says(frame.by, TRUE) /\ UNCHANGED boot
    /\ UNCHANGED <<pending_disconnect, to_broker>>

\* Mutant: only the tag is cleared.
CancelledTagOnly(c, frame) ==
    /\ runtime' = [runtime EXCEPT ![c].active_tag = NoTag]
    /\ Says(frame.by, FALSE)
    /\ UNCHANGED <<boot, pending_disconnect, to_broker>>

Cancelled(c, frame) ==
    /\ runtime' = [runtime EXCEPT ![c].active = FALSE, ![c].active_tag = NoTag]
    /\ Says(frame.by, FALSE)
    /\ UNCHANGED <<boot, pending_disconnect, to_broker>>

HandlesMessage == UNCHANGED <<boot, runtime, pending_disconnect, to_broker, call, wish>>

\* RequestDisconnect, from a channel's error or a consumer cancelled by the
\* broker; an error also fails the calls that wait on that channel.
ChannelFails(channel, error) ==
    /\ pending_disconnect' = TRUE
    /\ call' = [k \in Calls |-> IF error /\ call[k].stage = "waiting" /\ Target[k] = channel
                                THEN NoCall ELSE call[k]]
    /\ UNCHANGED <<boot, runtime, to_broker, wish>>

\* PumpIncomingData: frames are parsed even after a disconnect was requested.
Receive(channel) ==
    /\ connection # "down" /\ boot.asked /\ to_driver[channel] # <<>>
    /\ LET frame == Head(to_driver[channel]) IN
        \/ frame.is = "setup" /\ Configured
        \/ frame.is = "qos" /\ QosApplied(channel)
        \/ frame.is = "consume" /\ Consumed(channel, frame)
        \/ frame.is = "cancel" /\ Cancelled(channel, frame)
        \/ frame.is = "deliver" /\ HandlesMessage
        \/ frame.is = "cancelled" /\ ChannelFails(channel, FALSE)
        \/ frame.is = "error" /\ ChannelFails(channel, TRUE)
    /\ to_driver' = [to_driver EXCEPT ![channel] = Tail(@)]
    /\ UNCHANGED <<connection, consuming, calls, faults>>

-----------------------------------------------------------------------------
ControlNext ==
    \/ ConnectSocket \/ ApplyReconnectBackoff \/ ConnectionLost \/ HandleDisconnect \/ Bootstrap
    \/ \E k \in Calls : Enqueue(k) \/ Run(k)
    \/ \E channel \in Channels : Answer(channel) \/ Refuse(channel) \/ Receive(channel)
    \/ \E c \in Consumers : Push(c) \/ CancelConsumer(c)

ControlSpec == ControlInit /\ [][ControlNext]_controlVars

\* The driver thread keeps looping, its socket delivers in order and the
\* broker answers; callers, faults and deliveries come as they please.
Fairness ==
    /\ WF_controlVars(ConnectSocket \/ HandleDisconnect \/ Bootstrap)
    /\ WF_controlVars(\E k \in Calls : Run(k))
    /\ \A channel \in Channels : WF_controlVars(Answer(channel)) /\ WF_controlVars(Receive(channel))

ControlFairSpec == ControlSpec /\ Fairness

-----------------------------------------------------------------------------
(* Properties.                                                             *)

Frames(is) == [is : is, tag : Nat, by : Calls \cup {Boot}]
Forth == Frames({"setup", "qos", "consume", "cancel"})
Back  == Frames({"setup", "qos", "consume", "cancel", "deliver", "cancelled", "error"})
Steps == [stage : {"handshake", "confirms", "exchanges", "queues", "bindings", "consumers", "done"},
          index : Nat \ {0}, asked : BOOLEAN]
Runtimes == [channel : BOOLEAN, active : BOOLEAN, active_tag : Nat]
CallStates == [stage : {"none", "queued", "waiting"}, asks : {"start", "stop"}]

ControlTypeOK ==
    /\ connection \in {"down", "setup", "ready"} /\ pending_disconnect \in BOOLEAN
    /\ boot \in Steps
    /\ runtime \in [Consumers -> Runtimes]
    /\ to_broker \in [Channels -> Seq(Forth)]
    /\ to_driver \in [Channels -> Seq(Back)]
    /\ consuming \in [Channels -> SUBSET (Nat \ {0})]
    /\ call \in [Calls -> CallStates]
    /\ wish \in [Consumers -> BOOLEAN]
    /\ calls \in 0 .. MaxCalls /\ faults \in 0 .. MaxFaults

\* Nothing but deliveries is under way on the consumer's channel.
Quiet(c) ==
    /\ to_broker[c] = <<>>
    /\ \A i \in DOMAIN to_driver[c] : to_driver[c][i].is = "deliver"

\* Once a ready connection has settled, the driver's runtime, what callers
\* and configuration were last told, and the broker agree about each
\* consumer, down to the tag that StopConsumer will cancel.
ControlAgrees ==
    /\ ControlTypeOK
    /\ connection = "ready" /\ ~pending_disconnect =>
        \A c \in Consumers : Quiet(c) /\ (\A k \in Calls : ~Controls(k, c)) =>
            /\ runtime[c].active = wish[c]
            /\ consuming[c] = IF wish[c] THEN {runtime[c].active_tag} ELSE {}

\* No message of a consumer is handled after StopConsumer has returned Ok and
\* before the consumer is started again, by a call or by a reconnect.
NoDeliveryAfterStop ==
    [][\A c \in Consumers :
        to_driver[c] # <<>> /\ to_driver'[c] = Tail(to_driver[c]) /\ Head(to_driver[c]).is = "deliver"
        /\ connection' = connection
        => wish[c]]_controlVars

\* Whatever breaks, the connection becomes ready again and the consumers that
\* should run do: the chain of replies that rebuilds them never ends early.
ComesBack == []<>(connection = "ready" /\ \A c \in Consumers : wish[c] => consuming[c] # {})
=============================================================================
