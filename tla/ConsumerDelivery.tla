-------------------------- MODULE ConsumerDelivery --------------------------
(***************************************************************************)
(* The way of a message through the AMQP bus: from the broker's queue to   *)
(* the driver thread, to a worker that runs the handler, and back as an    *)
(* ack, a requeue or a reject.  A delivery is known by its tag alone,      *)
(* and tags are counted per channel.  One consumer with manual acks; the   *)
(* stop of the module is here too, because a message may be anywhere when  *)
(* it happens.                                                             *)
(***************************************************************************)
EXTENDS Naturals, Sequences, FiniteSets

CONSTANTS
    Messages,           \* messages of the consumer's queue
    Malformed,          \* those with headers the module cannot represent
    Prefetch,           \* prefetch_count of the consumer
    MaxConnections,     \* bound: how often the connection is built
    MaxDeliveries       \* bound: deliveries per connection

ASSUME ConsumerDeliveryAssumption ==
    /\ Malformed \subseteq Messages
    /\ Prefetch \in Nat \ {0}
    /\ MaxConnections \in Nat
    /\ MaxDeliveries \in Nat

VARIABLES
    queue,              \* messages that wait at the broker
    unacked,            \* tag -> message, on the broker's side of the channel
    delivered,          \* deliveries the broker has counted on this channel
    settled,            \* settled[m]: how the broker disposed of m
    connections,        \* how often the connection was built
    connected,          \* the consumer has a channel
    inbound,            \* deliveries on their way to the driver thread
    outbound,           \* completions on their way to the broker
    dispatch,           \* the delivery the driver thread is handing over
    tasks,              \* deliveries whose handler is queued or running
    commands,           \* completions in the driver's command queue
    decisions,          \* decisions[m]: what has been decided on m so far
    stopping,           \* AmqpBusSharedState.stopping
    pool,               \* the worker pool: "running", "closing" or "stopped"
    driver              \* the driver: "running", "stopping" or "stopped"

broker == <<queue, unacked, delivered, settled>>
link   == <<connections, connected>>
stop   == <<stopping, pool, driver>>
vars   == <<broker, link, inbound, outbound, dispatch, tasks, commands, decisions, stop>>

-----------------------------------------------------------------------------
Actions == {"Ack", "Requeue", "Reject"}

NoTags == [t \in {} |-> 0]
Without(f, t) == [u \in DOMAIN f \ {t} |-> f[u]]

\* DeliveryContext names the tag.  The message and the connection are known
\* to the model only.
Delivery(m, t) == [message |-> m, tag |-> t, connection |-> connections]

Completion(d, action) == [delivery |-> d, action |-> action]

Elements(s) == {s[i] : i \in DOMAIN s}

Init ==
    /\ queue = Messages
    /\ unacked = NoTags
    /\ delivered = 0
    /\ settled = [m \in Messages |-> "no"]
    /\ connections = 0
    /\ connected = FALSE
    /\ inbound = <<>>
    /\ outbound = <<>>
    /\ dispatch = {}
    /\ tasks = {}
    /\ commands = <<>>
    /\ decisions = [m \in Messages |-> {}]
    /\ stopping = FALSE
    /\ pool = "running"
    /\ driver = "running"

-----------------------------------------------------------------------------
(* The broker.                                                             *)

BrokerDeliver(m) ==
    /\ connected
    /\ m \in queue
    /\ Cardinality(DOMAIN unacked) < Prefetch
    /\ delivered < MaxDeliveries
    /\ delivered' = delivered + 1
    /\ queue' = queue \ {m}
    /\ unacked' = [t \in DOMAIN unacked \cup {delivered'} |-> IF t = delivered' THEN m ELSE unacked[t]]
    /\ inbound' = Append(inbound, Delivery(m, delivered'))
    /\ UNCHANGED <<settled, link, outbound, dispatch, tasks, commands, decisions, stop>>

\* basic.ack or basic.reject of a tag that is outstanding.
BrokerSettle ==
    /\ outbound # <<>>
    /\ LET t == Head(outbound).delivery.tag
           action == Head(outbound).action
       IN  /\ t \in DOMAIN unacked
           /\ unacked' = Without(unacked, t)
           /\ queue' = IF action = "Requeue" THEN queue \cup {unacked[t]} ELSE queue
           /\ settled' = IF action = "Requeue" THEN settled ELSE [settled EXCEPT ![unacked[t]] = action]
    /\ outbound' = Tail(outbound)
    /\ UNCHANGED <<delivered, link, inbound, dispatch, tasks, commands, decisions, stop>>

UnknownTag == outbound # <<>> /\ Head(outbound).delivery.tag \notin DOMAIN unacked

-----------------------------------------------------------------------------
(* The connection.                                                         *)

\* BootstrapConsumers: a new channel for the consumer, and basic.consume.
Connect ==
    /\ ~connected
    /\ driver = "running"
    /\ connections < MaxConnections
    /\ connections' = connections + 1
    /\ connected' = TRUE
    /\ delivered' = 0
    /\ UNCHANGED <<queue, unacked, settled, inbound, outbound, dispatch, tasks, commands, decisions, stop>>

\* HandleDisconnect clears consumer_runtimes_, and the broker puts back what
\* was outstanding.  Handlers and their completions know nothing of it.
Drop ==
    /\ connected' = FALSE
    /\ queue' = queue \cup {unacked[t] : t \in DOMAIN unacked}
    /\ unacked' = NoTags
    /\ inbound' = <<>>
    /\ outbound' = <<>>
    /\ UNCHANGED <<delivered, settled, connections, dispatch, tasks, decisions>>

\* The link fails between two frames, or the broker closes the channel because
\* a completion names a tag it does not know.
Disconnect ==
    /\ connected
    /\ dispatch = {}
    /\ driver # "stopped"
    /\ Drop
    /\ UNCHANGED <<commands, stop>>

-----------------------------------------------------------------------------
(* HandleIncomingMessage and the delivery callback, on the driver thread.  *)

\* Mutant: a message to be put back is not answered at all.
CompleteUnlessRequeue(d, action) ==
    /\ decisions' = [decisions EXCEPT ![d.message] = @ \cup {action}]
    /\ commands' = IF driver = "running" /\ action # "Requeue" THEN Append(commands, Completion(d, action)) ELSE commands

\* CompleteDeliveryAsync, with the check and EnqueueCommand: a driver that has
\* been told to stop takes no completion.
CompleteDeliveryAsync(d, action) ==
    /\ decisions' = [decisions EXCEPT ![d.message] = @ \cup {action}]
    /\ commands' = IF driver = "running" THEN Append(commands, Completion(d, action)) ELSE commands

\* A malformed message is rejected; the callback puts back what arrives while
\* the module stops, and looks up the handler otherwise.
HandleIncomingMessage ==
    /\ inbound # <<>>
    /\ dispatch = {}
    /\ driver # "stopped"
    /\ \/ /\ Head(inbound).message \in Malformed
          /\ CompleteDeliveryAsync(Head(inbound), "Reject")
          /\ UNCHANGED dispatch
       \/ /\ Head(inbound).message \notin Malformed
          /\ stopping
          /\ CompleteDeliveryAsync(Head(inbound), "Requeue")
          /\ UNCHANGED dispatch
       \/ /\ Head(inbound).message \notin Malformed
          /\ ~stopping
          /\ dispatch' = {Head(inbound)}
          /\ UNCHANGED <<commands, decisions>>
    /\ inbound' = Tail(inbound)
    /\ UNCHANGED <<broker, link, outbound, tasks, stop>>

\* Mutant: nobody looks whether the task was accepted.
SubmitUnchecked ==
    /\ dispatch # {}
    /\ tasks' = IF pool = "running" THEN tasks \cup dispatch ELSE tasks
    /\ dispatch' = {}
    /\ UNCHANGED <<broker, link, inbound, outbound, commands, decisions, stop>>

\* Mutant: a closed pool holds up the driver thread.
SubmitOrWait ==
    /\ dispatch # {}
    /\ pool = "running"
    /\ dispatch' = {}
    /\ tasks' = tasks \cup dispatch
    /\ UNCHANGED <<broker, link, inbound, outbound, commands, decisions, stop>>

\* The lock has been released since: the pool may have been shut down.
Submit ==
    /\ dispatch # {}
    /\ dispatch' = {}
    /\ \/ /\ pool = "running"
          /\ tasks' = tasks \cup dispatch
          /\ UNCHANGED <<commands, decisions>>
       \/ /\ pool # "running"
          /\ \E d \in dispatch : CompleteDeliveryAsync(d, "Requeue")
          /\ UNCHANGED tasks
    /\ UNCHANGED <<broker, link, inbound, outbound, stop>>

\* A worker runs the handler; with no handler, or one that throws, the message
\* is put back.
Handle(d, action) ==
    /\ d \in tasks
    /\ tasks' = tasks \ {d}
    /\ CompleteDeliveryAsync(d, action)
    /\ UNCHANGED <<broker, link, inbound, outbound, dispatch, stop>>

\* The driver thread runs the completion: if the consumer has a channel.
RunCompletion ==
    /\ commands # <<>>
    /\ dispatch = {}
    /\ driver # "stopped"
    /\ commands' = Tail(commands)
    /\ outbound' = IF connected THEN Append(outbound, Head(commands)) ELSE outbound
    /\ UNCHANGED <<broker, link, inbound, dispatch, tasks, decisions, stop>>

-----------------------------------------------------------------------------
(* OnStop: first the workers, then the driver.                             *)

StopBegin ==
    /\ ~stopping
    /\ stopping' = TRUE
    /\ UNCHANGED <<broker, link, inbound, outbound, dispatch, tasks, commands, decisions, pool, driver>>

\* ThreadPool::Shutdown closes the queue and waits for the tasks in it.
PoolShutdown ==
    /\ stopping
    /\ \/ pool = "running" /\ pool' = "closing"
       \/ pool = "closing" /\ tasks = {} /\ pool' = "stopped"
    /\ UNCHANGED <<broker, link, inbound, outbound, dispatch, tasks, commands, decisions, stopping, driver>>

\* Mutant: the driver is stopped without waiting for the workers.
DriverStopAtOnce ==
    /\ stopping
    /\ driver = "running"
    /\ driver' = "stopping"
    /\ UNCHANGED <<broker, link, inbound, outbound, dispatch, tasks, commands, decisions, stopping, pool>>

DriverStop ==
    /\ pool = "stopped"
    /\ driver = "running"
    /\ driver' = "stopping"
    /\ UNCHANGED <<broker, link, inbound, outbound, dispatch, tasks, commands, decisions, stopping, pool>>

\* ThreadMain drains the commands, flushes what the socket takes, and gives up
\* the connection.
DriverLeaves ==
    /\ driver = "stopping"
    /\ dispatch = {}
    /\ commands = <<>>
    /\ driver' = "stopped"
    /\ Drop
    /\ UNCHANGED <<commands, stopping, pool>>

-----------------------------------------------------------------------------
Driver == HandleIncomingMessage \/ Submit \/ RunCompletion \/ DriverLeaves

Worker == \E d \in tasks, action \in Actions : Handle(d, action)

OnStop == StopBegin \/ PoolShutdown \/ DriverStop

Next ==
    \/ \E m \in Messages : BrokerDeliver(m)
    \/ BrokerSettle
    \/ Connect \/ Disconnect
    \/ Driver \/ Worker \/ OnStop

Spec == Init /\ [][Next]_vars

\* Threads run, handlers return and the broker reads its socket, or notices
\* that the completion at the head of it is an error.
FairSpec ==
    /\ Spec
    /\ WF_vars(HandleIncomingMessage \/ Submit)
    /\ WF_vars(RunCompletion)
    /\ WF_vars(DriverLeaves)
    /\ WF_vars(Worker)
    /\ WF_vars(BrokerSettle)
    /\ WF_vars(UnknownTag /\ Disconnect)
    /\ WF_vars(PoolShutdown)
    /\ WF_vars(DriverStop)

-----------------------------------------------------------------------------
(* Properties.                                                             *)

Deliveries == [message : Messages, tag : Nat \ {0}, connection : Nat]
Completions == [delivery : Deliveries, action : Actions]

\* Every variable holds a value of its type.
TypeOK ==
    /\ queue \subseteq Messages
    /\ DOMAIN unacked \subseteq 1..delivered
    /\ \A t \in DOMAIN unacked : unacked[t] \in Messages
    /\ delivered \in Nat
    /\ settled \in [Messages -> {"no", "Ack", "Reject"}]
    /\ connections \in Nat
    /\ connected \in BOOLEAN
    /\ inbound \in Seq(Deliveries)
    /\ outbound \in Seq(Completions)
    /\ dispatch \subseteq Deliveries
    /\ Cardinality(dispatch) \leq 1
    /\ tasks \subseteq Deliveries
    /\ commands \in Seq(Completions)
    /\ decisions \in [Messages -> SUBSET Actions]
    /\ stopping \in BOOLEAN
    /\ pool \in {"running", "closing", "stopped"}
    /\ driver \in {"running", "stopping", "stopped"}

\* Where a delivery of the current connection can be.
Known ==
    Elements(inbound) \cup dispatch \cup tasks
    \cup {c.delivery : c \in Elements(commands) \cup Elements(outbound)}

\* No delivery is leaked: as long as the driver runs, each one the broker holds
\* a prefetch slot for is on its way to a handler, with a handler, or on its
\* way back.  A leaked one would block the consumer for good.
EveryDeliveryIsHeld ==
    driver = "running" =>
        \A t \in DOMAIN unacked : Delivery(unacked[t], t) \in Known

\* IMessageBusService.h:75-76: what the handler returns decides what becomes of
\* the message.  The broker never disposes of a message because of what was
\* decided about another one.
SettledByOwnDecision ==
    \A m \in Messages : settled[m] # "no" => settled[m] \in decisions[m]

\* As long as the first connection is the only one there was, which is when a
\* tag names one delivery.
DecisionsStayApart == connections = 1 => SettledByOwnDecision

\* OnStop stops the workers first so that their acks still go out: if the link
\* has held until the driver thread leaves, and took all it was given, nothing
\* that a handler acknowledged is delivered again.
StopKeepsAcks ==
    [][(driver # driver' /\ driver' = "stopped" /\ connected /\ connections = 1 /\ outbound = <<>>) =>
           \A m \in Messages : "Ack" \in decisions[m] => settled[m] = "Ack"]_vars

\* A slot of the prefetch window comes free again.
EverySlotIsFreed ==
    \A t \in 1..MaxDeliveries : t \in DOMAIN unacked ~> t \notin DOMAIN unacked

\* Stop comes to an end: no message on its way holds it up.
StopCompletes == stopping ~> driver = "stopped"

\* The broker's side and the module's agree on what is under way.
DeliveriesAgree == TypeOK /\ EveryDeliveryIsHeld /\ DecisionsStayApart
=============================================================================
