----------------------------- MODULE TaskBroker -----------------------------
(***************************************************************************)
(* RabbitMQ as the task flow uses it: one queue of tasks shared by the     *)
(* workers, one queue of results that the master reads, and one queue per  *)
(* worker for the control fanout.  The queue of a worker exists while its  *)
(* connection does (auto_delete).  The broker is not in src/: it is        *)
(* modelled from the queues and properties that master and workers         *)
(* declare, with manual acknowledgement and nothing persistent.            *)
(***************************************************************************)
EXTENDS Naturals, FiniteSets

CONSTANTS
    TaskCount,          \* bound on task_count
    Stale,              \* task messages of an earlier run, still in the queue
    Garbled,            \* messages of the queue ParseTaskMessage refuses
    Workers,            \* worker processes
    MaxFaults,          \* bound: lost connections and killed workers together
    MaxDeliveries,      \* bound: deliveries of one message, see Config
    Configs             \* what a run may start from, see Config

Tasks    == 1 .. TaskCount
Messages == Tasks \cup Stale \cup Garbled

\* Where a task message may be.  A worker stands for "unacked at that worker".
Places == {"unsent", "outbox", "ready", "gone", "lost"} \cup Workers

\* A run: how many tasks it has, whether it has a cancel flag, the worker
\* processes, those of them with a deadline (timeout_ms > 0), the messages of
\* earlier runs that the queue holds, the faults it may meet, and a bound: how
\* often one message is delivered.
Faults == {"kill", "worker link", "master link"}
Config == [task_count : 1 .. TaskCount, cancellable : BOOLEAN, workers : SUBSET Workers, timed : SUBSET Workers,
           old : SUBSET (Stale \cup Garbled), faults : SUBSET Faults, deliveries : 1 .. MaxDeliveries]

ASSUME TaskBrokerAssumption ==
    /\ TaskCount \in Nat \ {0}
    /\ MaxFaults \in Nat
    /\ MaxDeliveries \in Nat
    /\ Configs \subseteq Config
    /\ Stale \cap Garbled = {}
    /\ (Stale \cup Garbled) \cap Tasks = {}
    /\ Workers \cap {"unsent", "outbox", "ready", "gone", "lost"} = {}

VARIABLES
    config,             \* what this run starts from
    place,              \* place[m]: where the task message m is
    deliveries,         \* deliveries[m]: how often m was delivered to a worker
    results,            \* result messages waiting in the result queue
    answered,           \* history: tasks of which a result reached the broker
    control,            \* workers with a shutdown message in their queue
    misled,             \* history: tasks that a settle command for another delivery ended
    faults              \* connections lost and workers killed so far

broker == <<config, place, deliveries, results, answered, control, misled, faults>>

-----------------------------------------------------------------------------
\* The parts of ResultMessage that decide something.  "nth" says which delivery
\* of the task it comes from: it tells two results of one task apart.  The
\* program sees the image id only.
Result(m, nth, status) == [task |-> m, nth |-> nth, status |-> status]

\* Every status that is not "processed" counts as "failed".
ResultStatuses == {"processed", "failed"}

ResultMessages == [task : Tasks \cup Stale, nth : 1 .. MaxDeliveries, status : ResultStatuses]

BrokerInit ==
    /\ config \in Configs
    /\ place = [m \in Messages |-> IF m \in Tasks THEN "unsent" ELSE IF m \in config.old THEN "ready" ELSE "gone"]
    /\ deliveries = [m \in Messages |-> 0]
    /\ results = {}
    /\ answered = {}
    /\ control = {}
    /\ misled = {}
    /\ faults = 0

task_count == config.task_count

\* What an unacked message of w becomes when the connection of w ends.
Requeued(w) == [m \in Messages |-> IF place[m] = w THEN "ready" ELSE place[m]]

\* A fault of the environment: a lost connection, a killed worker.
Fault(kind) ==
    /\ kind \in config.faults
    /\ faults < MaxFaults
    /\ faults' = faults + 1

\* In this run a worker may lose its connection and go on.
LinksBreak == "worker link" \in config.faults

BrokerTypeOK ==
    /\ config \in Configs
    /\ place \in [Messages -> Places]
    /\ deliveries \in [Messages -> 0 .. MaxDeliveries]
    /\ results \subseteq ResultMessages
    /\ misled \subseteq Messages
    /\ answered \subseteq Tasks \cup Stale
    /\ control \subseteq Workers
    /\ faults \in 0 .. MaxFaults
=============================================================================
