----------------------------- MODULE TaskWorker -----------------------------
(***************************************************************************)
(* The worker process of the task flow (worker_sim.cpp): its main thread,  *)
(* which starts the modules, waits for the shutdown and stops them, and    *)
(* the handlers that the message bus runs on its pool, one job per         *)
(* delivered task.  A job fetches the image from the master, runs the      *)
(* algorithm, publishes the result and settles the task: in this order.    *)
(* The bus settles a task by its delivery tag, on the connection it has    *)
(* then.                                                                   *)
(***************************************************************************)
EXTENDS TaskBroker

VARIABLES
    wpc,                \* wpc[w]: where the main thread of w is
    wlink,              \* workers whose bus connection stands
    tags,               \* tags[w]: the last delivery tag of its task consumer's channel
    closed,             \* workers of which the broker has closed that channel
    told,               \* WorkerState.shutdown_received, as the set of workers
    jobs,               \* deliveries that have not been settled
    computed            \* history: tasks whose image was fetched and processed

channel == <<wlink, tags, closed>>
worker  == <<wpc, channel, told, jobs, computed>>

-----------------------------------------------------------------------------
(* A job is a delivered task.  "active": in ProcessTask, counted in        *)
(* active_jobs.  "ack", "requeue", "reject": the settle command waits in   *)
(* the command queue of the driver, behind the result that the same job    *)
(* has published (unsent).                                                 *)

Settling == {"ack", "requeue", "reject"}

Jobs == [task : Messages, nth : 1 .. MaxDeliveries, tag : Nat \ {0}, worker : Workers,
         stage : {"active"} \cup Settling, unsent : BOOLEAN]

JobsOf(w) == {j \in jobs : j.worker = w}
active_jobs(w) == Cardinality({j \in JobsOf(w) : j.stage = "active"})

Becomes(j, k) == jobs' = (jobs \ {j}) \cup {k}

\* The broker still holds the delivery of j as unacked.
Unacked(j) == place[j.task] = j.worker /\ deliveries[j.task] = j.nth

WorkerInit ==
    /\ wpc = [w \in Workers |-> IF w \in config.workers THEN "setup" ELSE "done"]
    /\ wlink = {}
    /\ tags = [w \in Workers |-> 0]
    /\ closed = {}
    /\ told = {}
    /\ jobs = {}
    /\ computed = {}

Goto(w, from, to) ==
    /\ wpc[w] = from
    /\ wpc' = [wpc EXCEPT ![w] = to]

\* The connection of w ends: the broker requeues what was unacked and deletes
\* the control queue.
Unlink(w) ==
    /\ wlink' = wlink \ {w}
    /\ tags' = [tags EXCEPT ![w] = 0]
    /\ closed' = closed \ {w}
    /\ place' = Requeued(w)
    /\ control' = control \ {w}
    /\ UNCHANGED <<config, deliveries, results, answered, misled>>

-----------------------------------------------------------------------------
(* main.                                                                   *)

\* Arguments, directory, LoadModules, Init, Start, the services, the plugin,
\* and the handlers of both consumers.
WorkerStart(w) ==
    /\ Goto(w, "setup", "connecting")
    /\ UNCHANGED <<broker, channel, told, jobs, computed>>

\* One of those failed: what was started is stopped.
WorkerStartFails(w) ==
    /\ Goto(w, "setup", "left")
    /\ UNCHANGED <<broker, channel, told, jobs, computed>>

\* WaitForConnected has seen the connection.
WorkerReady(w) ==
    /\ w \in wlink
    /\ Goto(w, "connecting", "serving")
    /\ UNCHANGED <<broker, channel, told, jobs, computed>>

\* The wait loop ends: shutdown received and no job active.
WorkerLeaves(w) ==
    /\ w \in told
    /\ active_jobs(w) = 0
    /\ Goto(w, "serving", "left")
    /\ UNCHANGED <<broker, channel, told, jobs, computed>>

\* WaitForConnected or the wait loop ends: timeout_ms has passed.  With
\* timeout_ms = 0 both wait without a deadline.
WorkerTimesOut(w) ==
    /\ w \in config.timed
    /\ Goto(w, "connecting", "left") \/ Goto(w, "serving", "left")
    /\ UNCHANGED <<broker, channel, told, jobs, computed>>

\* unregister_consumers has been called.  host.Stop: the pool runs every handler
\* to the end, the driver drains its commands and closes the connection, which
\* does to a message without a handler what its requeue would do; then Fini.
WorkerStops(w) ==
    /\ \A j \in JobsOf(w) : j.stage = "requeue"
    /\ jobs' = jobs \ JobsOf(w)
    /\ Goto(w, "left", "done")
    /\ Unlink(w)
    /\ UNCHANGED <<faults, told, computed>>

-----------------------------------------------------------------------------
(* The handlers.                                                           *)

\* What becomes of a message that is delivered to w: without a handler the bus
\* requeues it, one that ParseTaskMessage refuses is rejected, the others are
\* processed.
FirstStage(m, w) ==
    IF wpc[w] \in {"setup", "left"} THEN "requeue"
    ELSE IF m \in Garbled THEN "reject" ELSE "active"

\* Mutant: task_consumer is configured with auto_ack.
TaskHandlerAutoAck(m, w) ==
    /\ place[m] = "ready"
    /\ deliveries[m] < config.deliveries
    /\ w \in wlink \ closed
    /\ place' = [place EXCEPT ![m] = "gone"]
    /\ deliveries' = [deliveries EXCEPT ![m] = @ + 1]
    /\ tags' = [tags EXCEPT ![w] = @ + 1]
    /\ jobs' = jobs \cup {[task |-> m, nth |-> deliveries'[m], tag |-> tags'[w], worker |-> w,
                           stage |-> FirstStage(m, w), unsent |-> FALSE]}
    /\ UNCHANGED <<config, results, answered, control, misled, faults, wpc, wlink, closed, told, computed>>

\* The broker delivers a task, with the next tag of the channel, and task_handler
\* starts.
TaskHandler(m, w) ==
    /\ place[m] = "ready"
    /\ deliveries[m] < config.deliveries
    /\ w \in wlink \ closed
    /\ place' = [place EXCEPT ![m] = w]
    /\ deliveries' = [deliveries EXCEPT ![m] = @ + 1]
    /\ tags' = [tags EXCEPT ![w] = @ + 1]
    /\ jobs' = jobs \cup {[task |-> m, nth |-> deliveries'[m], tag |-> tags'[w], worker |-> w,
                           stage |-> FirstStage(m, w), unsent |-> FALSE]}
    /\ UNCHANGED <<config, results, answered, control, misled, faults, wpc, wlink, closed, told, computed>>

\* PublishResultMessage and what ProcessTask makes of it: refused without a
\* connection, and then the task is requeued; otherwise the result is a
\* command of the driver and the settle command follows it.
Published(j, outcome) ==
    IF j.worker \in wlink
    THEN Becomes(j, [j EXCEPT !.unsent = TRUE,
                              !.stage = IF outcome = "processed" THEN "ack" ELSE "reject"])
    ELSE Becomes(j, [j EXCEPT !.stage = "requeue"])

\* Mutant: a missing image is taken for an image.
ProcessTaskBlindly(j, reply) ==
    /\ j.stage = "active"
    /\ \/ /\ reply \in {"image", "missing"}
          /\ Published(j, "processed")
          /\ computed' = IF reply = "image" THEN computed \cup {j.task} ELSE computed
       \/ /\ reply = "error"
          /\ Becomes(j, [j EXCEPT !.stage = "requeue"])
          /\ UNCHANGED computed
    /\ UNCHANGED <<broker, wpc, channel, told>>

\* ProcessTask.  reply is what FetchImage came to: the image, "missing" (no
\* such image, or no such route) or "error" (IsRecoverableFetchError).  The
\* image may have the wrong size and the algorithm may fail.
ProcessTask(j, reply) ==
    /\ j.stage = "active"
    /\ \/ /\ reply = "image"
          /\ Published(j, "processed")
          /\ computed' = computed \cup {j.task}
       \/ /\ reply \in {"image", "missing"}
          /\ Published(j, "failed")
          /\ UNCHANGED computed
       \/ /\ reply = "error"
          /\ Becomes(j, [j EXCEPT !.stage = "requeue"])
          /\ UNCHANGED computed
    /\ UNCHANGED <<broker, wpc, channel, told>>

\* The driver executes the publish command: it is dropped if the connection
\* was lost since.
SendResult(j) ==
    /\ j.unsent
    /\ Becomes(j, [j EXCEPT !.unsent = FALSE])
    /\ IF j.worker \in wlink
       THEN /\ results' = results \cup {Result(j.task, j.nth, IF j.stage = "ack" THEN "processed" ELSE "failed")}
            /\ answered' = answered \cup {j.task}
       ELSE UNCHANGED <<results, answered>>
    /\ UNCHANGED <<config, place, deliveries, control, misled, faults, wpc, channel, told, computed>>

\* What the broker does with the settle command of j: it ends or requeues the
\* delivery that has this tag on the channel the consumer has now, be it that
\* of j or another's.  A tag it does not know makes it close the channel.
Settle(j) ==
    LET named == {k \in JobsOf(j.worker) : k.tag = j.tag /\ Unacked(k)}
    IN  \/ \E k \in named :
               /\ place' = [place EXCEPT ![k.task] = IF j.stage = "requeue" THEN "ready" ELSE "gone"]
               /\ misled' = IF k = j \/ j.stage = "requeue" THEN misled ELSE misled \cup {k.task}
               /\ UNCHANGED closed
        \/ /\ named = {}
           /\ place' = Requeued(j.worker)
           /\ closed' = closed \cup {j.worker}
           /\ UNCHANGED misled

\* Mutant: a settle command that finds no connection stays in the queue.
SendSettleOnLink(j) ==
    /\ j.stage \in Settling /\ ~ j.unsent
    /\ j.worker \in wlink
    /\ jobs' = jobs \ {j}
    /\ IF j.worker \in wlink \ closed THEN Settle(j) ELSE UNCHANGED <<place, misled, closed>>
    /\ UNCHANGED <<config, deliveries, results, answered, control, faults, wpc, wlink, tags, told, computed>>

\* The driver executes the settle command (CompleteDeliveryAsync); without a
\* connection it is dropped, and on a channel that was closed it does nothing.
SendSettle(j) ==
    /\ j.stage \in Settling /\ ~ j.unsent
    /\ jobs' = jobs \ {j}
    /\ IF j.worker \in wlink \ closed THEN Settle(j) ELSE UNCHANGED <<place, misled, closed>>
    /\ UNCHANGED <<config, deliveries, results, answered, control, faults, wpc, wlink, tags, told, computed>>

\* The control message reaches control_handler.  Without a handler it is
\* requeued, and stays.
ControlHandler(w) ==
    /\ w \in control /\ w \in wlink /\ wpc[w] \in {"connecting", "serving"}
    /\ control' = control \ {w}
    /\ told' = told \cup {w}
    /\ UNCHANGED <<config, place, deliveries, results, answered, misled, faults, wpc, channel, jobs, computed>>

-----------------------------------------------------------------------------
(* The connection, and the process.                                        *)

WorkerConnects(w) ==
    /\ wpc[w] \notin {"done", "killed"} /\ w \notin wlink
    /\ wlink' = wlink \cup {w}
    /\ UNCHANGED <<broker, wpc, tags, closed, told, jobs, computed>>

\* The link fails, or the driver hears that its channel was closed.  The jobs
\* go on.
WorkerDisconnects(w) ==
    /\ Fault("worker link")
    /\ w \in wlink
    /\ Unlink(w)
    /\ UNCHANGED <<wpc, told, jobs, computed>>

\* The process is killed: its jobs and its command queue go with it.
Kill(w) ==
    /\ Fault("kill")
    /\ wpc[w] # "done"
    /\ wpc' = [wpc EXCEPT ![w] = "killed"]
    /\ Unlink(w)
    /\ jobs' = jobs \ JobsOf(w)
    /\ UNCHANGED <<told, computed>>

-----------------------------------------------------------------------------
WorkerMain(w) ==
    \/ WorkerStart(w) \/ WorkerStartFails(w) \/ WorkerReady(w)
    \/ WorkerLeaves(w) \/ WorkerTimesOut(w) \/ WorkerStops(w)

WorkerDriver(j) == SendResult(j) \/ SendSettle(j)

WorkerTypeOK ==
    /\ wpc \in [Workers -> {"setup", "connecting", "serving", "left", "done", "killed"}]
    /\ wlink \subseteq Workers
    /\ tags \in [Workers -> Nat]
    /\ closed \subseteq wlink
    /\ told \subseteq Workers
    /\ jobs \subseteq Jobs
    /\ computed \subseteq Tasks \cup Stale
=============================================================================
