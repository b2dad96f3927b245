----------------------------- MODULE TaskMaster -----------------------------
(***************************************************************************)
(* RunTaskFlowMaster (master_runner.cpp): one thread publishes the tasks   *)
(* and waits for their results, the handlers of the message bus take the   *)
(* results in, two lock sections each, and the HTTP server hands out the   *)
(* images of an in-memory store.  All of them share SharedState under its  *)
(* mutex and the image store under another.                                *)
(***************************************************************************)
EXTENDS TaskBroker

CONSTANTS
    Capacity,           \* images that image_store_capacity_bytes has room for
    HasTimeout,         \* timeout_ms > 0
    SendsShutdown       \* send_shutdown

ASSUME TaskMasterAssumption ==
    /\ Capacity \in Nat
    /\ HasTimeout \in BOOLEAN
    /\ SendsShutdown \in BOOLEAN

VARIABLES
    mpc,                \* the step of RunTaskFlowMaster
    index,              \* source_index, and the index of the final sweep
    exit,               \* how it ends: "none", "success" or "failure"
    cancelled,          \* the local of that name
    timed_out,          \* the local of that name
    host,               \* "down", "init" or "up": the modules of the process
    route,              \* the image route is registered
    handler,            \* the handler of result_consumer is registered
    mlink,              \* the bus connection of the master stands
    epoch,              \* which connection it is
    shutdown,           \* the control message: "no", "outbox" or "sent"
    images,             \* InMemoryImageStore.images_
    status,             \* TaskState.status
    stored,             \* TaskState.image_store_status
    finished,           \* tasks with TaskState.finished
    received,           \* tasks with TaskState.result_received
    late,               \* SharedState.late_result_ack_only
    count,              \* finished_count, success_count, failure_count, result_count
    rjobs               \* results that the bus has taken and not yet settled

run     == <<mpc, index, exit, cancelled, timed_out>>
modules == <<host, route, handler>>
link    == <<mlink, epoch, shutdown>>
rows    == <<status, stored, finished, received, late, count>>
master  == <<run, modules, link, images, rows, rjobs>>

-----------------------------------------------------------------------------
Finals == {"timeout", "cancelled"}
Statuses == {"pending"} \cup ResultStatuses \cup Finals

\* A result in the hands of the bus.  "finishing": HandleResultMessage is
\* between its two lock sections; "ack": the settle command waits in the
\* driver.
RJobs == [task : Tasks \cup Stale, nth : 1 .. MaxDeliveries, status : ResultStatuses,
          epoch : 0 .. MaxFaults, stage : {"finishing", "ack"}]

MasterInit ==
    /\ mpc = "build"
    /\ index = 1
    /\ exit = "none"
    /\ cancelled = FALSE
    /\ timed_out = FALSE
    /\ host = "down"
    /\ route = FALSE
    /\ handler = FALSE
    /\ mlink = FALSE
    /\ epoch = 0
    /\ shutdown = "no"
    /\ images = {}
    /\ status = [t \in Tasks |-> "pending"]
    /\ stored = [t \in Tasks |-> "not_stored"]
    /\ finished = {}
    /\ received = {}
    /\ late = FALSE
    /\ count = [finished |-> 0, success |-> 0, failure |-> 0, result |-> 0]
    /\ rjobs = {}

Step(from, to) == mpc = from /\ mpc' = to

-----------------------------------------------------------------------------
(* InMemoryImageStore.  Images are put in the order of the tasks, so those *)
(* whose time is over are a prefix of that order.                          *)

CleanupExpiredLocked == {{t \in images : t > oldest} : oldest \in 0 .. task_count}

\* GET of the image of task m by a worker: the handler of the route drops
\* what has expired and looks the image up; without the route the server
\* answers "not found"; without the server, or when it cannot serve, the
\* request fails with a recoverable error.
ImageRequest(m, reply) ==
    \/ /\ reply = "error"
       /\ UNCHANGED images
    \/ /\ host = "up" /\ ~ route
       /\ reply = "missing"
       /\ UNCHANGED images
    \/ /\ host = "up" /\ route
       /\ images' \in CleanupExpiredLocked
       /\ reply = IF m \in images' THEN "image" ELSE "missing"

-----------------------------------------------------------------------------
(* Setup.  A step that fails undoes what was built before it.              *)

\* EnsureDirectory, LoadModules, Init, the image store and its route.
Build ==
    /\ Step("build", "start")
    /\ host' = "init"
    /\ route' = TRUE
    /\ UNCHANGED <<broker, index, exit, cancelled, timed_out, handler, link, images, rows, rjobs>>

\* One of them fails: Fini, if it came to Init.
BuildFails ==
    /\ Step("build", "done")
    /\ exit' = "failure"
    /\ UNCHANGED <<broker, index, cancelled, timed_out, modules, link, images, rows, rjobs>>

Start ==
    /\ Step("start", "consumer")
    /\ host' = "up"
    /\ UNCHANGED <<broker, index, exit, cancelled, timed_out, route, handler, link, images, rows, rjobs>>

StartFails ==
    /\ Step("start", "done")
    /\ exit' = "failure"
    /\ route' = FALSE
    /\ host' = "down"
    /\ UNCHANGED <<broker, index, cancelled, timed_out, handler, link, images, rows, rjobs>>

\* BusService and RegisterConsumerHandler("result_consumer").
RegisterConsumer ==
    /\ Step("consumer", "connect")
    /\ handler' = TRUE
    /\ UNCHANGED <<broker, index, exit, cancelled, timed_out, host, route, link, images, rows, rjobs>>

\* WaitForConnected, and Prepare of the source.
MasterReady ==
    /\ mlink
    /\ Step("connect", "source")
    /\ UNCHANGED <<broker, index, exit, cancelled, timed_out, modules, link, images, rows, rjobs>>

\* The registration, the connection (within timeout_ms) or the source fails:
\* unregister, Stop, Fini.
SetupFails ==
    /\ mpc \in {"consumer", "connect"}
    /\ mpc' = "unregister"
    /\ exit' = "failure"
    /\ UNCHANGED <<broker, index, cancelled, timed_out, modules, link, images, rows, rjobs>>

-----------------------------------------------------------------------------
(* The loop that publishes.                                                *)

\* cancel_requested is set at any time by another thread, and it is read here
\* and in the loop that waits; what is seen once ends the loop.
CancelSeen ==
    /\ config.cancellable
    /\ index <= task_count
    /\ Step("source", "mark")
    /\ cancelled' = TRUE
    /\ UNCHANGED <<broker, index, exit, timed_out, modules, link, images, rows, rjobs>>

\* FinalizeTask: one lock section, which does nothing to a finished task.
FinalizeTask(t, s) ==
    IF t \in finished THEN UNCHANGED <<status, finished, count>>
    ELSE /\ status' = [status EXCEPT ![t] = s]
         /\ finished' = finished \cup {t}
         /\ count' = [count EXCEPT !.finished = @ + 1,
                                   !.success = @ + (IF s = "processed" THEN 1 ELSE 0),
                                   !.failure = @ + (IF s = "processed" THEN 0 ELSE 1)]

\* GetFrame fails: "source_failed".
SourceFails ==
    /\ mpc = "source" /\ index <= task_count
    /\ FinalizeTask(index, "failed")
    /\ index' = index + 1
    /\ UNCHANGED <<broker, mpc, exit, cancelled, timed_out, modules, link, images, stored, received, late, rjobs>>

\* GetFrame, the row and image_lookup.
Source ==
    /\ index <= task_count
    /\ Step("source", "put")
    /\ UNCHANGED <<broker, index, exit, cancelled, timed_out, modules, link, images, rows, rjobs>>

\* Put drops what has expired; then there is room for the image, ...
Put ==
    /\ Step("put", "publish")
    /\ \E kept \in CleanupExpiredLocked :
        /\ Cardinality(kept) < Capacity
        /\ images' = kept \cup {index}
    /\ stored' = [stored EXCEPT ![index] = "stored"]
    /\ UNCHANGED <<broker, index, exit, cancelled, timed_out, modules, link,
                   status, finished, received, late, count, rjobs>>

\* ... or not: "image_store_failed".
PutFails ==
    /\ Step("put", "source")
    /\ images' \in CleanupExpiredLocked
    /\ Cardinality(images') >= Capacity
    /\ stored' = [stored EXCEPT ![index] = "put_failed"]
    /\ FinalizeTask(index, "failed")
    /\ index' = index + 1
    /\ UNCHANGED <<broker, exit, cancelled, timed_out, modules, link, received, late, rjobs>>

\* PublishTaskMessage: a command of the driver.
PublishTask ==
    /\ mlink
    /\ Step("publish", "source")
    /\ place' = [place EXCEPT ![index] = "outbox"]
    /\ index' = index + 1
    /\ UNCHANGED <<config, deliveries, results, answered, control, misled, faults, exit, cancelled, timed_out,
                   modules, link, images, rows, rjobs>>

\* It is refused without a connection: the image is deleted again, and the
\* task ends as "publish_enqueue_failed".
PublishFails ==
    /\ ~ mlink
    /\ Step("publish", "source")
    /\ images' = images \ {index}
    /\ stored' = [stored EXCEPT ![index] = "deleted"]
    /\ FinalizeTask(index, "failed")
    /\ index' = index + 1
    /\ UNCHANGED <<broker, exit, cancelled, timed_out, modules, link, received, late, rjobs>>

AllPublished ==
    /\ index > task_count
    /\ Step("source", "wait")
    /\ UNCHANGED <<broker, index, exit, cancelled, timed_out, modules, link, images, rows, rjobs>>

-----------------------------------------------------------------------------
(* The loop that waits.  It looks at finished_count, then at the cancel    *)
(* flag, then sleeps for at most 200 ms on completion_cv.  A turn that     *)
(* finds nothing changes nothing.                                          *)

Sleep ==
    /\ count.finished < task_count
    /\ Step("wait", "asleep")
    /\ UNCHANGED <<broker, index, exit, cancelled, timed_out, modules, link, images, rows, rjobs>>

WaitEnds ==
    /\ count.finished >= task_count
    /\ mpc \in {"wait", "asleep"} /\ mpc' = "mark"
    /\ UNCHANGED <<broker, index, exit, cancelled, timed_out, modules, link, images, rows, rjobs>>

WaitCancelled ==
    /\ config.cancellable
    /\ count.finished < task_count
    /\ mpc \in {"wait", "asleep"} /\ mpc' = "mark"
    /\ cancelled' = TRUE
    /\ UNCHANGED <<broker, index, exit, timed_out, modules, link, images, rows, rjobs>>

\* The sleep ends by timeout at the deadline.  finished_count is not looked
\* at again.
Deadline ==
    /\ HasTimeout
    /\ Step("asleep", "mark")
    /\ timed_out' = TRUE
    /\ UNCHANGED <<broker, index, exit, cancelled, modules, link, images, rows, rjobs>>

-----------------------------------------------------------------------------
(* The end of the run.                                                     *)

Verdict == IF cancelled THEN "cancelled" ELSE "timeout"

MarkUnfinished ==
    /\ Step("mark", "sweep")
    /\ status' = [t \in Tasks |-> IF (timed_out \/ cancelled) /\ t \notin finished THEN Verdict ELSE status[t]]
    /\ index' = 1
    /\ UNCHANGED <<broker, exit, cancelled, timed_out, modules, link, images,
                   stored, finished, received, late, count, rjobs>>

SweepSkips ==
    /\ index \in finished
    /\ Step("sweep", "sweep")
    /\ index' = index + 1
    /\ UNCHANGED <<broker, exit, cancelled, timed_out, modules, link, images, rows, rjobs>>

\* Mutant: an image is deleted only if its row says "stored", which the sweep
\* has overwritten with the verdict.
CleanupByStatus ==
    /\ index <= task_count /\ index \notin finished
    /\ Step("sweep", "finalize")
    /\ IF status[index] \in Finals THEN UNCHANGED <<images, stored>>
       ELSE /\ images' = images \ {index}
            /\ stored' = [stored EXCEPT ![index] = "deleted"]
    /\ UNCHANGED <<broker, index, exit, cancelled, timed_out, modules, link,
                   status, finished, received, late, count, rjobs>>

\* CleanupTimedOutTask.  A task the loop never came to has no image_id.
CleanupTimedOutTask ==
    /\ index <= task_count /\ index \notin finished
    /\ Step("sweep", "finalize")
    /\ IF place[index] = "unsent" THEN UNCHANGED <<images, stored>>
       ELSE /\ images' = images \ {index}
            /\ stored' = [stored EXCEPT ![index] = "deleted"]
    /\ UNCHANGED <<broker, index, exit, cancelled, timed_out, modules, link,
                   status, finished, received, late, count, rjobs>>

SweepFinalizes ==
    /\ Step("finalize", "sweep")
    /\ FinalizeTask(index, Verdict)
    /\ index' = index + 1
    /\ UNCHANGED <<broker, exit, cancelled, timed_out, modules, link, images, stored, received, late, rjobs>>

\* late_result_ack_only; then the shutdown message, a command of the driver.
PublishControl ==
    /\ index > task_count
    /\ Step("sweep", "unregister")
    /\ late' = TRUE
    /\ shutdown' = IF SendsShutdown /\ mlink THEN "outbox" ELSE shutdown
    /\ UNCHANGED <<broker, index, exit, cancelled, timed_out, modules, mlink, epoch, images,
                   status, stored, finished, received, count, rjobs>>

\* The consumer, then the route; then host.Stop: the bus takes no more
\* deliveries, ...
Unregister ==
    /\ Step("unregister", "stopping")
    /\ handler' = FALSE
    /\ route' = FALSE
    /\ UNCHANGED <<broker, index, exit, cancelled, timed_out, host, link, images, rows, rjobs>>

Success ==
    /\ ~ timed_out /\ ~ cancelled
    /\ count.success = task_count
    /\ count.failure = 0
    /\ images = {}

\* ... its pool runs every handler to the end and the driver drains its
\* commands; then Fini, WriteTaskMetrics, WriteSummary and the exit code.  A
\* run that was not set up fails, and so does one whose Stop or Fini does.
Finish ==
    /\ Step("stopping", "done")
    /\ rjobs = {}
    /\ \A t \in Tasks : place[t] # "outbox"
    /\ shutdown # "outbox"
    /\ host' = "down"
    /\ mlink' = FALSE
    /\ \/ exit = "none" /\ exit' = IF Success THEN "success" ELSE "failure"
       \/ exit' = "failure"
    /\ UNCHANGED <<broker, index, cancelled, timed_out, route, handler, epoch, shutdown, images, rows, rjobs>>

-----------------------------------------------------------------------------
(* HandleResultMessage, on the pool of the bus.                            *)

Held(r, stage) == [task |-> r.task, nth |-> r.nth, status |-> r.status,
                   epoch |-> epoch, stage |-> stage]

\* The broker delivers a result and the handler runs its first lock section,
\* and the Delete after it.  A late result, a result for an image that this
\* run does not know and one for a task whose result is in are acked as they
\* are; the others overwrite the row at once.  (Without a handler the bus
\* requeues the result: nothing has happened.)
ResultTaken(r) ==
    /\ mlink /\ handler
    /\ results' = results \ {r}
    /\ IF late \/ r.task \notin Tasks \/ r.task \in received
       THEN rjobs' = rjobs \cup {Held(r, "ack")} /\ UNCHANGED <<status, images>>
       ELSE /\ rjobs' = rjobs \cup {Held(r, "finishing")}
            /\ status' = [status EXCEPT ![r.task] = r.status]
            /\ images' = images \ {r.task}
    /\ UNCHANGED <<config, place, deliveries, answered, control, misled, faults, run, modules, link,
                   stored, finished, received, late, count>>

Acked(j) == rjobs' = (rjobs \ {j}) \cup {[j EXCEPT !.stage = "ack"]}

\* Mutant: the second section does not look whether the task is finished.
ResultFinishesTwice(j) ==
    /\ j.stage = "finishing"
    /\ Acked(j)
    /\ stored' = [stored EXCEPT ![j.task] = "deleted"]
    /\ finished' = finished \cup {j.task}
    /\ received' = received \cup {j.task}
    /\ count' = [count EXCEPT !.finished = @ + 1, !.result = @ + 1,
                              !.success = @ + (IF status[j.task] = "processed" THEN 1 ELSE 0),
                              !.failure = @ + (IF status[j.task] = "processed" THEN 0 ELSE 1)]
    /\ UNCHANGED <<broker, run, modules, link, images, status, late>>

\* The second lock section.  It counts by the status of the row.
ResultFinishes(j) ==
    /\ j.stage = "finishing"
    /\ Acked(j)
    /\ IF j.task \in finished THEN UNCHANGED <<stored, finished, received, count>>
       ELSE /\ stored' = [stored EXCEPT ![j.task] = "deleted"]
            /\ finished' = finished \cup {j.task}
            /\ received' = received \cup {j.task}
            /\ count' = [count EXCEPT !.finished = @ + 1, !.result = @ + 1,
                                      !.success = @ + (IF status[j.task] = "processed" THEN 1 ELSE 0),
                                      !.failure = @ + (IF status[j.task] = "processed" THEN 0 ELSE 1)]
    /\ UNCHANGED <<broker, run, modules, link, images, status, late>>

\* The driver executes the settle command: on the connection that it has now.
AckResult(j) ==
    /\ j.stage = "ack"
    /\ rjobs' = rjobs \ {j}
    /\ UNCHANGED <<broker, run, modules, link, images, rows>>

-----------------------------------------------------------------------------
(* The bus connection of the master.                                       *)

MasterConnects ==
    /\ host = "up" /\ mpc # "stopping" /\ ~ mlink
    /\ mlink' = TRUE
    /\ UNCHANGED <<broker, run, modules, epoch, shutdown, images, rows, rjobs>>

\* The broker takes back the results that are not acked; the handlers go on.
\* It misses a result whose tag was that of a result of an earlier connection
\* which has been acked since: which ones is left open.
MasterDisconnects ==
    /\ Fault("master link")
    /\ mlink
    /\ mlink' = FALSE
    /\ epoch' = epoch + 1
    /\ LET unacked == {j \in rjobs : j.epoch = epoch}
       IN  \E back \in IF epoch = 0 THEN {unacked} ELSE SUBSET unacked :
               results' = results \cup {Result(j.task, j.nth, j.status) : j \in back}
    /\ UNCHANGED <<config, place, deliveries, answered, control, misled, run, modules, shutdown, images, rows, rjobs>>

\* The driver executes a publish command; without a connection it is dropped.
SendTask(t) ==
    /\ place[t] = "outbox"
    /\ place' = [place EXCEPT ![t] = IF mlink THEN "ready" ELSE "lost"]
    /\ UNCHANGED <<config, deliveries, results, answered, control, misled, faults, master>>

\* The fanout reaches the queues of the workers that are connected.
SendShutdown(queues) ==
    /\ shutdown = "outbox"
    /\ shutdown' = "sent"
    /\ control' = IF mlink THEN control \cup queues ELSE control
    /\ UNCHANGED <<config, place, deliveries, results, answered, misled, faults, run, modules, mlink, epoch, images, rows, rjobs>>

-----------------------------------------------------------------------------
MasterMain ==
    \/ Build \/ BuildFails \/ Start \/ StartFails \/ RegisterConsumer \/ MasterReady \/ SetupFails
    \/ CancelSeen \/ SourceFails \/ Source \/ Put \/ PutFails \/ PublishTask \/ PublishFails
    \/ AllPublished \/ WaitEnds \/ WaitCancelled \/ Sleep \/ Deadline
    \/ MarkUnfinished \/ SweepSkips \/ CleanupTimedOutTask \/ SweepFinalizes
    \/ PublishControl \/ Unregister \/ Finish

MasterHandlers(j) == ResultFinishes(j) \/ AckResult(j)

MasterTypeOK ==
    /\ mpc \in {"build", "start", "consumer", "connect", "source", "put", "publish", "wait", "asleep", "mark",
                "sweep", "finalize", "unregister", "stopping", "done"}
    /\ index \in 1 .. TaskCount + 1
    /\ exit \in {"none", "success", "failure"}
    /\ {cancelled, timed_out, route, handler, mlink, late} \subseteq BOOLEAN
    /\ host \in {"down", "init", "up"}
    /\ epoch \in 0 .. MaxFaults
    /\ shutdown \in {"no", "outbox", "sent"}
    /\ images \subseteq Tasks
    /\ status \in [Tasks -> Statuses]
    /\ stored \in [Tasks -> {"not_stored", "stored", "put_failed", "deleted"}]
    /\ finished \subseteq Tasks /\ received \subseteq Tasks
    /\ count \in [finished : 0 .. TaskCount, success : 0 .. TaskCount, failure : 0 .. TaskCount, result : 0 .. TaskCount]
    /\ rjobs \subseteq RJobs
=============================================================================
