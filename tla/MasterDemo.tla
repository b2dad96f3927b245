----------------------------- MODULE MasterDemo -----------------------------
(* The Qt desktop demo of the task flow: a window on the GUI thread, and   *)
(* for each run a MasterWorker on a QThread of its own, whose slot Run     *)
(* prepares the broker, starts local worker processes, waits for their     *)
(* consumers, runs RunTaskFlowMaster and cleans up.  The two talk through  *)
(* the queued signals and slots of Qt: a slot runs when the event loop of  *)
(* its object's thread comes to it, and the worker's thread has no event   *)
(* loop while Run is busy, except inside each request to the management    *)
(* API.                                                                    *)
(*                                                                         *)
(* RunTaskFlowMaster is reduced to what its observer sees (TaskMaster has  *)
(* the rest).  Signals that only refresh labels are left out.  The run     *)
(* has no timeout (ReadSettings sets timeoutMs to 0) and starts its        *)
(* workers itself (autoStartLocalWorkers).                                 *)
EXTENDS Integers, Sequences, FiniteSets

CONSTANTS
    NTasks,         \* task_count
    NWorkers,       \* expectedWorkerCount
    MaxRuns,        \* bound: runs the user starts
    MaxDeaths       \* bound: worker processes that end by themselves

ASSUME DemoAssumption ==
    NTasks \in Nat \ {0} /\ NWorkers \in Nat \ {0} /\ MaxRuns \in Nat /\ MaxDeaths \in Nat

Runs == 1 .. MaxRuns
TaskIds == 1 .. NTasks
LocalWorkers == 1 .. NWorkers

VARIABLES
    window,         \* "open", "closing" (in ~MainWindow), "closed" or "aborted"
    worker_,        \* the run worker_ and worker_thread_ point to, or 0
    started,        \* runs started
    clicked,        \* Stop was clicked in this run
    task_rows_,     \* what task_rows_ shows of each task, and of which run
    gui,            \* events posted to the GUI thread
    pc,             \* where the thread of each run is
    cancel,         \* cancel_requested_ of each worker
    asked,          \* a RequestStop is posted to the worker's thread
    quit,           \* the thread's event loop was told to quit
    process,        \* local_workers of the run under way
    deaths,
    task,           \* the tasks of the run under way
    snapshot,       \* the snapshot the publishing thread holds, or none
    updates         \* tasks whose result handler has yet to notify

windowVars == <<window, worker_, started, clicked, task_rows_>>
threadVars == <<pc, cancel, asked, quit>>
processVars == <<process, deaths>>
kernelVars == <<task, snapshot, updates>>
demoVars == <<windowVars, gui, threadVars, processVars, kernelVars>>

NoRow == [run |-> 0, shows |-> "none"]
Nothing == [task |-> 0, shows |-> "none"]
Event(is, r, t, shows) == [is |-> is, run |-> r, task |-> t, shows |-> shows]
Row(r, t, shows) == Event("row", r, t, shows)

DemoInit ==
    /\ window = "open" /\ worker_ = 0 /\ started = 0 /\ clicked = FALSE
    /\ task_rows_ = [t \in TaskIds |-> NoRow] /\ gui = <<>>
    /\ pc = [r \in Runs |-> "none"]
    /\ cancel = [r \in Runs |-> FALSE] /\ asked = [r \in Runs |-> FALSE] /\ quit = [r \in Runs |-> FALSE]
    /\ process = [w \in LocalWorkers |-> "none"] /\ deaths = 0
    /\ task = [t \in TaskIds |-> "none"] /\ snapshot = Nothing /\ updates = {}

-----------------------------------------------------------------------------
(* The GUI thread.                                                         *)

\* StartRun, once the settings are accepted; the button is enabled between
\* runs only.
StartRun ==
    /\ window = "open" /\ worker_ = 0 /\ started < MaxRuns
    /\ started' = started + 1 /\ worker_' = started + 1
    /\ task_rows_' = [t \in TaskIds |-> NoRow]
    /\ pc' = [pc EXCEPT ![started + 1] = "begin"]
    /\ UNCHANGED <<window, clicked, gui, cancel, asked, quit, processVars, kernelVars>>

\* The request is posted to the worker's thread; clicking again changes nothing.
StopRun ==
    /\ window = "open" /\ worker_ # 0 /\ ~clicked
    /\ clicked' = TRUE /\ asked' = [asked EXCEPT ![worker_] = TRUE]
    /\ UNCHANGED <<window, worker_, started, task_rows_, gui, pc, cancel, quit, processVars, kernelVars>>

OnRunFinished == worker_' = 0 /\ clicked' = FALSE /\ UNCHANGED <<task_rows_, quit>>

\* OnTaskPublished and OnTaskUpdated: EnsureTaskRow, UpdateTaskRow.
OnTask(e) ==
    /\ task_rows_' = [task_rows_ EXCEPT ![e.task] = [run |-> e.run, shows |-> e.shows]]
    /\ UNCHANGED <<worker_, clicked, quit>>

OnQuit(e) == quit' = [quit EXCEPT ![e.run] = TRUE] /\ UNCHANGED <<worker_, clicked, task_rows_>>

HandleEvent ==
    /\ window = "open" /\ gui # <<>>
    /\ LET e == Head(gui) IN
        \/ e.is = "row" /\ OnTask(e)
        \/ e.is = "finished" /\ OnRunFinished
        \/ e.is = "quit" /\ OnQuit(e)
    /\ gui' = Tail(gui)
    /\ UNCHANGED <<window, started, pc, cancel, asked, processVars, kernelVars>>

\* ~MainWindow asks the worker without going through its event loop, and
\* gives the thread three seconds.
Close ==
    /\ window = "open" /\ window' = "closing"
    /\ cancel' = [r \in Runs |-> cancel[r] \/ r = worker_]
    /\ quit' = [r \in Runs |-> quit[r] \/ r = worker_]
    /\ UNCHANGED <<worker_, started, clicked, task_rows_, gui, pc, asked, processVars, kernelVars>>

Ended(r) == pc[r] \in {"none", "ended"}

\* Qt aborts the program when a QThread that still runs is destroyed.
Closed ==
    /\ window = "closing"
    /\ window' = IF \A r \in Runs : Ended(r) THEN "closed" ELSE "aborted"
    /\ UNCHANGED <<worker_, started, clicked, task_rows_, gui, threadVars, processVars, kernelVars>>

-----------------------------------------------------------------------------
(* MasterWorker::Run on the thread of run r.                               *)

Alive == window \in {"open", "closing"}
Goes(r, from, to) == Alive /\ pc[r] = from /\ pc' = [pc EXCEPT ![r] = to]

\* While it waits for a reply the worker's thread runs a local event loop.
InRequest(r) == pc[r] \in {"topology", "consumers", "status"}

\* That loop, and the thread's own after Run, deliver what was posted.
RequestStop(r) ==
    /\ Alive /\ asked[r] /\ (InRequest(r) \/ pc[r] = "over")
    /\ asked' = [asked EXCEPT ![r] = FALSE] /\ cancel' = [cancel EXCEPT ![r] = TRUE]
    /\ UNCHANGED <<windowVars, gui, pc, quit, processVars, kernelVars>>

\* The thread starts; PrepareRuntime may fail.
Begin(r) ==
    /\ Goes(r, "begin", "topology") \/ Goes(r, "begin", "report")
    /\ cancel' = [cancel EXCEPT ![r] = FALSE]
    /\ process' = [w \in LocalWorkers |-> "none"]
    /\ UNCHANGED <<windowVars, gui, asked, quit, deaths, kernelVars>>

\* Requests that create the topology, in turn; one may fail or time out.  An
\* event loop delivers what was posted to it before it returns.
BootstrapTopology(r) ==
    /\ ~asked[r]
    /\ Goes(r, "topology", "spawn") \/ Goes(r, "topology", "report")
    /\ UNCHANGED <<windowVars, gui, cancel, asked, quit, processVars, kernelVars>>

\* StartLocalWorkers: one process after the other.
Unstarted == {w \in LocalWorkers : process[w] = "none"}

StartLocalWorker(r) ==
    /\ Alive /\ pc[r] = "spawn" /\ Unstarted # {}
    /\ LET w == CHOOSE w \in Unstarted : \A v \in Unstarted : w <= v IN
        process' = [process EXCEPT ![w] = "running"]
    /\ UNCHANGED <<windowVars, gui, threadVars, deaths, kernelVars>>

LocalWorkersStarted(r) ==
    /\ Unstarted = {} /\ Goes(r, "spawn", "consumers")
    /\ UNCHANGED <<windowVars, gui, cancel, asked, quit, processVars, kernelVars>>

\* A config cannot be written, a process does not start or ends at once.
StartLocalWorkersFails(r) ==
    /\ Unstarted # {} /\ Goes(r, "spawn", "cleanup")
    /\ UNCHANGED <<windowVars, gui, cancel, asked, quit, processVars, kernelVars>>

ProcessEnds(w) ==
    /\ Alive /\ process[w] = "running" /\ deaths < MaxDeaths
    /\ process' = [process EXCEPT ![w] = "ended"] /\ deaths' = deaths + 1
    /\ UNCHANGED <<windowVars, gui, threadVars, kernelVars>>

\* The queue has its consumers and the module config can be written.
ConsumersReady(r) ==
    /\ ~asked[r] /\ Goes(r, "consumers", "kernel")
    /\ \A w \in LocalWorkers : process[w] = "running"
    /\ task' = [t \in TaskIds |-> "none"]
    /\ UNCHANGED <<windowVars, gui, cancel, asked, quit, processVars, snapshot, updates>>

\* Mutant: without the timeout only a request to stop ends the wait.
WaitForTaskConsumersForever(r) ==
    /\ ~asked[r] /\ cancel[r] /\ Goes(r, "consumers", "cleanup")
    /\ UNCHANGED <<windowVars, gui, cancel, asked, quit, processVars, kernelVars>>

\* Mutant: the workers that were started are forgotten.
WaitForTaskConsumersReturns(r) ==
    /\ ~asked[r] /\ Goes(r, "consumers", "report")
    /\ UNCHANGED <<windowVars, gui, cancel, asked, quit, processVars, kernelVars>>

\* Cancelled, timed out after five minutes, or no config.
WaitForTaskConsumersFails(r) ==
    /\ ~asked[r] /\ Goes(r, "consumers", "cleanup")
    /\ UNCHANGED <<windowVars, gui, cancel, asked, quit, processVars, kernelVars>>

\* GetQueues once more.
FinalStatus(r) ==
    /\ ~asked[r] /\ Goes(r, "status", "cleanup")
    /\ UNCHANGED <<windowVars, gui, cancel, asked, quit, processVars, kernelVars>>

\* A process ends after the control message, or is terminated or killed.
StopLocalWorker(r) ==
    /\ Alive /\ pc[r] = "cleanup"
    /\ \E w \in LocalWorkers : process[w] = "running" /\ process' = [process EXCEPT ![w] = "ended"]
    /\ UNCHANGED <<windowVars, gui, threadVars, deaths, kernelVars>>

LocalWorkersStopped(r) ==
    /\ \A w \in LocalWorkers : process[w] # "running"
    /\ Goes(r, "cleanup", "report")
    /\ UNCHANGED <<windowVars, gui, cancel, asked, quit, processVars, kernelVars>>

\* Mutant: Finished is connected to quit before it is connected to the window.
FinishedQuitsFirst(r) == <<Event("quit", r, 0, "none"), Event("finished", r, 0, "none")>>

\* The slots connected to Finished, in the order of their connection.
Finished(r) == <<Event("finished", r, 0, "none"), Event("quit", r, 0, "none")>>

ReportFinished(r) ==
    /\ Goes(r, "report", "over")
    /\ gui' = gui \o Finished(r)
    /\ UNCHANGED <<windowVars, cancel, asked, quit, processVars, kernelVars>>

\* The thread ends and its worker is deleted.
ThreadEnds(r) ==
    /\ quit[r] /\ Goes(r, "over", "ended")
    /\ UNCHANGED <<windowVars, gui, cancel, asked, quit, processVars, kernelVars>>

-----------------------------------------------------------------------------
(* RunTaskFlowMaster, as its observer and its cancel flag see it.          *)

InKernel(r) == Alive /\ pc[r] = "kernel"
NextTask == CHOOSE t \in TaskIds \cup {NTasks + 1} :
            /\ t \in TaskIds => task[t] = "none"
            /\ \A s \in TaskIds : s < t => task[s] # "none"

NoneToPublish(r) == NextTask \notin TaskIds

\* A task is stored and published, and its snapshot taken a little later.
PublishDemoTask(r) ==
    /\ InKernel(r) /\ ~NoneToPublish(r) /\ ~cancel[r] /\ snapshot = Nothing
    /\ task' = [task EXCEPT ![NextTask] = "sent"]
    /\ snapshot' = [task |-> NextTask, shows |-> "none"]
    /\ UNCHANGED <<windowVars, gui, threadVars, processVars, updates>>

TakeSnapshot(r) ==
    /\ InKernel(r) /\ snapshot # Nothing /\ snapshot.shows = "none"
    /\ snapshot' = [snapshot EXCEPT !.shows = task[snapshot.task]]
    /\ UNCHANGED <<windowVars, gui, threadVars, processVars, task, updates>>

NotifyTaskPublished(r) ==
    /\ InKernel(r) /\ snapshot.shows # "none"
    /\ gui' = Append(gui, Row(r, snapshot.task, snapshot.shows))
    /\ snapshot' = Nothing
    /\ UNCHANGED <<windowVars, threadVars, processVars, task, updates>>

\* A result arrives from a worker that lives.
HandleResult(r) ==
    /\ InKernel(r) /\ \E w \in LocalWorkers : process[w] = "running"
    /\ \E t \in TaskIds :
        /\ task[t] = "sent" /\ task' = [task EXCEPT ![t] = "done"]
        /\ updates' = updates \cup {t}
    /\ UNCHANGED <<windowVars, gui, threadVars, processVars, snapshot>>

\* FinalizeTask, or the end of HandleResultMessage.
NotifyTaskUpdated(r) ==
    /\ Alive /\ pc[r] \in {"kernel", "closing"}
    /\ \E t \in updates :
        /\ gui' = Append(gui, Row(r, t, "done"))
        /\ updates' = updates \ {t}
    /\ UNCHANGED <<windowVars, threadVars, processVars, task, snapshot>>

\* All results are in, or the run is cancelled: what is left is finalized.
StopWaiting(r) ==
    /\ snapshot = Nothing /\ (cancel[r] \/ \A t \in TaskIds : task[t] = "done")
    /\ Goes(r, "kernel", "closing")
    /\ updates' = updates \cup {t \in TaskIds : task[t] # "done"}
    /\ task' = [t \in TaskIds |-> "done"]
    /\ UNCHANGED <<windowVars, gui, cancel, asked, quit, processVars, snapshot>>

\* Stop and Fini of the modules wait for the handlers.
HostStops(r) ==
    /\ updates = {} /\ Goes(r, "closing", "status")
    /\ UNCHANGED <<windowVars, gui, cancel, asked, quit, processVars, kernelVars>>

\* The host or the frame source cannot be prepared.
KernelFails(r) ==
    /\ \A t \in TaskIds : task[t] = "none"
    /\ Goes(r, "kernel", "status")
    /\ UNCHANGED <<windowVars, gui, cancel, asked, quit, processVars, kernelVars>>

-----------------------------------------------------------------------------
RunSteps(r) ==
    \/ Begin(r) \/ BootstrapTopology(r)
    \/ StartLocalWorker(r) \/ LocalWorkersStarted(r) \/ StartLocalWorkersFails(r)
    \/ ConsumersReady(r) \/ WaitForTaskConsumersFails(r)
    \/ PublishDemoTask(r) \/ TakeSnapshot(r) \/ NotifyTaskPublished(r) \/ NotifyTaskUpdated(r)
    \/ StopWaiting(r) \/ HostStops(r) \/ KernelFails(r)
    \/ FinalStatus(r) \/ StopLocalWorker(r) \/ LocalWorkersStopped(r) \/ ReportFinished(r) \/ ThreadEnds(r)

DemoNext ==
    \/ StartRun \/ StopRun \/ HandleEvent \/ Close \/ Closed
    \/ \E r \in Runs : RunSteps(r) \/ RequestStop(r) \/ HandleResult(r)
    \/ \E w \in LocalWorkers : ProcessEnds(w)

DemoSpec == DemoInit /\ [][DemoNext]_demoVars

\* Both threads run; what the user does and what processes do is open.
DemoFairSpec ==
    /\ DemoSpec /\ WF_demoVars(HandleEvent) /\ WF_demoVars(Closed)
    /\ \A r \in Runs : WF_demoVars(RunSteps(r)) /\ WF_demoVars(RequestStop(r))

\* Besides, tasks are answered as long as a worker lives.
AnsweringSpec == DemoFairSpec /\ \A r \in Runs : WF_demoVars(HandleResult(r))

-----------------------------------------------------------------------------
(* Properties.                                                             *)

DemoTypeOK ==
    /\ window \in {"open", "closing", "closed", "aborted"}
    /\ worker_ \in 0 .. MaxRuns /\ started \in 0 .. MaxRuns /\ clicked \in BOOLEAN
    /\ task_rows_ \in [TaskIds -> [run : 0 .. MaxRuns, shows : {"none", "sent", "done"}]]
    /\ gui \in Seq([is : {"row", "finished", "quit"}, run : Runs, task : 0 .. NTasks, shows : {"none", "sent", "done"}])
    /\ pc \in [Runs -> {"none", "begin", "topology", "spawn", "consumers", "kernel", "closing", "status",
                        "cleanup", "report", "over", "ended"}]
    /\ cancel \in [Runs -> BOOLEAN] /\ asked \in [Runs -> BOOLEAN] /\ quit \in [Runs -> BOOLEAN]
    /\ process \in [LocalWorkers -> {"none", "running", "ended"}] /\ deaths \in 0 .. MaxDeaths
    /\ task \in [TaskIds -> {"none", "sent", "done"}]
    /\ snapshot \in [task : 0 .. NTasks, shows : {"none", "sent", "done"}]
    /\ updates \subseteq TaskIds

\* When the window offers to start again, or has closed in good order, no
\* local worker process and nothing of a kernel is left of earlier runs, on
\* whichever path they ended; and the table shows tasks of the last run only.
NothingIsLeftOver ==
    /\ DemoTypeOK
    /\ window = "closed" \/ (window = "open" /\ worker_ = 0) =>
        /\ \A w \in LocalWorkers : process[w] # "running"
        /\ \A r \in Runs : pc[r] \in {"none", "over", "ended"}
    /\ \A t \in TaskIds : task_rows_[t].run \in {0, started}

\* As long as the window holds worker_ and may post to it or call it, the
\* worker has not been deleted with its thread.
WorkerOutlivesPointer == window = "open" /\ worker_ # 0 => pc[worker_] # "ended"

\* Every run comes to its end and the window can start another, as long as
\* tasks are answered and the window is not closed.
RunEnds == worker_ # 0 ~> (worker_ = 0 \/ window # "open")
=============================================================================
