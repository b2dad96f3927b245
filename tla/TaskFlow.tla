------------------------------ MODULE TaskFlow ------------------------------
(***************************************************************************)
(* The task flow as a whole: one master, the workers, and the broker and   *)
(* the HTTP server between them.  A task goes through the broker to a      *)
(* worker, the worker gets the image over HTTP, the result goes through    *)
(* the broker to the master.  Connections break, workers are killed, and a *)
(* task may be worked on twice.                                            *)
(***************************************************************************)
EXTENDS TaskMaster, TaskWorker

vars == <<broker, master, worker>>

Init == BrokerInit /\ MasterInit /\ WorkerInit

\* A worker fetches an image.  The master's store may drop what has expired.
FetchImage(j) ==
    \E reply \in {"image", "missing", "error"} :
        /\ ImageRequest(j.task, reply)
        /\ ProcessTask(j, reply)
        /\ UNCHANGED <<run, modules, link, rows, rjobs>>

SendControl == SendShutdown(wlink) /\ UNCHANGED worker

MasterActs ==
    /\ \/ MasterMain \/ MasterConnects \/ MasterDisconnects
       \/ \E r \in results : ResultTaken(r)
       \/ \E j \in rjobs : MasterHandlers(j)
       \/ \E t \in Tasks : SendTask(t)
    /\ UNCHANGED worker

WorkersAct ==
    /\ \/ \E w \in Workers : WorkerMain(w) \/ WorkerConnects(w) \/ WorkerDisconnects(w) \/ Kill(w) \/ ControlHandler(w)
       \/ \E m \in Messages, w \in Workers : TaskHandler(m, w)
       \/ \E j \in jobs : WorkerDriver(j)
    /\ UNCHANGED master

Next == MasterActs \/ WorkersAct \/ SendControl \/ (\E j \in jobs : FetchImage(j))

Spec == Init /\ [][Next]_vars

-----------------------------------------------------------------------------
(* Fairness: the threads go on, the drivers execute their commands, a      *)
(* deadline that has been set passes.  Nothing is assumed of the broker,   *)
(* the connections and the HTTP server.  Only the master's main thread     *)
(* polls; all others have but so many steps to take, and one condition on  *)
(* them together lets each have its turn.                                  *)

JobGoesOn(j) == FetchImage(j) \/ (WorkerDriver(j) /\ UNCHANGED master)

MasterBus == (\E j \in rjobs : MasterHandlers(j)) \/ (\E t \in Tasks : SendTask(t))

OthersGoOn ==
    \/ MasterBus /\ UNCHANGED worker
    \/ SendControl
    \/ (\E w \in Workers : WorkerMain(w)) /\ UNCHANGED master
    \/ \E j \in jobs : JobGoesOn(j)

Fairness ==
    /\ WF_vars(MasterMain /\ UNCHANGED worker)
    /\ WF_vars(OthersGoOn)

FairSpec == Spec /\ Fairness

-----------------------------------------------------------------------------
(* Properties.                                                             *)

TypeOK == BrokerTypeOK /\ MasterTypeOK /\ WorkerTypeOK

Processed == {t \in finished : status[t] = "processed"}

\* The counters and the rows of the report tell one story, in whatever order
\* the sections of the result handlers, the sweep and a duplicate result come:
\* each task is counted once, and success_count is the number of rows that say
\* "processed", unless the run was timed out or cancelled.  (Between the sweep
\* and the late flag a result still overwrites a row that was counted as
\* failed.)  All of it on a state of the right type.
ReportAgrees ==
    /\ TypeOK
    /\ count.finished = Cardinality(finished)
    /\ count.result = Cardinality(received)
    /\ count.success + count.failure = count.finished
    /\ ~ timed_out /\ ~ cancelled => count.success = Cardinality(Processed)

\* Exit code 0 is earned: every task of the run was computed by a worker, has
\* its result and has left the image store.
SuccessIsTrue ==
    exit = "success" => /\ 1 .. task_count \subseteq computed
                        /\ received = 1 .. task_count
                        /\ images = {}

\* However a run ends, early or late, it takes its modules, its handlers and
\* its images with it, nothing is left in the command queue, and no row of the
\* report says "stored".
NothingLeftBehind ==
    mpc = "done" =>
        /\ host = "down" /\ ~ route /\ ~ handler /\ ~ mlink
        /\ rjobs = {}
        /\ images = {}
        /\ \A t \in Tasks : stored[t] # "stored" /\ place[t] # "outbox"

\* The broker forgets a task only after a result for it has arrived: no worker
\* acks a task whose result was refused, or was lost with the process or the
\* connection.  It is excepted that a settle command which has outlived its
\* connection names, by its tag, another task on the next: that takes a worker
\* that has lost a connection.
SettledHasResult ==
    \A m \in Tasks \cup (Stale \cap config.old) :
        place[m] = "gone" => m \in answered \/ (m \in misled /\ LinksBreak)

\* What a worker without a deadline may wait for: its connection, the shutdown,
\* the end of the tasks.
MayWait(w) ==
    /\ w \notin config.timed
    /\ \/ wpc[w] = "connecting"
       \/ wpc[w] = "serving" /\ (w \notin told \/ \E m \in Messages : place[m] \in {"ready", w})

\* The run of a master with a deadline ends, though connections break, workers are
\* killed and results never come.  So do the worker processes: those with a
\* deadline even if they never connect or never hear of the shutdown, those
\* without unless they have reason to wait.
EveryProcessEnds ==
    <>[](/\ HasTimeout => mpc = "done"
         /\ \A w \in Workers : wpc[w] \in {"done", "killed"} \/ MayWait(w))
=============================================================================
