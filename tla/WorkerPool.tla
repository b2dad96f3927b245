----------------------------- MODULE WorkerPool -----------------------------
(***************************************************************************)
(* foundation::concurrent::ThreadPool: a queue of tasks and the threads    *)
(* that run them.  It is started once, refuses tasks from the moment a     *)
(* shutdown begins, and a graceful shutdown runs what is queued and joins  *)
(* the threads.  What a task does is up to the module that extends this    *)
(* one.                                                                    *)
(***************************************************************************)
EXTENDS Naturals, Sequences

CONSTANTS
    Threads,            \* the threads of a pool, thread_count of them
    Idle,               \* a thread that waits in Pop
    Exited              \* a thread that has left WorkerLoop, or does not exist

ASSUME WorkerPoolAssumption == Threads # {} /\ Idle # Exited

VARIABLES
    pool,               \* state_: "created", "running", "closing" or "stopped"
    queue,              \* queue_: the tasks that wait
    worker              \* worker[w]: Idle, Exited or the task that runs

poolVars == <<pool, queue, worker>>

-----------------------------------------------------------------------------
\* A new pool: the old one, if there was one, has no thread left.
NewPool == pool' = "created" /\ UNCHANGED <<queue, worker>>

Start ==
    /\ pool = "created"
    /\ pool' = "running"
    /\ worker' = [w \in Threads |-> Idle]
    /\ UNCHANGED queue

\* CanAcceptTasksLocked, and Submit under the lock of the pool.
Accepts == pool = "running"
Submit(tasks) == queue' = queue \o tasks

\* Pop gives a thread the first task; it gives up when the queue is closed
\* and empty.
Take(w) ==
    /\ worker[w] = Idle
    /\ queue # <<>>
    /\ worker' = [worker EXCEPT ![w] = Head(queue)]
    /\ queue' = Tail(queue)
    /\ UNCHANGED pool

Exit(w) ==
    /\ worker[w] = Idle
    /\ queue = <<>>
    /\ pool = "closing"
    /\ worker' = [worker EXCEPT ![w] = Exited]
    /\ UNCHANGED <<pool, queue>>

Finished(w) == worker' = [worker EXCEPT ![w] = Idle]

\* ShutdownInternal: the queue is taken from the pool and closed, then the
\* threads are joined.  A pool that never ran is stopped at once.
Shutdown ==
    /\ pool' = IF pool = "running" THEN "closing" ELSE "stopped"
    /\ UNCHANGED <<queue, worker>>

Joined == \A w \in Threads : worker[w] = Exited

ShutdownReturns ==
    /\ Joined
    /\ pool' = "stopped"
    /\ UNCHANGED <<queue, worker>>
=============================================================================
