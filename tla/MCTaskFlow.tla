----------------------------- MODULE MCTaskFlow -----------------------------
(* An instance of TaskFlow for TLC.                                        *)
EXTENDS TaskFlow

CONSTANTS s1, g1, w1, w2

OneStale == {s1}
OneGarbled == {g1}
TwoWorkers == {w1, w2}

Run(tasks, cancel, processes, deadlines, messages, kinds, times) ==
    [task_count |-> tasks, cancellable |-> cancel, workers |-> processes, timed |-> deadlines,
     old |-> messages, faults |-> kinds, deliveries |-> times]

\* Two tasks, without faults.  Two tasks for which nobody comes, cancelled at
\* any point.  One task whose master or worker loses its connection, without and
\* with a deadline of the worker.  One task and a worker that is killed, beside
\* another.  One task behind a message of an earlier run, cancelled or not, or
\* behind a garbled one.
SmallRuns == {Run(2, FALSE, {w1}, {}, {}, {}, 1),
              Run(2, TRUE, {}, {}, {}, {}, 1),
              Run(1, FALSE, {w1}, {}, {}, {"master link", "worker link"}, 2),
              Run(1, FALSE, {w1}, {w1}, {}, {"worker link"}, 1),
              Run(1, FALSE, {w1, w2}, {}, {}, {"kill"}, 2),
              Run(1, TRUE, {w1}, {}, {s1}, {}, 1),
              Run(1, FALSE, {w1}, {w1}, {g1}, {}, 1)}
=============================================================================
