-------------------------- MODULE ApplicationProofs --------------------------
(***************************************************************************)
(* Theorems about the two applications.  First TaskFlow, for any number of *)
(* tasks, stale and garbled messages, workers and faults: its invariant    *)
(* has a part for each of the deliveries of a task, the results, the       *)
(* course of the master's run, the image store, and the report.  Then      *)
(* MasterDemo, for any number of tasks, workers, runs and processes that   *)
(* die.                                                                    *)
(***************************************************************************)
EXTENDS TaskFlow, MasterDemo, FiniteSetTheorems, TLAPS

-----------------------------------------------------------------------------
(* Deliveries: the broker, the jobs of the workers, and the results.       *)

Data ==
    /\ config \in Config
    /\ place \in [Messages -> Places]
    /\ deliveries \in [Messages -> 0 .. MaxDeliveries]
    /\ faults \in 0 .. MaxFaults
    /\ jobs \subseteq Jobs
    /\ wlink \subseteq Workers /\ closed \subseteq wlink
    /\ tags \in [Workers -> Nat]
    /\ misled \subseteq Messages

\* An unacked message is at a worker whose connection stands.
Linked == \A m \in Messages : place[m] \in Workers => place[m] \in wlink

\* The deliveries of a message are numbered.
Numbered ==
    /\ \A j \in jobs : j.nth <= deliveries[j.task]
    /\ \A j, k \in jobs : j.task = k.task /\ j.nth = k.nth => j = k

\* Only what was sent is delivered.
Sent == \A j \in jobs : place[j.task] \notin {"unsent", "outbox", "lost"}

\* The settle command of an unacked task comes behind its result.
ResultFirst ==
    \A j \in jobs : /\ j.stage \in {"ack", "reject"} /\ ~ j.unsent /\ j.task \notin Garbled
                    /\ Unacked(j)
                    => j.task \in answered

\* As long as no worker loses a connection, a job holds its delivery and no
\* other has its tag.
TagsNameJobs ==
    ~ LinksBreak =>
        /\ closed = {}
        /\ \A j \in jobs : Unacked(j) /\ j.tag <= tags[j.worker]
        /\ \A j, k \in jobs : j.worker = k.worker /\ j.tag = k.tag => j = k

Publishing == {"build", "start", "consumer", "connect", "source", "put", "publish"}

\* The loop that publishes goes through the tasks in order.
InOrder ==
    /\ index \in Nat \ {0}
    /\ mpc \in {"put", "publish", "finalize"} => index <= task_count
    /\ mpc \in Publishing => \A t \in Tasks : t >= index => place[t] = "unsent"

Deliveries ==
    Data /\ Linked /\ Numbered /\ Sent /\ ResultFirst /\ TagsNameJobs /\ InOrder /\ SettledHasResult

USE TaskBrokerAssumption DEF Messages, Tasks

LEMMA DeliveriesInit == Init => Deliveries
<1> SUFFICES ASSUME Init PROVE Deliveries
  OBVIOUS
<1> USE DEF Init, BrokerInit, MasterInit, WorkerInit
<1>1. Data
  BY DEF Data, Places
<1>2. Linked /\ Numbered /\ Sent /\ ResultFirst /\ TagsNameJobs
  BY DEF Linked, Numbered, Sent, ResultFirst, TagsNameJobs, Places
<1>3. InOrder /\ SettledHasResult
  BY DEF task_count, InOrder, SettledHasResult
<1>4. QED BY <1>1, <1>2, <1>3 DEF Deliveries

\* A step that leaves the deliveries alone.
LEMMA DeliveriesStay ==
    ASSUME Deliveries, UNCHANGED <<config, place, deliveries, answered, misled, jobs, channel>>,
           faults' \in 0 .. MaxFaults, InOrder'
    PROVE  Deliveries'
<1> USE DEF Deliveries, channel
<1>1. Data' /\ Linked' /\ Numbered' /\ Sent'
  BY DEF Data, Linked, Numbered, Sent
<1>2. ResultFirst' /\ TagsNameJobs' /\ SettledHasResult'
  BY DEF ResultFirst, TagsNameJobs, SettledHasResult, Unacked, LinksBreak
<1>3. QED BY <1>1, <1>2

\* A job goes on.
LEMMA JobGoesOnWell ==
    ASSUME Deliveries, NEW j \in jobs, NEW k \in Jobs, Becomes(j, k),
           k.task = j.task, k.nth = j.nth, k.worker = j.worker, k.tag = j.tag,
           UNCHANGED <<config, place, deliveries, misled, faults, channel, mpc, index>>,
           answered \subseteq answered',
           /\ k.stage \in {"ack", "reject"} /\ ~ k.unsent /\ k.task \notin Garbled
           /\ place[k.task] = k.worker
           => k.task \in answered'
    PROVE  Deliveries'
<1> USE DEF Becomes, channel
<1>1. jobs \subseteq Jobs /\ Data'
  BY DEF Deliveries, Data
<1>2. Linked' /\ Sent' /\ SettledHasResult' /\ InOrder'
  BY DEF Deliveries, Linked, Sent, SettledHasResult, InOrder, task_count, LinksBreak
<1>3. Numbered'
  BY DEF Deliveries, Numbered
<1>4. ResultFirst'
  BY DEF Deliveries, ResultFirst, Unacked
<1>5. TagsNameJobs'
  <2> SUFFICES ASSUME ~ LinksBreak PROVE TagsNameJobs'
    BY DEF TagsNameJobs, LinksBreak
  <2>1. /\ closed = {}
        /\ \A i \in jobs : Unacked(i) /\ i.tag <= tags[i.worker]
        /\ \A h, i \in jobs : h.worker = i.worker /\ h.tag = i.tag => h = i
    BY DEF Deliveries, TagsNameJobs
  <2>2. Unacked(k)' /\ k.tag <= tags'[k.worker] /\ \A i \in jobs : Unacked(i)' /\ i.tag <= tags'[i.worker]
    BY <2>1 DEF Unacked
  <2>3. ASSUME NEW h \in jobs', NEW i \in jobs', h.worker = i.worker, h.tag = i.tag PROVE h = i
    <3>1. \A l \in jobs : l.worker = j.worker /\ l.tag = j.tag => l = j
      BY <2>1
    <3>2. jobs' = (jobs \ {j}) \cup {k} /\ \A l \in jobs \ {j} : ~ (l.worker = k.worker /\ l.tag = k.tag)
      BY <3>1
    <3>3. CASE h \in jobs \ {j} /\ i \in jobs \ {j}
      BY <2>1, <2>3, <3>3
    <3>4. CASE h = k \/ i = k
      BY <2>3, <3>2, <3>4
    <3>5. QED BY <3>2, <3>3, <3>4
  <2>4. QED BY <2>1, <2>2, <2>3 DEF TagsNameJobs
<1>6. QED BY <1>1, <1>2, <1>3, <1>4, <1>5 DEF Deliveries

\* A message is delivered.
LEMMA DeliveryStep ==
    ASSUME Deliveries, NEW m \in Messages, NEW w \in Workers, TaskHandler(m, w), UNCHANGED <<mpc, index>>
    PROVE  Deliveries'
<1>1. /\ place \in [Messages -> Places] /\ deliveries \in [Messages -> 0 .. MaxDeliveries]
      /\ tags \in [Workers -> Nat] /\ jobs \subseteq Jobs /\ config \in Config
  BY DEF Deliveries, Data
<1>2. /\ place[m] = "ready" /\ place' = [place EXCEPT ![m] = w] /\ w \in wlink
      /\ deliveries[m] < config.deliveries /\ deliveries' = [deliveries EXCEPT ![m] = @ + 1]
      /\ tags' = [tags EXCEPT ![w] = @ + 1]
      /\ UNCHANGED <<config, faults, answered, misled, wlink, closed>>
  BY DEF TaskHandler
<1>3. PICK k : /\ k = [task |-> m, nth |-> deliveries'[m], tag |-> tags'[w], worker |-> w,
                       stage |-> FirstStage(m, w), unsent |-> FALSE]
               /\ jobs' = jobs \cup {k}
  BY DEF TaskHandler
<1>4. /\ deliveries'[m] = deliveries[m] + 1 /\ deliveries'[m] \in 1 .. MaxDeliveries
      /\ \A n \in Messages : n # m => deliveries'[n] = deliveries[n] /\ place'[n] = place[n]
      /\ place'[m] = w /\ deliveries' \in [Messages -> 0 .. MaxDeliveries]
      /\ place' \in [Messages -> Places]
  <2>1. config.deliveries \in 1 .. MaxDeliveries
    BY <1>1 DEF Config
  <2>2. deliveries'[m] = deliveries[m] + 1 /\ deliveries'[m] \in 1 .. MaxDeliveries
    BY <1>1, <1>2, <2>1
  <2>3. QED BY <1>1, <1>2, <2>2 DEF Places
<1>5. tags' \in [Workers -> Nat] /\ tags'[w] = tags[w] + 1 /\ \A v \in Workers : v # w => tags'[v] = tags[v]
  BY <1>1, <1>2
<1>6. /\ k \in Jobs /\ k.task = m /\ k.nth = deliveries[m] + 1 /\ k.worker = w /\ k.tag = tags[w] + 1
      /\ ~ k.unsent /\ (k.stage \in {"ack", "reject"} => m \in Garbled)
  <2>1. /\ FirstStage(m, w) \in {"active"} \cup Settling
        /\ FirstStage(m, w) \in {"ack", "reject"} => m \in Garbled
    BY DEF FirstStage, Settling
  <2>2. tags'[w] \in Nat \ {0}
    BY <1>1, <1>5
  <2>3. QED BY <1>3, <1>4, <1>5, <2>1, <2>2 DEF Jobs
<1>7. \A j \in jobs : /\ j.task \in Messages /\ j.worker \in Workers /\ j.nth \in Nat /\ j.tag \in Nat
                      /\ j.nth <= deliveries[j.task] /\ deliveries[j.task] \in Nat
  BY <1>1 DEF Jobs, Deliveries, Numbered
<1>8. Data' /\ Linked'
  BY <1>1, <1>2, <1>3, <1>4, <1>5, <1>6 DEF Deliveries, Data, Linked
<1>9. Numbered'
  <2>1. ASSUME NEW j \in jobs' PROVE j.nth <= deliveries'[j.task]
    <3>1. CASE j \in jobs /\ j.task # m
      BY <3>1, <1>4, <1>7
    <3>2. CASE j \in jobs /\ j.task = m
      BY <3>2, <1>4, <1>7
    <3>3. CASE j = k
      BY <3>3, <1>4, <1>6
    <3>4. QED BY <3>1, <3>2, <3>3, <1>3
  <2>2. \A j \in jobs : ~ (j.task = m /\ j.nth = deliveries[m] + 1)
    BY <1>7
  <2>3. ASSUME NEW i \in jobs', NEW j \in jobs', i.task = j.task, i.nth = j.nth PROVE i = j
    <3>1. CASE i \in jobs /\ j \in jobs
      BY <2>3, <3>1 DEF Deliveries, Numbered
    <3>2. CASE i = k \/ j = k
      BY <2>2, <2>3, <3>2, <1>3, <1>6
    <3>3. QED BY <3>1, <3>2, <1>3
  <2>4. QED BY <2>1, <2>3 DEF Numbered
<1>10. Sent'
  BY <1>3, <1>4, <1>6, <1>7 DEF Deliveries, Sent
<1>11. ASSUME NEW j \in jobs, Unacked(j)' PROVE Unacked(j)
  <2>1. j.task # m
    BY <1>4, <1>7, <1>11 DEF Unacked
  <2>2. QED BY <2>1, <1>4, <1>7, <1>11 DEF Unacked
<1>12. ResultFirst'
  BY <1>2, <1>3, <1>6, <1>11 DEF Deliveries, ResultFirst
<1>13. TagsNameJobs'
  <2> SUFFICES ASSUME ~ LinksBreak PROVE TagsNameJobs'
    BY <1>2 DEF TagsNameJobs, LinksBreak
  <2>1. \A j \in jobs : Unacked(j) /\ j.tag <= tags[j.worker]
    BY DEF Deliveries, TagsNameJobs
  <2>2. ASSUME NEW j \in jobs PROVE Unacked(j)' /\ j.tag <= tags'[j.worker] /\ ~ (j.worker = w /\ j.tag = k.tag)
    <3>1. place[j.task] = j.worker /\ deliveries[j.task] = j.nth /\ j.tag <= tags[j.worker]
      BY <2>1 DEF Unacked
    <3>2. j.task # m
      BY <3>1, <1>2, <1>7
    <3>3. Unacked(j)'
      BY <3>1, <3>2, <1>4, <1>7 DEF Unacked
    <3>4. j.tag <= tags'[j.worker] /\ ~ (j.worker = w /\ j.tag = k.tag)
      <4>1. tags[j.worker] \in Nat /\ tags[w] \in Nat /\ j.tag \in Nat
        BY <1>1, <1>7
      <4>2. CASE j.worker = w
        <5>1. j.tag <= tags[w] /\ tags'[w] = tags[w] + 1 /\ k.tag = tags[w] + 1
          BY <3>1, <4>2, <1>5, <1>6
        <5>2. j.tag <= tags'[w] /\ j.tag # k.tag
          BY <4>1, <5>1
        <5>3. QED BY <4>2, <5>2
      <4>3. CASE j.worker # w
        BY <3>1, <4>3, <1>5, <1>7
      <4>4. QED BY <4>2, <4>3
    <3>5. QED BY <3>3, <3>4
  <2>3. Unacked(k)' /\ k.tag <= tags'[k.worker]
    <3>1. tags'[k.worker] = k.tag /\ k.tag \in Nat
      BY <1>5, <1>6 DEF Jobs
    <3>2. place'[k.task] = k.worker /\ deliveries'[k.task] = k.nth
      BY <1>4, <1>6
    <3>3. k.tag <= tags'[k.worker]
      BY <3>1
    <3>4. Unacked(k)'
      BY <3>2 DEF Unacked
    <3>5. QED BY <3>3, <3>4
  <2>4. ASSUME NEW i \in jobs', NEW j \in jobs', i.worker = j.worker, i.tag = j.tag PROVE i = j
    <3>1. CASE i \in jobs /\ j \in jobs
      BY <2>4, <3>1 DEF Deliveries, TagsNameJobs
    <3>2. CASE i = k \/ j = k
      BY <2>2, <2>4, <3>2, <1>3, <1>6
    <3>3. QED BY <3>1, <3>2, <1>3
  <2>5. QED BY <2>2, <2>3, <2>4, <1>2, <1>3 DEF Deliveries, TagsNameJobs
<1>14. InOrder' /\ SettledHasResult'
  BY <1>2, <1>4 DEF task_count, Deliveries, InOrder, SettledHasResult, LinksBreak
<1>15. QED BY <1>8, <1>9, <1>10, <1>12, <1>13, <1>14 DEF Deliveries

\* The master or its driver sends a task on.
LEMMA TaskGoesOn ==
    ASSUME Deliveries, UNCHANGED <<config, deliveries, answered, misled, faults, jobs, channel>>,
           NEW t \in Tasks, NEW p \in {"outbox", "ready", "lost"},
           place[t] \in {"unsent", "outbox"}, place' = [place EXCEPT ![t] = p],
           InOrder'
    PROVE  Deliveries'
<1> USE DEF channel
<1>1. /\ jobs \subseteq Jobs /\ Data' /\ place \in [Messages -> Places] /\ p \notin Workers /\ p # "gone"
  BY DEF Deliveries, Data, Places
<1>2. ASSUME NEW j \in jobs PROVE j.task # t /\ place'[j.task] = place[j.task] /\ (Unacked(j)' <=> Unacked(j))
  <2>1. j.task \in Messages
    BY <1>1 DEF Jobs
  <2>2. place[j.task] \notin {"unsent", "outbox"}
    BY DEF Deliveries, Sent
  <2>3. QED BY <1>1, <2>1, <2>2 DEF Unacked
<1>3. \A m \in Messages : place'[m] = IF m = t THEN p ELSE place[m]
  BY <1>1
<1>4. Linked' /\ SettledHasResult'
  BY <1>1, <1>3 DEF Deliveries, Linked, SettledHasResult, LinksBreak
<1>5. Numbered' /\ Sent' /\ ResultFirst' /\ TagsNameJobs'
  BY <1>2 DEF Deliveries, Numbered, Sent, ResultFirst, TagsNameJobs, LinksBreak
<1>6. QED BY <1>1, <1>4, <1>5 DEF Deliveries

LEMMA OrderKept ==
    ASSUME Deliveries, MasterMain
    PROVE  InOrder' /\ (UNCHANGED broker \/ PublishTask)
<1> USE DEF InOrder, Deliveries, Data, Publishing, Step, task_count
<1>0. index \in Nat \ {0} /\ (mpc \in {"put", "publish", "finalize"} => index <= task_count)
  OBVIOUS
<1>1. CASE Build \/ BuildFails \/ Start \/ StartFails \/ RegisterConsumer \/ MasterReady \/ SetupFails
  BY <1>1 DEF Build, BuildFails, Start, StartFails, RegisterConsumer, MasterReady, SetupFails, run, broker
<1>2. CASE CancelSeen \/ SourceFails \/ Source \/ Put \/ PutFails \/ PublishFails \/ AllPublished
  BY <1>2 DEF CancelSeen, SourceFails, Source, Put, PutFails, PublishFails, AllPublished, broker
<1>3. CASE PublishTask
  <2>1. mpc = "publish" /\ mpc' = "source" /\ index' = index + 1 /\ config' = config
        /\ place' = [place EXCEPT ![index] = "outbox"] /\ place \in [Messages -> Places]
    BY <1>3 DEF PublishTask
  <2>2. QED BY <2>1, <1>3
<1>4. CASE WaitEnds \/ WaitCancelled \/ Sleep \/ Deadline \/ MarkUnfinished
  BY <1>4 DEF WaitEnds, WaitCancelled, Sleep, Deadline, MarkUnfinished, broker
<1>5. CASE SweepSkips \/ CleanupTimedOutTask \/ SweepFinalizes
  BY <1>5 DEF SweepSkips, CleanupTimedOutTask, SweepFinalizes, broker
<1>6. CASE PublishControl \/ Unregister \/ Finish
  BY <1>6 DEF PublishControl, Unregister, Finish, broker
<1>7. QED BY <1>1, <1>2, <1>3, <1>4, <1>5, <1>6 DEF MasterMain

LEMMA MasterKeepsDeliveries ==
    ASSUME Deliveries, MasterActs PROVE Deliveries'
<1>1. UNCHANGED <<channel, jobs>>
  BY DEF MasterActs, worker
<1>2. CASE MasterMain
  <2>1. CASE UNCHANGED broker
    BY <2>1, <1>1, <1>2, OrderKept, DeliveriesStay DEF broker, Deliveries, Data
  <2>2. CASE PublishTask
    <3>1. index \in Tasks /\ place[index] = "unsent"
      BY <2>2 DEF PublishTask, Step, Deliveries, InOrder, Publishing, Data, Config, task_count
    <3>2. place' = [place EXCEPT ![index] = "outbox"] /\ UNCHANGED <<config, deliveries, answered, misled, faults>>
      BY <2>2 DEF PublishTask
    <3>3. QED BY <3>1, <3>2, <1>1, <1>2, OrderKept, TaskGoesOn
  <2>3. QED BY <2>1, <2>2, <1>2, OrderKept
<1>3. ASSUME MasterConnects \/ (\E r \in results : ResultTaken(r)) \/ (\E j \in rjobs : MasterHandlers(j))
      PROVE  Deliveries'
  <2>1. UNCHANGED <<config, place, deliveries, answered, misled, faults, mpc, index>>
    BY <1>3 DEF MasterConnects, ResultTaken, MasterHandlers, ResultFinishes, AckResult, broker, run
  <2>2. QED BY <2>1, <1>1, DeliveriesStay DEF Deliveries, Data, InOrder, task_count
<1>4. CASE MasterDisconnects
  <2>1. UNCHANGED <<config, place, deliveries, answered, misled, mpc, index>> /\ faults < MaxFaults /\ faults' = faults + 1
    BY <1>4 DEF MasterDisconnects, Fault, run
  <2>2. QED BY <2>1, <1>1, DeliveriesStay DEF Deliveries, Data, InOrder, task_count
<1>5. ASSUME NEW t \in Tasks, SendTask(t) PROVE Deliveries'
  <2>1. /\ UNCHANGED <<config, deliveries, answered, misled, faults, mpc, index>> /\ place[t] = "outbox"
        /\ place' = [place EXCEPT ![t] = IF mlink THEN "ready" ELSE "lost"]
    BY <1>5 DEF SendTask, master, run
  <2>2. InOrder'
    BY <2>1 DEF Deliveries, Data, InOrder, task_count
  <2>3. QED BY <2>1, <2>2, <1>1, TaskGoesOn
<1>6. QED BY <1>2, <1>3, <1>4, <1>5 DEF MasterActs

\* The connection of w ends: either it is lost, or its jobs end with it.
LEMMA UnlinkWell ==
    ASSUME Deliveries, NEW w \in Workers, Unlink(w), UNCHANGED <<mpc, index>>, faults' \in 0 .. MaxFaults,
           \/ jobs' = jobs /\ LinksBreak
           \/ jobs' = jobs \ JobsOf(w)
    PROVE  Deliveries'
<1> USE DEF Unlink
<1>1. /\ jobs \subseteq Jobs /\ place \in [Messages -> Places] /\ tags \in [Workers -> Nat] /\ jobs' \subseteq jobs
  BY DEF Deliveries, Data
<1>2. /\ place' \in [Messages -> Places]
      /\ \A m \in Messages : place'[m] = IF place[m] = w THEN "ready" ELSE place[m]
  BY <1>1 DEF Requeued, Places
<1>3. Data' /\ Linked'
  BY <1>1, <1>2 DEF Deliveries, Data, Linked
<1>4. ASSUME NEW j \in jobs
      PROVE  /\ Unacked(j)' => Unacked(j)
             /\ j.worker # w => (Unacked(j)' <=> Unacked(j)) /\ tags'[j.worker] = tags[j.worker]
  <2>1. j.task \in Messages /\ j.worker \in Workers
    BY <1>1 DEF Jobs
  <2>2. QED BY <1>1, <1>2, <2>1 DEF Unacked
<1>5. Numbered' /\ ResultFirst'
  <2>1. Numbered'
    BY <1>1 DEF Deliveries, Numbered
  <2>2. ASSUME NEW j \in jobs', Unacked(j)' PROVE Unacked(j)
    <3>1. j \in jobs
      BY <1>1
    <3>2. QED BY <1>4, <2>2, <3>1
  <2>3. answered' = answered
    OBVIOUS
  <2>4. ResultFirst'
    BY <1>1, <2>2, <2>3 DEF Deliveries, ResultFirst
  <2>5. QED BY <2>1, <2>4
<1>6. Sent'
  <2> SUFFICES ASSUME NEW j \in jobs PROVE place'[j.task] \notin {"unsent", "outbox", "lost"}
    BY <1>1 DEF Sent
  <2>1. j.task \in Messages
    BY <1>1 DEF Jobs
  <2>2. QED BY <1>2, <2>1 DEF Deliveries, Sent
<1>7. TagsNameJobs'
  <2> SUFFICES ASSUME ~ LinksBreak PROVE TagsNameJobs'
    BY DEF TagsNameJobs, LinksBreak
  <2>1. \A j \in jobs' : j \in jobs /\ j.worker # w
    BY DEF JobsOf
  <2>2. QED BY <1>4, <2>1 DEF Deliveries, TagsNameJobs
<1>8. SettledHasResult' /\ InOrder'
  BY <1>2 DEF Deliveries, SettledHasResult, InOrder, task_count, LinksBreak
<1>9. QED BY <1>3, <1>5, <1>6, <1>7, <1>8 DEF Deliveries

LEMMA SettleStep ==
    ASSUME Deliveries, NEW j \in jobs, SendSettle(j), UNCHANGED <<mpc, index>>
    PROVE  Deliveries'
<1>1. /\ UNCHANGED <<config, deliveries, answered, faults, wlink, tags>> /\ jobs' = jobs \ {j}
      /\ j.stage \in Settling /\ ~ j.unsent
  BY DEF SendSettle
<1>2. /\ jobs \subseteq Jobs /\ place \in [Messages -> Places] /\ j \in Jobs
  BY DEF Deliveries, Data
<1>3. \A k \in jobs : k.task \in Messages /\ k.worker \in Workers
  BY <1>2 DEF Jobs
<1>4. CASE UNCHANGED <<place, misled, closed>>
  <2>1. Data' /\ Linked' /\ Numbered' /\ Sent'
    BY <1>1, <1>4 DEF Deliveries, Data, Linked, Numbered, Sent
  <2>2. ResultFirst' /\ TagsNameJobs' /\ SettledHasResult' /\ InOrder'
    BY <1>1, <1>4 DEF Deliveries, ResultFirst, TagsNameJobs, SettledHasResult, InOrder, task_count, Unacked, LinksBreak
  <2>3. QED BY <2>1, <2>2 DEF Deliveries
<1>5. ASSUME NEW k \in JobsOf(j.worker), k.tag = j.tag, Unacked(k),
             place' = [place EXCEPT ![k.task] = IF j.stage = "requeue" THEN "ready" ELSE "gone"],
             misled' = IF k = j \/ j.stage = "requeue" THEN misled ELSE misled \cup {k.task},
             closed' = closed
      PROVE  Deliveries'
  <2>1. k \in jobs /\ k.worker = j.worker /\ k.task \in Messages /\ place[k.task] = k.worker /\ k.worker \in Workers
    BY <1>3, <1>5 DEF JobsOf, Unacked
  <2>2. /\ place' \in [Messages -> Places]
        /\ place'[k.task] \in {"ready", "gone"} /\ (place'[k.task] = "gone" => j.stage \in {"ack", "reject"})
        /\ \A m \in Messages : m # k.task => place'[m] = place[m]
    BY <1>1, <1>2, <1>5, <2>1 DEF Places, Settling
  <2>3. Data' /\ Linked'
    BY <1>1, <1>5, <2>1, <2>2 DEF Deliveries, Data, Linked
  <2>4. \A i \in jobs : Unacked(i)' => Unacked(i)
    BY <1>1, <1>3, <2>1, <2>2 DEF Unacked
  <2>5. Numbered' /\ Sent' /\ ResultFirst'
    BY <1>1, <1>3, <2>2, <2>4 DEF Deliveries, Numbered, Sent, ResultFirst
  <2>6. ASSUME ~ LinksBreak
        PROVE  k = j /\ closed' = {} /\ \A i \in jobs' : Unacked(i)'
    <3>1. k = j /\ closed' = {}
      BY <1>5, <2>1, <2>6 DEF Deliveries, TagsNameJobs
    <3>2. ASSUME NEW i \in jobs' PROVE Unacked(i)'
      <4>1. i \in jobs /\ i # j /\ Unacked(i) /\ Unacked(j)
        BY <1>1, <2>6 DEF Deliveries, TagsNameJobs
      <4>2. i.task # j.task
        BY <4>1 DEF Unacked, Deliveries, Numbered
      <4>3. QED BY <1>1, <1>3, <2>2, <3>1, <4>1, <4>2 DEF Unacked
    <3>3. QED BY <3>1, <3>2
  <2>7. TagsNameJobs'
    BY <1>1, <2>6 DEF Deliveries, TagsNameJobs, LinksBreak
  <2>8. SettledHasResult'
    <3> SUFFICES ASSUME NEW m \in Tasks \cup (Stale \cap config.old), place'[m] = "gone"
                 PROVE  m \in answered \/ (m \in misled' /\ LinksBreak)
      BY <1>1 DEF SettledHasResult, LinksBreak
    <3>1. m \in Messages /\ m \notin Garbled /\ misled \subseteq misled'
      BY <1>5
    <3>2. CASE m # k.task
      BY <3>1, <3>2, <2>2 DEF Deliveries, SettledHasResult
    <3>3. CASE m = k.task /\ k = j
      BY <3>1, <3>3, <2>2, <1>1, <1>5 DEF Deliveries, ResultFirst
    <3>4. CASE m = k.task /\ k # j
      BY <3>4, <2>2, <2>6, <1>5
    <3>5. QED BY <3>2, <3>3, <3>4
  <2>9. InOrder'
    BY <1>1, <2>1, <2>2 DEF Deliveries, InOrder, task_count
  <2>10. QED BY <2>3, <2>5, <2>7, <2>8, <2>9 DEF Deliveries
<1>6. ASSUME {k \in JobsOf(j.worker) : k.tag = j.tag /\ Unacked(k)} = {}, j.worker \in wlink,
             place' = Requeued(j.worker), closed' = closed \cup {j.worker}, misled' = misled
      PROVE  Deliveries'
  <2>1. LinksBreak
    BY <1>6 DEF Deliveries, TagsNameJobs, JobsOf
  <2>2. /\ place' \in [Messages -> Places]
        /\ \A m \in Messages : place'[m] = IF place[m] = j.worker THEN "ready" ELSE place[m]
    BY <1>2, <1>3, <1>6 DEF Requeued, Places
  <2>3. Data' /\ Linked'
    BY <1>1, <1>6, <2>2 DEF Deliveries, Data, Linked
  <2>4. \A i \in jobs : Unacked(i)' => Unacked(i)
    BY <1>1, <1>3, <2>2 DEF Unacked
  <2>5. Numbered' /\ ResultFirst' /\ TagsNameJobs'
    BY <1>1, <2>1, <2>4 DEF Deliveries, Numbered, ResultFirst, TagsNameJobs, LinksBreak
  <2>6. Sent'
    BY <1>1, <1>3, <2>2 DEF Deliveries, Sent
  <2>7. SettledHasResult' /\ InOrder'
    BY <1>1, <1>3, <1>6, <2>2 DEF Deliveries, SettledHasResult, InOrder, task_count, LinksBreak
  <2>8. QED BY <2>3, <2>5, <2>6, <2>7 DEF Deliveries
<1>7. QED BY <1>4, <1>5, <1>6 DEF SendSettle, Settle

LEMMA ProcessStep ==
    ASSUME Deliveries, NEW j \in jobs, NEW reply, ProcessTask(j, reply), UNCHANGED <<mpc, index>>
    PROVE  Deliveries'
<1>1. j \in Jobs /\ j.stage = "active" /\ UNCHANGED <<config, place, deliveries, answered, misled, faults, channel>>
  BY DEF Deliveries, Data, ProcessTask, broker
<1>2. PICK k : /\ Becomes(j, k)
               /\ \/ k = [j EXCEPT !.unsent = TRUE, !.stage = "ack"]
                  \/ k = [j EXCEPT !.unsent = TRUE, !.stage = "reject"]
                  \/ k = [j EXCEPT !.stage = "requeue"]
  BY DEF ProcessTask, Published
<1>3. /\ k \in Jobs /\ k.task = j.task /\ k.nth = j.nth /\ k.worker = j.worker /\ k.tag = j.tag
      /\ k.unsent \/ k.stage = "requeue"
  BY <1>1, <1>2 DEF Jobs, Settling
<1>4. QED BY <1>1, <1>2, <1>3, JobGoesOnWell

LEMMA SendStep ==
    ASSUME Deliveries, NEW j \in jobs, SendResult(j), UNCHANGED <<mpc, index>>
    PROVE  Deliveries'
<1>1. /\ j \in Jobs /\ UNCHANGED <<config, place, deliveries, misled, faults, channel>> /\ answered \subseteq answered'
      /\ j.worker \in wlink => j.task \in answered'
  BY DEF Deliveries, Data, SendResult
<1>2. PICK k : Becomes(j, k) /\ k = [j EXCEPT !.unsent = FALSE]
  BY DEF SendResult
<1>3. k \in Jobs /\ k.task = j.task /\ k.nth = j.nth /\ k.worker = j.worker /\ k.tag = j.tag
  BY <1>1, <1>2 DEF Jobs
<1>4. place[k.task] = k.worker => k.worker \in wlink
  BY <1>3 DEF Jobs, Deliveries, Linked
<1>5. QED BY <1>1, <1>2, <1>3, <1>4, JobGoesOnWell

LEMMA WorkersKeepDeliveries ==
    ASSUME Deliveries, WorkersAct PROVE Deliveries'
<1>1. UNCHANGED <<mpc, index>> /\ faults \in 0 .. MaxFaults
  BY DEF WorkersAct, master, run, Deliveries, Data
<1>2. ASSUME NEW w \in Workers,
             \/ WorkerStart(w) \/ WorkerStartFails(w) \/ WorkerReady(w) \/ WorkerLeaves(w) \/ WorkerTimesOut(w)
             \/ ControlHandler(w)
      PROVE  Deliveries'
  <2>1. UNCHANGED <<config, place, deliveries, answered, misled, faults, jobs, channel>>
    BY <1>2 DEF WorkerStart, WorkerStartFails, WorkerReady, WorkerLeaves, WorkerTimesOut, ControlHandler, broker
  <2>2. QED BY <1>1, <2>1, DeliveriesStay DEF Deliveries, InOrder, task_count
<1>3. ASSUME NEW w \in Workers, WorkerStops(w) PROVE Deliveries'
  <2>1. Unlink(w) /\ jobs' = jobs \ JobsOf(w) /\ faults' = faults
    BY <1>3 DEF WorkerStops
  <2>2. QED BY <1>1, <2>1, UnlinkWell
<1>4. ASSUME NEW w \in Workers, WorkerDisconnects(w) \/ Kill(w) PROVE Deliveries'
  <2>1. /\ Unlink(w) /\ faults < MaxFaults /\ faults' = faults + 1
        /\ \/ jobs' = jobs /\ LinksBreak
           \/ jobs' = jobs \ JobsOf(w)
    BY <1>4 DEF WorkerDisconnects, Kill, Fault, LinksBreak
  <2>2. faults' \in 0 .. MaxFaults
    BY <1>1, <2>1
  <2>3. QED BY <1>1, <2>1, <2>2, UnlinkWell
<1>5. ASSUME NEW w \in Workers, WorkerConnects(w) PROVE Deliveries'
  <2>1. UNCHANGED <<config, place, deliveries, answered, misled, faults, jobs, tags, closed>> /\ wlink' = wlink \cup {w}
    BY <1>5 DEF WorkerConnects, broker
  <2>2. Data' /\ Linked' /\ Numbered' /\ Sent'
    BY <2>1 DEF Deliveries, Data, Linked, Numbered, Sent
  <2>3. ResultFirst' /\ TagsNameJobs' /\ InOrder' /\ SettledHasResult'
    BY <2>1, <1>1 DEF Deliveries, ResultFirst, TagsNameJobs, Unacked, InOrder, task_count, SettledHasResult, LinksBreak
  <2>4. QED BY <2>2, <2>3 DEF Deliveries
<1>6. ASSUME NEW m \in Messages, NEW w \in Workers, TaskHandler(m, w) PROVE Deliveries'
  BY <1>1, <1>6, DeliveryStep
<1>7. ASSUME NEW j \in jobs, WorkerDriver(j) PROVE Deliveries'
  BY <1>1, <1>7, SendStep, SettleStep DEF WorkerDriver
<1>8. QED BY <1>2, <1>3, <1>4, <1>5, <1>6, <1>7 DEF WorkersAct, WorkerMain

LEMMA DeliveriesNext == Deliveries /\ [Next]_vars => Deliveries'
<1> SUFFICES ASSUME Deliveries, [Next]_vars PROVE Deliveries'
  OBVIOUS
<1>1. CASE MasterActs
  BY <1>1, MasterKeepsDeliveries
<1>2. CASE WorkersAct
  BY <1>2, WorkersKeepDeliveries
<1>3. CASE SendControl
  <2>1. UNCHANGED <<config, place, deliveries, answered, misled, faults, jobs, channel, mpc, index>>
    BY <1>3 DEF SendControl, SendShutdown, worker, run
  <2>2. QED BY <2>1, DeliveriesStay DEF Deliveries, Data, InOrder, task_count
<1>4. ASSUME NEW j \in jobs, FetchImage(j) PROVE Deliveries'
  BY <1>4, ProcessStep DEF FetchImage, run
<1>5. CASE UNCHANGED vars
  <2>1. UNCHANGED <<config, place, deliveries, answered, misled, faults, jobs, channel, mpc, index>>
    BY <1>5 DEF vars, broker, master, worker, run
  <2>2. QED BY <2>1, DeliveriesStay DEF Deliveries, Data, InOrder, task_count
<1>6. QED BY <1>1, <1>2, <1>3, <1>4, <1>5 DEF Next

-----------------------------------------------------------------------------
(* Results: what reaches the master was sent by it and computed for it.    *)

Answers ==
    /\ results \subseteq ResultMessages
    /\ rjobs \subseteq RJobs
    /\ computed \subseteq Tasks \cup Stale
    /\ epoch \in Nat /\ epoch <= faults
    /\ \A r \in results : /\ r.task \in Tasks => place[r.task] # "unsent"
                          /\ r.status = "processed" => r.task \in computed
    /\ \A j \in rjobs : /\ j.task \in Tasks => place[j.task] # "unsent"
                        /\ j.status = "processed" => j.task \in computed
                        /\ j.stage = "finishing" => j.task \in Tasks
    /\ \A j \in jobs : /\ j.stage = "ack" => j.task \in computed
                       /\ j.stage = "active" \/ j.unsent => j.task \notin Garbled

\* A task that was sent is not unsent again, and only PublishTask sends one.
LEMMA SentStays ==
    ASSUME Deliveries, [Next]_vars
    PROVE  /\ config' = config
           /\ \A t \in Tasks : \/ place'[t] = "unsent" <=> place[t] = "unsent"
                               \/ PublishTask /\ t = index
           /\ \A t \in Tasks : place'[t] = "outbox" => place[t] = "outbox" \/ PublishTask
<1>0. /\ place \in [Messages -> Places] /\ jobs \subseteq Jobs
      /\ \A w \in Workers : w \notin {"unsent", "outbox", "ready", "gone", "lost"}
  BY DEF Deliveries, Data
<1>1. CASE UNCHANGED <<config, place>>
  BY <1>1
<1>2. CASE PublishTask
  BY <1>0, <1>2 DEF PublishTask
<1>3. ASSUME NEW t \in Tasks, SendTask(t)
      PROVE  /\ config' = config
             /\ place[t] = "outbox" /\ place'[t] \notin {"unsent", "outbox"}
             /\ \A u \in Tasks : u # t => place'[u] = place[u]
  BY <1>0, <1>3 DEF SendTask
<1>4. ASSUME NEW w \in Workers, place' = Requeued(w)
      PROVE  \A t \in Tasks : place'[t] = place[t] \/ (place[t] = w /\ place'[t] = "ready")
  <2>1. \A m \in Messages : place'[m] = IF place[m] = w THEN "ready" ELSE place[m]
    BY <1>4 DEF Requeued
  <2>2. ASSUME NEW t \in Tasks PROVE place'[t] = place[t] \/ (place[t] = w /\ place'[t] = "ready")
    <3>1. t \in Messages
      OBVIOUS
    <3>2. place'[t] = IF place[t] = w THEN "ready" ELSE place[t]
      BY <2>1, <3>1
    <3>3. QED BY <3>2
  <2>3. QED BY <2>2
<1>5. ASSUME NEW w \in Workers,
             WorkerMain(w) \/ WorkerConnects(w) \/ WorkerDisconnects(w) \/ Kill(w) \/ ControlHandler(w)
      PROVE  config' = config /\ (place' = place \/ place' = Requeued(w))
  BY <1>5 DEF WorkerMain, WorkerStart, WorkerStartFails, WorkerReady, WorkerLeaves, WorkerTimesOut,
              WorkerStops, WorkerConnects, WorkerDisconnects, Kill, ControlHandler, Unlink, broker
<1>6. ASSUME NEW m \in Messages, NEW w \in Workers, TaskHandler(m, w)
      PROVE  /\ config' = config
             /\ \A t \in Tasks : \/ place'[t] = place[t]
                                 \/ place[t] = "ready" /\ place'[t] \notin {"unsent", "outbox"}
  BY <1>0, <1>6 DEF TaskHandler
<1>7. ASSUME NEW j \in jobs, WorkerDriver(j)
      PROVE  /\ config' = config
             /\ \A t \in Tasks : \/ place'[t] = place[t]
                                 \/ place[t] \in Workers /\ place'[t] \notin {"unsent", "outbox"}
  <2>1. CASE UNCHANGED <<config, place>>
    BY <2>1
  <2>2. ASSUME NEW k \in JobsOf(j.worker), Unacked(k),
               place' = [place EXCEPT ![k.task] = IF j.stage = "requeue" THEN "ready" ELSE "gone"]
        PROVE  \A t \in Tasks : \/ place'[t] = place[t]
                                \/ place[t] \in Workers /\ place'[t] \notin {"unsent", "outbox"}
    <3>1. k.worker \in Workers /\ place[k.task] = k.worker
      BY <1>0, <2>2 DEF JobsOf, Jobs, Unacked
    <3>2. QED BY <1>0, <2>2, <3>1
  <2>3. j.worker \in Workers
    BY <1>0 DEF Jobs
  <2>4. QED BY <1>4, <1>7, <2>1, <2>2, <2>3 DEF WorkerDriver, SendResult, SendSettle, Settle
<1>8. CASE WorkersAct
  BY <1>8, <1>0, <1>4, <1>5, <1>6, <1>7 DEF WorkersAct
<1>9. CASE MasterActs
  <2>1. CASE MasterMain
    BY <2>1, <1>1, <1>2, OrderKept DEF broker
  <2>2. CASE MasterConnects \/ MasterDisconnects \/ (\E r \in results : ResultTaken(r))
             \/ (\E j \in rjobs : MasterHandlers(j))
    BY <2>2, <1>1 DEF MasterConnects, MasterDisconnects, ResultTaken, MasterHandlers, ResultFinishes,
        AckResult, broker
  <2>3. CASE \E t \in Tasks : SendTask(t)
    BY <2>3, <1>3
  <2>4. QED BY <2>1, <2>2, <2>3, <1>9 DEF MasterActs
<1>10. CASE SendControl \/ (\E j \in jobs : FetchImage(j)) \/ UNCHANGED vars
  BY <1>10, <1>1 DEF SendControl, SendShutdown, FetchImage, ProcessTask, vars, broker
<1>11. QED BY <1>8, <1>9, <1>10 DEF Next

LEMMA AnswersInit == Init => Answers
BY DEF Init, BrokerInit, MasterInit, WorkerInit, Answers

LEMMA AnswersNext == Deliveries /\ Answers /\ [Next]_vars => Answers'
<1> SUFFICES ASSUME Deliveries, Answers, [Next]_vars PROVE Answers'
  OBVIOUS
<1>0. /\ \A t \in Tasks : place[t] # "unsent" => place'[t] # "unsent"
      /\ faults \in Nat /\ jobs \subseteq Jobs
  <2>1. \A t \in Tasks : place[t] # "unsent" => place'[t] # "unsent"
    <3>1. CASE PublishTask
      BY <3>1 DEF PublishTask, Deliveries, Data
    <3>2. CASE ~ PublishTask
      BY <3>2, SentStays
    <3>3. QED BY <3>1, <3>2
  <2>2. QED BY <2>1 DEF Deliveries, Data
<1>1. ASSUME /\ results' \subseteq results /\ rjobs' \subseteq rjobs /\ computed' = computed
             /\ epoch' = epoch /\ jobs' \subseteq jobs /\ faults' >= faults /\ faults' \in Nat
      PROVE  Answers'
  <2>1. epoch' \in Nat /\ epoch' <= faults'
    BY <1>0, <1>1 DEF Answers
  <2>2. ResultMessages' = ResultMessages /\ RJobs' = RJobs
    BY DEF ResultMessages, RJobs
  <2>3. /\ \A r \in results' : r.task \in Tasks => place'[r.task] # "unsent"
        /\ \A j \in rjobs' : j.task \in Tasks => place'[j.task] # "unsent"
    BY <1>0, <1>1 DEF Answers
  <2>4. QED BY <2>1, <2>2, <2>3, <1>1 DEF Answers
<1>2. CASE MasterActs /\ MasterMain
  <2>1. UNCHANGED <<results, faults, rjobs, epoch, computed, jobs>>
    <3>1. UNCHANGED <<results, faults>>
      BY <1>2, OrderKept DEF broker, PublishTask
    <3>2. UNCHANGED <<rjobs, epoch>>
      BY <1>2 DEF MasterMain, Build, BuildFails, Start, StartFails, RegisterConsumer, MasterReady,
             SetupFails, CancelSeen, SourceFails, Source, Put, PutFails, PublishTask, PublishFails,
             AllPublished, WaitEnds, WaitCancelled, Sleep, Deadline, MarkUnfinished, SweepSkips,
             CleanupTimedOutTask, SweepFinalizes, PublishControl, Unregister, Finish, link
    <3>3. QED BY <3>1, <3>2, <1>2 DEF MasterActs, worker
  <2>2. QED BY <2>1, <1>1, <1>0
<1>3. CASE MasterActs /\ (MasterConnects \/ (\E t \in Tasks : SendTask(t)))
  <2>1. UNCHANGED <<results, faults, rjobs, epoch, computed, jobs>>
    BY <1>3 DEF MasterActs, MasterConnects, SendTask, broker, worker, master, link
  <2>2. QED BY <2>1, <1>1, <1>0
<1>4. CASE MasterActs /\ MasterDisconnects
  <2>1. PICK back \in SUBSET rjobs :
           /\ UNCHANGED <<rjobs, computed, jobs>> /\ faults' = faults + 1 /\ epoch' = epoch + 1
           /\ results' = results \cup {Result(j.task, j.nth, j.status) : j \in back}
    BY <1>4 DEF MasterActs, MasterDisconnects, Fault, worker
  <2>2. ASSUME NEW r \in results', r \notin results
        PROVE  /\ r \in ResultMessages
               /\ r.task \in Tasks => place'[r.task] # "unsent"
               /\ r.status = "processed" => r.task \in computed
    <3>1. PICK j \in rjobs : r = Result(j.task, j.nth, j.status)
      BY <2>1, <2>2
    <3>2. j \in RJobs
      BY DEF Answers
    <3>3. QED BY <3>1, <3>2, <1>0 DEF Answers, Result, ResultMessages, RJobs
  <2>3. QED BY <2>1, <2>2, <1>0 DEF Answers, ResultMessages, RJobs
<1>5. ASSUME NEW r \in results, ResultTaken(r), MasterActs PROVE Answers'
  <2>1. PICK h \in {Held(r, "ack"), Held(r, "finishing")} :
            /\ rjobs' = rjobs \cup {h}
            /\ h.stage = "finishing" => r.task \in Tasks
    BY <1>5 DEF ResultTaken, Held
  <2>2. /\ UNCHANGED <<computed, jobs, epoch, faults>> /\ results' = results \ {r}
    BY <1>5 DEF ResultTaken, MasterActs, worker, link
  <2>3. h \in RJobs /\ h.task = r.task /\ h.status = r.status
    <3>1. r \in ResultMessages /\ epoch \in 0 .. MaxFaults
      BY DEF Answers, Deliveries, Data
    <3>2. QED BY <3>1, <2>1 DEF Held, RJobs, ResultMessages
  <2>4. QED BY <2>1, <2>2, <2>3, <1>0 DEF Answers, ResultMessages, RJobs
<1>6. ASSUME NEW j \in rjobs, MasterHandlers(j), MasterActs PROVE Answers'
  <2>1. UNCHANGED <<computed, jobs, epoch, faults, results>>
    BY <1>6 DEF MasterHandlers, ResultFinishes, AckResult, MasterActs, worker, link, broker
  <2>2. CASE AckResult(j)
    BY <2>1, <2>2, <1>1, <1>0 DEF AckResult
  <2>3. CASE ResultFinishes(j)
    <3>1. PICK h : rjobs' = (rjobs \ {j}) \cup {h} /\ h = [j EXCEPT !.stage = "ack"]
      BY <2>3 DEF ResultFinishes, Acked
    <3>2. h \in RJobs /\ h.task = j.task /\ h.status = j.status /\ h.stage = "ack"
      BY <3>1 DEF Answers, RJobs
    <3>3. QED BY <3>1, <3>2, <2>1, <1>0 DEF Answers, ResultMessages, RJobs
  <2>4. QED BY <2>2, <2>3, <1>6 DEF MasterHandlers
<1>7. CASE MasterActs
  BY <1>2, <1>3, <1>4, <1>5, <1>6, <1>7 DEF MasterActs
<1>8. ASSUME NEW w \in Workers, WorkersAct,
             WorkerMain(w) \/ WorkerConnects(w) \/ WorkerDisconnects(w) \/ Kill(w) \/ ControlHandler(w)
      PROVE  Answers'
  <2>1. /\ UNCHANGED <<results, rjobs, epoch, computed>> /\ jobs' \subseteq jobs
        /\ faults' \in {faults, faults + 1}
    BY <1>8 DEF WorkersAct, WorkerMain, WorkerStart, WorkerStartFails, WorkerReady, WorkerLeaves,
        WorkerTimesOut, WorkerStops, Unlink, WorkerConnects, WorkerDisconnects, Kill, ControlHandler, Fault, broker, master,
        link
  <2>2. QED BY <2>1, <1>1, <1>0
<1>9. ASSUME NEW m \in Messages, NEW w \in Workers, TaskHandler(m, w), WorkersAct PROVE Answers'
  <2>1. UNCHANGED <<results, rjobs, epoch, computed, faults>>
    BY <1>9 DEF WorkersAct, TaskHandler, master, link
  <2>2. PICK k : /\ jobs' = jobs \cup {k}
                 /\ k = [task |-> m, nth |-> deliveries'[m], tag |-> tags'[w], worker |-> w,
                         stage |-> FirstStage(m, w), unsent |-> FALSE]
    BY <1>9 DEF TaskHandler
  <2>3. ~ k.unsent /\ k.stage # "ack" /\ (k.stage = "active" => k.task \notin Garbled)
    BY <2>2 DEF FirstStage
  <2>4. \A j \in jobs' : /\ j.stage = "ack" => j.task \in computed'
                         /\ j.stage = "active" \/ j.unsent => j.task \notin Garbled
    BY <2>1, <2>2, <2>3 DEF Answers
  <2>5. QED BY <2>1, <2>4, <1>0 DEF Answers, ResultMessages, RJobs
<1>10. ASSUME NEW j \in jobs, SendSettle(j), WorkersAct PROVE Answers'
  <2>1. UNCHANGED <<results, rjobs, epoch, computed, faults>> /\ jobs' \subseteq jobs
    BY <1>10 DEF WorkersAct, SendSettle, master, link
  <2>2. QED BY <2>1, <1>1, <1>0
<1>11. ASSUME NEW j \in jobs, SendResult(j), WorkersAct PROVE Answers'
  <2>1. j \in Jobs /\ j.unsent /\ UNCHANGED <<rjobs, epoch, computed, faults>>
    BY <1>0, <1>11 DEF WorkersAct, SendResult, master, link
  <2>2. PICK k : jobs' = (jobs \ {j}) \cup {k} /\ k = [j EXCEPT !.unsent = FALSE]
    BY <1>11 DEF SendResult, Becomes
  <2>3. PICK r : /\ results' \in {results, results \cup {r}}
                 /\ r = Result(j.task, j.nth, IF j.stage = "ack" THEN "processed" ELSE "failed")
    BY <1>11 DEF SendResult
  <2>4. j.task \in Tasks \cup Stale /\ j.nth \in 1 .. MaxDeliveries
    BY <2>1 DEF Answers, Jobs
  <2>5. r \in ResultMessages /\ r.task = j.task /\ (r.status = "processed" <=> j.stage = "ack")
    BY <2>3, <2>4 DEF Result, ResultMessages, ResultStatuses
  <2>6. j.task \in Tasks => place'[j.task] # "unsent"
    BY <1>0 DEF Deliveries, Sent
  <2>7. ~ k.unsent /\ (k.stage = "active" => k.task \notin Garbled) /\ (k.stage = "ack" => k.task \in computed)
    BY <2>1, <2>2 DEF Answers, Jobs
  <2>8. QED BY <2>1, <2>2, <2>3, <2>5, <2>6, <2>7, <1>0 DEF Answers, ResultMessages, RJobs
<1>12. CASE WorkersAct
  BY <1>8, <1>9, <1>10, <1>11, <1>12 DEF WorkersAct, WorkerDriver
<1>13. CASE SendControl
  <2>1. UNCHANGED <<results, faults, rjobs, epoch, computed, jobs>>
    BY <1>13 DEF SendControl, SendShutdown, worker
  <2>2. QED BY <2>1, <1>1, <1>0
<1>14. ASSUME NEW j \in jobs, FetchImage(j) PROVE Answers'
  <2>1. PICK reply : ProcessTask(j, reply)
    BY <1>14 DEF FetchImage
  <2>2. UNCHANGED <<results, faults, rjobs, epoch>> /\ j.stage = "active" /\ j \in Jobs
    BY <1>0, <1>14, <2>1 DEF FetchImage, ProcessTask, broker, link
  <2>3. PICK k : /\ jobs' = (jobs \ {j}) \cup {k}
                 /\ \/ k = [j EXCEPT !.unsent = TRUE, !.stage = "ack"] /\ computed' = computed \cup {j.task}
                    \/ k = [j EXCEPT !.unsent = TRUE, !.stage = "reject"] /\ computed' = computed
                    \/ k = [j EXCEPT !.stage = "requeue"] /\ computed' \in {computed, computed \cup {j.task}}
    BY <2>1 DEF ProcessTask, Published, Becomes
  <2>4. k.task = j.task /\ (k.stage = "ack" => j.task \in computed') /\ k.stage # "active"
    BY <2>2, <2>3 DEF Jobs
  <2>5. j.task \notin Garbled /\ j.task \in Messages
    BY <2>2 DEF Answers, Jobs
  <2>6. computed \subseteq computed' /\ computed' \subseteq Tasks \cup Stale
    BY <2>3, <2>5 DEF Answers
  <2>7. QED BY <2>2, <2>3, <2>4, <2>5, <2>6, <1>0 DEF Answers, ResultMessages, RJobs
<1>15. CASE UNCHANGED vars
  <2>1. UNCHANGED <<results, faults, rjobs, epoch, computed, jobs>>
    BY <1>15 DEF vars, broker, master, worker, link
  <2>2. QED BY <2>1, <1>1, <1>0
<1>16. QED BY <1>7, <1>12, <1>13, <1>14, <1>15 DEF Next

-----------------------------------------------------------------------------
(* The course of the master's run.                                         *)

\* What the steps of others do to the master: nothing much, ...
Quiet ==
    /\ UNCHANGED rows
    /\ images' \subseteq images
    /\ rjobs' \subseteq rjobs

\* ... or a result is handled.
LEMMA OtherSteps ==
    ASSUME [Next]_vars, ~ MasterMain
    PROVE  /\ UNCHANGED <<run, modules, late>>
           /\ mlink' => mlink \/ (host = "up" /\ mpc # "stopping")
           /\ \/ Quiet
              \/ \E r \in results : ResultTaken(r)
              \/ \E j \in rjobs : ResultFinishes(j)
<1>1. CASE MasterActs
  <2> USE <1>1 DEF MasterActs, worker
  <2>1. CASE MasterConnects
    BY <2>1 DEF MasterConnects, Quiet, run, modules, rows
  <2>2. CASE MasterDisconnects
    BY <2>2 DEF MasterDisconnects, Quiet, run, modules, rows
  <2>3. ASSUME NEW r \in results, ResultTaken(r) PROVE UNCHANGED <<run, modules, late, mlink>>
    BY <2>3 DEF ResultTaken, run, modules, link
  <2>4. ASSUME NEW j \in rjobs, MasterHandlers(j)
        PROVE  UNCHANGED <<run, modules, late, mlink>> /\ (Quiet \/ ResultFinishes(j))
    BY <2>4 DEF MasterHandlers, ResultFinishes, AckResult, Quiet, run, modules, link, rows
  <2>5. ASSUME NEW t \in Tasks, SendTask(t) PROVE UNCHANGED <<run, modules, late, mlink>> /\ Quiet
    BY <2>5 DEF SendTask, master, run, modules, link, rows, Quiet
  <2>6. QED BY <2>1, <2>2, <2>3, <2>4, <2>5
<1>2. CASE WorkersAct
  BY <1>2 DEF WorkersAct, master, run, modules, link, rows, Quiet
<1>3. CASE SendControl
  BY <1>3 DEF SendControl, SendShutdown, worker, run, modules, rows, Quiet
<1>4. ASSUME NEW j \in jobs, FetchImage(j)
      PROVE  UNCHANGED <<run, modules, late, mlink>> /\ Quiet
  BY <1>4 DEF FetchImage, ImageRequest, CleanupExpiredLocked, run, modules, link, rows, Quiet
<1>5. CASE UNCHANGED vars
  BY <1>5 DEF vars, broker, master, worker, run, modules, link, rows, Quiet
<1>6. QED BY <1>1, <1>2, <1>3, <1>4, <1>5 DEF Next

Course ==
    /\ mpc \in {"build", "start", "consumer", "connect"} => index = 1
    /\ mpc = "build" => host = "down" /\ ~ route
    /\ mpc = "start" => host = "init"
    /\ mpc \in {"build", "start"} => ~ handler /\ rjobs = {}
    /\ mpc \notin {"build", "start", "done"} => host = "up"
    /\ mpc = "stopping" => ~ route /\ ~ handler
    /\ mpc = "done" => /\ host = "down" /\ ~ route /\ ~ handler
                       /\ rjobs = {} /\ \A t \in Tasks : place[t] # "outbox"
    /\ mlink => host = "up"

LEMMA CourseInit == Init => Course
BY DEF Init, MasterInit, Course

LEMMA CourseNext == Deliveries /\ Course /\ [Next]_vars => Course'
<1> SUFFICES ASSUME Deliveries, Course, [Next]_vars PROVE Course'
  OBVIOUS
<1>0. \A t \in Tasks : place'[t] = "outbox" => place[t] = "outbox" \/ PublishTask
  BY SentStays
<1> USE DEF Course, Step
<1>1. CASE Build \/ BuildFails \/ Start \/ StartFails
  <2>1. ~ PublishTask
    BY <1>1 DEF Build, BuildFails, Start, StartFails, PublishTask
  <2>2. \A t \in Tasks : place[t] # "outbox"
    BY <1>1 DEF Build, BuildFails, Start, StartFails, Deliveries, InOrder, Publishing
  <2>3. QED BY <1>0, <1>1, <2>1, <2>2 DEF Build, BuildFails, Start, StartFails, modules, link
<1>2. CASE RegisterConsumer \/ MasterReady \/ SetupFails
  BY <1>2 DEF RegisterConsumer, MasterReady, SetupFails, modules, link
<1>3. CASE CancelSeen \/ SourceFails \/ Source \/ Put \/ PutFails \/ PublishTask \/ PublishFails \/ AllPublished
  BY <1>3 DEF CancelSeen, SourceFails, Source, Put, PutFails, PublishTask, PublishFails, AllPublished,
      modules, link
<1>4. CASE WaitEnds \/ WaitCancelled \/ Sleep \/ Deadline \/ MarkUnfinished
  BY <1>4 DEF WaitEnds, WaitCancelled, Sleep, Deadline, MarkUnfinished, modules, link
<1>5. CASE SweepSkips \/ CleanupTimedOutTask \/ SweepFinalizes \/ PublishControl
  BY <1>5 DEF SweepSkips, CleanupTimedOutTask, SweepFinalizes, PublishControl, modules, link
<1>6. CASE Unregister
  BY <1>6 DEF Unregister, link
<1>7. CASE Finish
  <2>1. ~ PublishTask
    BY <1>7 DEF Finish, PublishTask
  <2>2. QED BY <1>0, <1>7, <2>1 DEF Finish
<1>8. CASE ~ MasterMain
  <2>1. UNCHANGED <<mpc, index, host, route, handler>> /\ (mlink' => mlink \/ (host = "up" /\ mpc # "stopping"))
    BY <1>8, OtherSteps DEF run, modules
  <2>2. rjobs' # {} => rjobs # {} \/ handler
    BY <1>8, OtherSteps DEF Quiet, ResultTaken
  <2>3. ~ PublishTask
    BY <1>8 DEF MasterMain
  <2>4. QED BY <2>1, <2>2, <2>3, <1>0
<1>9. QED BY <1>1, <1>2, <1>3, <1>4, <1>5, <1>6, <1>7, <1>8 DEF MasterMain

-----------------------------------------------------------------------------
(* The image store and the rows.                                           *)

\* An image is in the store only while its row says "stored"; such a row is of
\* a task that was sent, or is being sent, and is not finished; and the sweep
\* leaves none.
Rows ==
    /\ images \subseteq Tasks /\ finished \subseteq 1 .. task_count
    /\ stored \in [Tasks -> {"not_stored", "stored", "put_failed", "deleted"}]
    /\ \A t \in images : stored[t] = "stored"
    /\ \A j \in rjobs : j.stage = "finishing" => j.task \notin images
    /\ \A t \in Tasks :
           /\ place[t] # "unsent" => t <= task_count
           /\ stored[t] = "stored" => /\ t \notin finished /\ t <= task_count
                                      /\ place[t] # "unsent" \/ (mpc = "publish" /\ t = index)
    /\ mpc = "finalize" => stored[index] # "stored"
    /\ mpc \in Publishing =>
           \A t \in Tasks : t >= index => /\ t \notin finished
                                          /\ stored[t] = "stored" => mpc = "publish" /\ t = index
    /\ mpc \in {"sweep", "finalize"} => \A t \in Tasks : t < index => t \in finished
    /\ mpc \in {"unregister", "stopping", "done"} => \A t \in Tasks : stored[t] # "stored"

LEMMA RowsInit == Init => Rows
BY DEF Init, BrokerInit, MasterInit, Rows, task_count

LEMMA RowsNext == Deliveries /\ Answers /\ Course /\ Rows /\ [Next]_vars => Rows'
<1> SUFFICES ASSUME Deliveries, Answers, Course, Rows, [Next]_vars PROVE Rows'
  OBVIOUS
<1>0. /\ task_count' = task_count /\ task_count \in Tasks /\ task_count \in Nat
      /\ index \in Nat \ {0} /\ place \in [Messages -> Places]
      /\ mpc \in {"put", "publish", "finalize"} => index <= task_count
      /\ mpc \in Publishing => \A t \in Tasks : t >= index => place[t] = "unsent"
      /\ \A t \in Tasks : (place'[t] = "unsent" <=> place[t] = "unsent") \/ (PublishTask /\ t = index)
  BY SentStays DEF Deliveries, Data, Config, InOrder, task_count
<1>1. CASE ~ PublishTask
  <2>0. \A t \in Tasks : place'[t] = "unsent" <=> place[t] = "unsent"
    BY <1>0, <1>1
  <2> USE <1>0, <2>0 DEF Rows, Step, Publishing, FinalizeTask
  <2>1. CASE Build \/ Start \/ RegisterConsumer \/ MasterReady
    BY <2>1 DEF Build, Start, RegisterConsumer, MasterReady, rows
  <2>15. CASE BuildFails \/ StartFails \/ SetupFails
    <3>1. /\ mpc \in {"build", "start", "consumer", "connect"} /\ mpc' \in {"done", "unregister"}
          /\ UNCHANGED <<images, stored, finished, rjobs>>
      BY <2>15 DEF BuildFails, StartFails, SetupFails, rows
    <3>2. index = 1
      BY <3>1 DEF Course
    <3>3. \A t \in Tasks : t >= index /\ stored[t] # "stored"
      BY <3>1, <3>2
    <3>4. QED BY <3>1, <3>3
  <2>2. CASE CancelSeen \/ Source \/ AllPublished
    BY <2>2 DEF CancelSeen, Source, AllPublished, rows
  <2>3. CASE SourceFails
    BY <2>3 DEF SourceFails
  <2>4. CASE Put
    <3>1. /\ mpc = "put" /\ mpc' = "publish" /\ UNCHANGED <<index, finished>>
          /\ images' \subseteq images \cup {index} /\ stored' = [stored EXCEPT ![index] = "stored"]
      BY <2>4 DEF Put, CleanupExpiredLocked
    <3>2. index \in Tasks /\ index <= task_count /\ index \notin finished
      BY <3>1
    <3>3. stored' \in [Tasks -> {"not_stored", "stored", "put_failed", "deleted"}]
      BY <3>1
    <3>4. \A t \in Tasks : stored'[t] = IF t = index THEN "stored" ELSE stored[t]
      BY <3>1
    <3>5. /\ images' \subseteq Tasks /\ \A t \in images' : stored'[t] = "stored"
          /\ \A j \in rjobs' : j.stage = "finishing" => j.task \notin images'
      <4>1. \A j \in rjobs : j.stage = "finishing" => j.task # index
        BY <3>1, <3>2 DEF Answers
      <4>2. rjobs' = rjobs
        BY <2>4 DEF Put
      <4>3. \A t \in images' : t = index \/ (t \in images /\ t \in Tasks)
        BY <3>1
      <4>4. images' \subseteq Tasks /\ \A t \in images' : stored'[t] = "stored"
        BY <3>2, <3>4, <4>3
      <4>5. ASSUME NEW j \in rjobs, j.stage = "finishing" PROVE j.task \notin images'
        <5>1. j.task \notin images
          BY <4>5
        <5>2. QED BY <4>1, <4>3, <4>5, <5>1
      <4>6. QED BY <4>2, <4>4, <4>5
    <3>6. finished' \subseteq 1 .. task_count' /\ mpc' \in Publishing /\ mpc' \notin {"finalize", "sweep"}
      BY <3>1
    <3>7. \A t \in Tasks :
              /\ place'[t] # "unsent" => t <= task_count'
              /\ stored'[t] = "stored" => /\ t \notin finished' /\ t <= task_count'
                                          /\ place'[t] # "unsent" \/ (mpc' = "publish" /\ t = index')
              /\ t >= index' => /\ t \notin finished'
                                /\ stored'[t] = "stored" => mpc' = "publish" /\ t = index'
      BY <3>1, <3>2, <3>4
    <3>8. QED BY <3>1, <3>3, <3>5, <3>6, <3>7
  <2>5. CASE PutFails
    BY <2>5 DEF PutFails, CleanupExpiredLocked
  <2>6. CASE PublishFails
    BY <2>6 DEF PublishFails
  <2>7. CASE WaitEnds \/ WaitCancelled \/ Sleep \/ Deadline \/ MarkUnfinished
    BY <2>7 DEF WaitEnds, WaitCancelled, Sleep, Deadline, MarkUnfinished, rows
  <2>8. CASE SweepSkips
    BY <2>8 DEF SweepSkips, rows
  <2>9. CASE CleanupTimedOutTask
    <3>1. /\ mpc = "sweep" /\ mpc' = "finalize" /\ UNCHANGED <<index, finished, rjobs>>
          /\ index <= task_count /\ index \in Tasks
      BY <2>9 DEF CleanupTimedOutTask
    <3>2. CASE place[index] = "unsent"
      <4>1. UNCHANGED <<images, stored>> /\ stored[index] # "stored"
        BY <2>9, <3>1, <3>2 DEF CleanupTimedOutTask
      <4>2. QED BY <3>1, <4>1
    <3>3. CASE place[index] # "unsent"
      <4>1. images' = images \ {index} /\ stored' = [stored EXCEPT ![index] = "deleted"]
        BY <2>9, <3>3 DEF CleanupTimedOutTask
      <4>2. \A t \in Tasks : stored'[t] = IF t = index THEN "deleted" ELSE stored[t]
        BY <4>1
      <4>3. stored' \in [Tasks -> {"not_stored", "stored", "put_failed", "deleted"}]
        BY <4>1
      <4>4. QED BY <3>1, <4>1, <4>2, <4>3
    <3>4. QED BY <3>2, <3>3
  <2>10. CASE SweepFinalizes
    BY <2>10 DEF SweepFinalizes
  <2>11. CASE PublishControl
    BY <2>11 DEF PublishControl
  <2>12. CASE Unregister \/ Finish
    BY <2>12 DEF Unregister, Finish, rows
  <2>13. CASE ~ MasterMain
    <3>1. UNCHANGED <<mpc, index>>
      BY <2>13, OtherSteps DEF run
    <3>2. CASE Quiet
      BY <3>1, <3>2 DEF Quiet, rows
    <3>3. CASE \E r \in results : ResultTaken(r)
      <4>1. images' \subseteq images /\ UNCHANGED <<stored, finished>>
        BY <3>3 DEF ResultTaken
      <4>2. ASSUME NEW j \in rjobs', j.stage = "finishing" PROVE j.task \notin images'
        BY <4>2, <3>3 DEF ResultTaken, Held
      <4>3. QED BY <3>1, <4>1, <4>2
    <3>4. ASSUME NEW j \in rjobs, ResultFinishes(j) PROVE Rows'
      <4>1. j.task \in Tasks /\ place[j.task] # "unsent"
        BY <3>4 DEF Answers, ResultFinishes
      <4>0. \A k \in rjobs' : k.stage = "finishing" => k \in rjobs
        <5>1. j \in RJobs /\ rjobs' = (rjobs \ {j}) \cup {[j EXCEPT !.stage = "ack"]}
          BY <3>4 DEF ResultFinishes, Acked, Answers
        <5>2. [j EXCEPT !.stage = "ack"].stage = "ack"
          BY <5>1 DEF RJobs
        <5>3. QED BY <5>1, <5>2
      <4>2. CASE j.task \in finished
        <5>1. UNCHANGED <<images, stored, finished>>
          BY <3>4, <4>2 DEF ResultFinishes
        <5>2. QED BY <3>1, <5>1, <4>0
      <4>3. CASE j.task \notin finished
        <5>1. /\ stored' = [stored EXCEPT ![j.task] = "deleted"] /\ finished' = finished \cup {j.task}
              /\ images' = images /\ j.task \notin images
          BY <3>4, <4>3 DEF ResultFinishes
        <5>2. PICK u \in Tasks : u = j.task
          BY <4>1
        <5>3. /\ \A t \in Tasks : stored'[t] = IF t = u THEN "deleted" ELSE stored[t]
              /\ stored' \in [Tasks -> {"not_stored", "stored", "put_failed", "deleted"}]
          BY <5>1, <5>2
        <5>4. /\ images' \subseteq Tasks /\ finished' \subseteq 1 .. task_count'
              /\ \A t \in images' : stored'[t] = "stored"
              /\ \A k \in rjobs' : k.stage = "finishing" => k.task \notin images'
          <6>1. u <= task_count /\ u \notin images
            BY <4>1, <5>1, <5>2
          <6>2. finished' \subseteq 1 .. task_count'
            <7>1. finished' = finished \cup {u}
              BY <5>1, <5>2
            <7>2. u \in 1 .. task_count
              BY <6>1
            <7>3. finished \subseteq 1 .. task_count
              OBVIOUS
            <7>4. QED BY <7>1, <7>2, <7>3, <1>0
          <6>3. ASSUME NEW t \in images PROVE t \in Tasks /\ stored'[t] = "stored"
            BY <5>3, <6>1
          <6>4. ASSUME NEW k \in rjobs', k.stage = "finishing" PROVE k.task \notin images'
            <7>1. k \in rjobs
              BY <6>4, <4>0
            <7>2. k.task \notin images
              BY <7>1, <6>4
            <7>3. QED BY <7>2, <5>1
          <6>5. QED BY <5>1, <6>2, <6>3, <6>4
        <5>5. \A t \in Tasks :
                  /\ place'[t] # "unsent" => t <= task_count'
                  /\ stored'[t] = "stored" => /\ t \notin finished' /\ t <= task_count'
                                              /\ place'[t] # "unsent" \/ (mpc' = "publish" /\ t = index')
                  /\ mpc' \in Publishing /\ t >= index' =>
                         /\ t \notin finished'
                         /\ stored'[t] = "stored" => mpc' = "publish" /\ t = index'
          BY <3>1, <4>1, <5>1, <5>2, <5>3
        <5>6. QED BY <3>1, <5>1, <5>2, <5>3, <5>4, <5>5
      <4>4. QED BY <4>2, <4>3
    <3>5. QED BY <2>13, <3>2, <3>3, <3>4, OtherSteps
  <2>14. QED BY <1>1, <2>1, <2>15, <2>2, <2>3, <2>4, <2>5, <2>6, <2>7, <2>8, <2>9, <2>10, <2>11, <2>12,
      <2>13 DEF MasterMain
<1>2. CASE PublishTask
  BY <1>0, <1>2 DEF PublishTask, Rows, Step, Publishing, rows
<1>3. QED BY <1>1, <1>2

-----------------------------------------------------------------------------
(* The report: the counters are the sizes of the sets.                     *)

Counted ==
    /\ finished \subseteq 1 .. task_count /\ received \subseteq finished
    /\ status \in [Tasks -> Statuses]
    /\ count \in [finished : Nat, success : Nat, failure : Nat, result : Nat]
    /\ count.finished = Cardinality(finished)
    /\ count.result = Cardinality(received)
    /\ count.success + count.failure = count.finished

LEMMA FiniteRows ==
    ASSUME task_count \in Nat, NEW S, S \subseteq 1 .. task_count
    PROVE  /\ IsFiniteSet(S) /\ Cardinality(S) \in Nat /\ Cardinality(S) <= task_count
           /\ Cardinality(S) = task_count => S = 1 .. task_count
<1>1. IsFiniteSet(1 .. task_count) /\ Cardinality(1 .. task_count) = task_count
  BY FS_Interval
<1>2. IsFiniteSet(S) /\ Cardinality(S) <= task_count
      /\ (S # 1 .. task_count => Cardinality(S) < task_count)
  <2>1. /\ IsFiniteSet(S) /\ Cardinality(S) <= Cardinality(1 .. task_count)
        /\ Cardinality(1 .. task_count) = Cardinality(S) => 1 .. task_count = S
    BY <1>1, FS_Subset, Zenon
  <2>2. Cardinality(S) \in Nat
    BY <2>1, FS_CardinalityType, Zenon
  <2>3. QED BY <1>1, <2>1, <2>2
<1>3. Cardinality(S) \in Nat
  BY <1>2, FS_CardinalityType
<1>4. QED BY <1>2, <1>3

LEMMA CountFinalize ==
    ASSUME Counted, task_count \in Tasks, task_count' = task_count,
           NEW t \in 1 .. task_count, t \in Tasks, NEW s \in Finals \cup {"failed"},
           FinalizeTask(t, s), received' = received
    PROVE  Counted' /\ finished' = finished \cup {t} /\ count'.success = count.success /\ Processed' = Processed
<1>1. CASE t \in finished
  <2>1. UNCHANGED <<status, finished, received, count>>
    BY <1>1 DEF FinalizeTask
  <2>2. QED BY <1>1, <2>1 DEF Counted, Processed
<1>2. CASE t \notin finished
  <2>1. /\ status' = [status EXCEPT ![t] = s] /\ finished' = finished \cup {t}
        /\ count' = [count EXCEPT !.finished = @ + 1, !.success = @ + 0, !.failure = @ + 1]
    BY <1>2 DEF FinalizeTask, Finals
  <2>2. IsFiniteSet(finished)
    <3>1. task_count \in Nat /\ finished \subseteq 1 .. task_count
      BY DEF Counted
    <3>2. QED BY <3>1, FiniteRows
  <2>3. Cardinality(finished') = Cardinality(finished) + 1
    BY <1>2, <2>1, <2>2, FS_AddElement
  <2>4. /\ count' \in [finished : Nat, success : Nat, failure : Nat, result : Nat]
        /\ count'.finished = count.finished + 1 /\ count'.success = count.success
        /\ count'.failure = count.failure + 1 /\ count'.result = count.result
    <3>1. count \in [finished : Nat, success : Nat, failure : Nat, result : Nat]
      BY DEF Counted
    <3>2. count' = [finished |-> count.finished + 1, success |-> count.success + 0,
                    failure |-> count.failure + 1, result |-> count.result]
      BY ONLY <2>1, <3>1
    <3>3. QED BY ONLY <3>1, <3>2
  <2>5. Counted'
    <3>1. finished' \subseteq 1 .. task_count' /\ received' \subseteq finished'
      BY <2>1 DEF Counted
    <3>2. status' \in [Tasks -> Statuses]
      BY <2>1 DEF Counted, Statuses, ResultStatuses
    <3>3. count'.success + count'.failure = count'.finished
      BY <2>4 DEF Counted
    <3>4. QED BY <2>3, <2>4, <3>1, <3>2, <3>3 DEF Counted
  <2>6. Processed' = Processed
    <3>1. \A u \in finished : u \in Tasks /\ u # t
      BY <1>2 DEF Counted
    <3>2. status'[t] = s /\ s # "processed" /\ \A u \in finished : status'[u] = status[u]
      BY <2>1, <3>1 DEF Counted, Finals
    <3>3. QED BY <2>1, <3>2 DEF Processed
  <2>7. QED BY <2>1, <2>4, <2>5, <2>6
<1>3. QED BY <1>1, <1>2

LEMMA CountResult ==
    ASSUME Counted, task_count \in Tasks, task_count' = task_count,
           NEW j \in rjobs, NEW t \in 1 .. task_count, t \in Tasks, j.task = t, ResultFinishes(j)
    PROVE  /\ Counted'
           /\ count.success = Cardinality(Processed) => count'.success = Cardinality(Processed')
<1>0. status' = status
  BY DEF ResultFinishes
<1>1. CASE t \in finished
  <2>1. UNCHANGED <<finished, received, count>>
    BY <1>1 DEF ResultFinishes
  <2>2. QED BY <1>0, <1>1, <2>1 DEF Counted, Processed
<1>2. CASE t \notin finished
  <2>1. /\ finished' = finished \cup {t} /\ received' = received \cup {t}
        /\ count' = [count EXCEPT !.finished = @ + 1, !.result = @ + 1,
                                  !.success = @ + (IF status[t] = "processed" THEN 1 ELSE 0),
                                  !.failure = @ + (IF status[t] = "processed" THEN 0 ELSE 1)]
    BY <1>2 DEF ResultFinishes
  <2>2. IsFiniteSet(finished) /\ IsFiniteSet(received) /\ IsFiniteSet(Processed)
    <3>1. /\ task_count \in Nat /\ finished \subseteq 1 .. task_count
          /\ received \subseteq 1 .. task_count /\ Processed \subseteq 1 .. task_count
      <4>1. task_count \in Nat /\ finished \subseteq 1 .. task_count /\ received \subseteq finished
        BY DEF Counted
      <4>2. Processed \subseteq finished
        BY DEF Processed
      <4>3. QED BY <4>1, <4>2
    <3>2. IsFiniteSet(finished)
      BY <3>1, FiniteRows
    <3>3. IsFiniteSet(received)
      BY <3>1, FiniteRows
    <3>4. IsFiniteSet(Processed)
      BY <3>1, FiniteRows
    <3>5. QED BY <3>2, <3>3, <3>4
  <2>3. t \notin received /\ t \notin Processed
    BY <1>2 DEF Counted, Processed
  <2>4. Cardinality(finished') = Cardinality(finished) + 1
    BY <1>2, <2>1, <2>2, FS_AddElement
  <2>5. Cardinality(received') = Cardinality(received) + 1
    BY <2>1, <2>2, <2>3, FS_AddElement
  <2>6. Cardinality(Processed') = Cardinality(Processed) + (IF status[t] = "processed" THEN 1 ELSE 0)
    <3>1. CASE status[t] = "processed"
      <4>1. Processed' = Processed \cup {t}
        BY <1>0, <2>1, <3>1 DEF Processed
      <4>2. QED BY <2>2, <2>3, <3>1, <4>1, FS_AddElement
    <3>2. CASE status[t] # "processed"
      <4>1. Processed' = Processed
        BY <1>0, <2>1, <3>2 DEF Processed
      <4>2. Cardinality(Processed) \in Nat
        BY <2>2, FS_CardinalityType
      <4>3. QED BY <3>2, <4>1, <4>2
    <3>3. QED BY <3>1, <3>2
  <2>7. /\ count' \in [finished : Nat, success : Nat, failure : Nat, result : Nat]
        /\ count'.finished = count.finished + 1 /\ count'.result = count.result + 1
        /\ count'.success = count.success + (IF status[t] = "processed" THEN 1 ELSE 0)
        /\ count'.failure = count.failure + (IF status[t] = "processed" THEN 0 ELSE 1)
    <3>1. count \in [finished : Nat, success : Nat, failure : Nat, result : Nat]
      BY DEF Counted
    <3>2. count' = [finished |-> count.finished + 1,
                    success |-> count.success + (IF status[t] = "processed" THEN 1 ELSE 0),
                    failure |-> count.failure + (IF status[t] = "processed" THEN 0 ELSE 1),
                    result |-> count.result + 1]
      BY ONLY <2>1, <3>1
    <3>3. QED BY ONLY <3>1, <3>2
  <2>8. Counted'
    <3>1. finished' \subseteq 1 .. task_count' /\ received' \subseteq finished'
      BY <2>1 DEF Counted
    <3>2. count'.success + count'.failure = count'.finished
      BY <2>7 DEF Counted
    <3>3. QED BY <1>0, <2>4, <2>5, <2>7, <3>1, <3>2 DEF Counted
  <2>9. QED BY <2>6, <2>7, <2>8
<1>3. QED BY <1>1, <1>2

\* While nothing has cut the run short: success_count is the number of rows
\* that say so, a finished task without a result was never sent, and the loop
\* that waits has waited for all.
Uncut ==
    /\ count.success = Cardinality(Processed)
    /\ \A t \in finished : t \in received \/ (status[t] = "failed" /\ place[t] = "unsent")
    /\ mpc \in {"mark", "sweep", "finalize"} => 1 .. task_count \subseteq finished

Report ==
    /\ Counted
    /\ \A t \in Tasks : status[t] = "processed" => t \in computed
    /\ ~ timed_out /\ ~ cancelled => Uncut
    /\ exit = "success" => mpc = "done"
    /\ SuccessIsTrue

LEMMA ReportInit == Init => Report
<1> SUFFICES ASSUME Init PROVE Report
  OBVIOUS
<1>1. finished = {} /\ received = {} /\ Cardinality({}) = 0
  BY FS_EmptySet DEF Init, MasterInit
<1>2. count = [finished |-> 0, success |-> 0, failure |-> 0, result |-> 0] /\ status = [t \in Tasks |-> "pending"]
      /\ exit = "none" /\ mpc = "build"
  BY DEF Init, MasterInit
<1>3. Processed = {}
  BY <1>1 DEF Processed
<1>4. Counted
  BY <1>1, <1>2 DEF Counted, Statuses
<1>5. Uncut
  BY <1>1, <1>2, <1>3 DEF Uncut
<1>6. QED BY <1>2, <1>4, <1>5 DEF Report, SuccessIsTrue

\* A step that leaves the rows alone.
LEMMA ReportStays ==
    ASSUME Report, UNCHANGED <<status, finished, received, count, config>>, computed \subseteq computed',
           task_count \in Tasks, \A t \in finished : place[t] = "unsent" => place'[t] = "unsent",
           ~ timed_out' /\ ~ cancelled' => /\ ~ timed_out /\ ~ cancelled
                                           /\ mpc' \in {"mark", "sweep", "finalize"} => 1 .. task_count \subseteq finished,
           exit' = "success" => exit = "success" /\ mpc' = "done" /\ images' \subseteq images
    PROVE  Report'
<1>1. Counted' /\ Processed' = Processed /\ task_count' = task_count
  BY DEF Report, Counted, Processed, task_count
<1>2. ~ timed_out' /\ ~ cancelled' => Uncut'
  BY <1>1 DEF Report, Uncut
<1>3. SuccessIsTrue'
  BY <1>1 DEF Report, SuccessIsTrue
<1>4. QED BY <1>1, <1>2, <1>3 DEF Report

\* A task that ends without a result.
LEMMA ReportFinalizes ==
    ASSUME Report, UNCHANGED <<received, config, timed_out, cancelled, exit>>,
           computed \subseteq computed', task_count \in Tasks,
           NEW t \in 1 .. task_count, NEW s \in Finals \cup {"failed"}, FinalizeTask(t, s),
           \A u \in finished : place[u] = "unsent" => place'[u] = "unsent",
           \/ s = "failed" /\ t \notin finished /\ place'[t] = "unsent"
           \/ t \in finished
           \/ timed_out \/ cancelled,
           mpc' \in {"mark", "sweep", "finalize"} => mpc \in {"mark", "sweep", "finalize"},
           mpc # "done"
    PROVE  Report'
<1>0. task_count' = task_count /\ t \in Tasks /\ Counted
  BY DEF task_count, Report
<1>1. Counted' /\ finished' = finished \cup {t} /\ count'.success = count.success /\ Processed' = Processed
  BY <1>0, CountFinalize
<1>2. \A u \in Tasks : status'[u] = status[u] \/ (u = t /\ u \notin finished /\ status'[u] = s)
  BY <1>0 DEF FinalizeTask, Counted
<1>3. \A u \in Tasks : status'[u] = "processed" => u \in computed'
  BY <1>2 DEF Report, Finals
<1>4. ASSUME ~ timed_out', ~ cancelled' PROVE Uncut'
  <2>1. Uncut
    BY <1>4 DEF Report
  <2>2. finished \subseteq Tasks
    BY <1>0 DEF Counted
  <2>3. ASSUME NEW u \in finished' PROVE u \in received' \/ (status'[u] = "failed" /\ place'[u] = "unsent")
    <3>1. CASE u \in finished
      <4>1. status'[u] = status[u]
        BY <1>2, <2>2, <3>1
      <4>2. QED BY <2>1, <3>1, <4>1 DEF Uncut
    <3>2. CASE u = t /\ t \notin finished
      <4>1. s = "failed" /\ place'[t] = "unsent"
        BY <1>4, <3>2
      <4>2. status'[t] = s
        BY <1>0, <3>2 DEF FinalizeTask, Counted
      <4>3. QED BY <3>2, <4>1, <4>2
    <3>3. QED BY <1>1, <3>1, <3>2
  <2>4. QED BY <1>0, <1>1, <2>1, <2>3 DEF Uncut
<1>5. exit' # "success"
  BY DEF Report
<1>6. QED BY <1>1, <1>3, <1>4, <1>5 DEF Report, SuccessIsTrue

\* A result that comes in.
LEMMA ReportTakes ==
    ASSUME Report, Answers, Course, NEW r \in results, ResultTaken(r), UNCHANGED <<config, run>>,
            computed \subseteq computed', task_count \in Tasks,
           \A u \in finished : place[u] = "unsent" => place'[u] = "unsent"
    PROVE  Report'
<1>1. mpc # "done" /\ UNCHANGED <<finished, received, count, mpc, timed_out, cancelled, exit>>
  BY DEF Course, ResultTaken, run
<1>2. CASE UNCHANGED status
  BY <1>1, <1>2, ReportStays DEF Report, Uncut
<1>3. CASE status' # status
  <2>1. /\ r.task \in Tasks /\ r.task \notin received /\ status' = [status EXCEPT ![r.task] = r.status]
        /\ r.status \in ResultStatuses
    BY <1>3 DEF ResultTaken, Answers, ResultMessages
  <2>2. PICK t \in Tasks : t = r.task
    BY <2>1
  <2>3. place[t] # "unsent" /\ (r.status = "processed" => t \in computed)
    BY <2>2 DEF Answers
  <2>4. Counted /\ task_count' = task_count
    BY DEF Report, task_count
  <2>5. \A u \in Tasks : status'[u] = IF u = t THEN r.status ELSE status[u]
    BY <2>1, <2>2, <2>4 DEF Counted
  <2>6. Counted'
    <3>1. status' \in [Tasks -> Statuses]
      BY <2>1, <2>2, <2>4 DEF Counted, Statuses
    <3>2. QED BY <1>1, <2>4, <3>1 DEF Counted
  <2>7. ASSUME ~ timed_out, ~ cancelled PROVE Uncut'
    <3>1. Uncut /\ finished \subseteq Tasks
      BY <2>4, <2>7 DEF Report, Counted
    <3>2. t \notin finished
      BY <2>1, <2>2, <2>3, <3>1 DEF Uncut
    <3>3. \A u \in finished : status'[u] = status[u]
      BY <2>5, <3>1, <3>2
    <3>4. Processed' = Processed
      BY <1>1, <3>3 DEF Processed
    <3>5. QED BY <1>1, <2>4, <3>1, <3>3, <3>4 DEF Uncut
  <2>8. \A u \in Tasks : status'[u] = "processed" => u \in computed'
    BY <2>3, <2>5 DEF Report
  <2>9. exit' # "success"
    BY <1>1 DEF Report
  <2>10. QED BY <1>1, <2>6, <2>7, <2>8, <2>9 DEF Report, SuccessIsTrue
<1>4. QED BY <1>2, <1>3

\* The second lock section.
LEMMA ReportFinishes ==
    ASSUME Report, Answers, Rows, Course, NEW j \in rjobs, ResultFinishes(j),
           UNCHANGED <<config, run, place>>, computed \subseteq computed', task_count \in Tasks
    PROVE  Report'
<1>1. /\ UNCHANGED <<status, mpc, timed_out, cancelled, exit>>
      /\ mpc # "done" /\ Counted /\ task_count' = task_count
  BY DEF Course, ResultFinishes, run, Report, task_count
<1>2. PICK t \in Tasks : t = j.task /\ place[t] # "unsent" /\ t \in 1 .. task_count
  <2>1. j.task \in Tasks /\ place[j.task] # "unsent"
    BY DEF Answers, ResultFinishes
  <2>2. QED BY <2>1 DEF Rows
<1>3. /\ Counted'
      /\ count.success = Cardinality(Processed) => count'.success = Cardinality(Processed')
  BY <1>1, <1>2, CountResult
<1>4. \/ UNCHANGED <<finished, received>>
      \/ finished' = finished \cup {t} /\ received' = received \cup {t}
  BY <1>2 DEF ResultFinishes
<1>5. ASSUME ~ timed_out, ~ cancelled PROVE Uncut'
  <2>1. Uncut
    BY <1>5 DEF Report
  <2>2. QED BY <1>1, <1>3, <1>4, <2>1 DEF Uncut
<1>6. exit' # "success"
  BY <1>1 DEF Report
<1>7. QED BY <1>1, <1>3, <1>5, <1>6 DEF Report, SuccessIsTrue

\* What has been computed stays computed.
LEMMA ComputedGrows == [Next]_vars => computed \subseteq computed'
<1>1. WorkersAct => computed' = computed
  BY DEF WorkersAct, WorkerMain, WorkerStart, WorkerStartFails, WorkerReady, WorkerLeaves, WorkerTimesOut,
         WorkerStops, WorkerConnects, WorkerDisconnects, Kill, ControlHandler, TaskHandler, WorkerDriver,
         SendResult, SendSettle
<1>2. MasterActs \/ SendControl \/ UNCHANGED vars => computed' = computed
  BY DEF MasterActs, SendControl, vars, worker
<1>3. (\E j \in jobs : FetchImage(j)) => computed \subseteq computed'
  BY DEF FetchImage, ProcessTask
<1>4. QED BY <1>1, <1>2, <1>3 DEF Next

LEMMA ReportNext == Deliveries /\ Answers /\ Course /\ Rows /\ Report /\ [Next]_vars => Report'
<1> SUFFICES ASSUME Deliveries, Answers, Course, Rows, Report, [Next]_vars PROVE Report'
  OBVIOUS
<1>0. /\ task_count \in Tasks /\ task_count \in Nat /\ task_count' = task_count /\ config' = config
      /\ index \in Nat \ {0}
      /\ mpc \in {"put", "publish", "finalize"} => index <= task_count
      /\ mpc \in Publishing => \A t \in Tasks : t >= index => place[t] = "unsent" /\ t \notin finished
      /\ finished \subseteq Tasks /\ finished \subseteq 1 .. task_count
  BY SentStays DEF Deliveries, Data, Config, InOrder, task_count, Rows
<1>1. \A t \in Tasks : t \in finished /\ place[t] = "unsent" => place'[t] = "unsent"
  <2>1. PublishTask => \A t \in Tasks : t \in finished => t # index
    BY <1>0 DEF PublishTask, Step, Publishing
  <2>2. QED BY <2>1, SentStays
<1>2. computed \subseteq computed'
  BY ComputedGrows
<1>3. CASE MasterMain /\ UNCHANGED <<status, finished, received, count, timed_out, cancelled, exit>>
           /\ mpc' \notin {"mark", "sweep", "finalize"}
  <2>1. mpc # "done"
    BY <1>3 DEF MasterMain, Build, BuildFails, Start, StartFails, RegisterConsumer, MasterReady,
           SetupFails, CancelSeen, SourceFails, Source, Put, PutFails, PublishTask, PublishFails,
           AllPublished, WaitEnds, WaitCancelled, Sleep, Deadline, MarkUnfinished, SweepSkips,
           CleanupTimedOutTask, SweepFinalizes, PublishControl, Unregister, Finish, Step
  <2>2. exit' # "success"
    BY <1>3, <2>1 DEF Report
  <2>3. QED BY <1>0, <1>1, <1>2, <1>3, <2>2, ReportStays
<1>4. CASE Build \/ Start \/ RegisterConsumer \/ MasterReady \/ Source \/ Put \/ PublishTask
  \/ AllPublished \/ Sleep \/ PublishControl \/ Unregister
  BY <1>3, <1>4 DEF MasterMain, Build, Start, RegisterConsumer, MasterReady, Source, Put, PublishTask,
     AllPublished, Sleep, PublishControl, Unregister, rows, Step
<1>5. CASE BuildFails \/ StartFails \/ SetupFails
  <2>1. /\ UNCHANGED <<status, finished, received, count, timed_out, cancelled>>
        /\ mpc' \notin {"mark", "sweep", "finalize"} /\ exit' = "failure"
    BY <1>5 DEF BuildFails, StartFails, SetupFails, rows, Step
  <2>2. QED BY <1>0, <1>1, <1>2, <2>1, ReportStays
<1>6. CASE CancelSeen \/ WaitCancelled \/ Deadline
  <2>1. /\ UNCHANGED <<status, finished, received, count, exit>> /\ mpc # "done"
        /\ cancelled' \/ timed_out'
    BY <1>6 DEF CancelSeen, WaitCancelled, Deadline, rows, Step
  <2>2. exit' # "success"
    BY <2>1 DEF Report
  <2>3. QED BY <1>0, <1>1, <1>2, <2>1, <2>2, ReportStays
<1>7. CASE WaitEnds
  <2>1. /\ UNCHANGED <<status, finished, received, count, exit, timed_out, cancelled>> /\ mpc # "done"
        /\ count.finished >= task_count
    BY <1>7 DEF WaitEnds, rows
  <2>2. exit' # "success"
    BY <2>1 DEF Report
  <2>3. Cardinality(finished) >= task_count
    BY <2>1 DEF Report, Counted
  <2>4. /\ Cardinality(finished) \in Nat /\ Cardinality(finished) <= task_count
        /\ Cardinality(finished) = task_count => finished = 1 .. task_count
    BY <1>0, FiniteRows
  <2>5. finished = 1 .. task_count
    BY <1>0, <2>3, <2>4
  <2>6. QED BY <1>0, <1>1, <1>2, <2>1, <2>2, <2>5, ReportStays
<1>8. CASE SweepSkips \/ CleanupTimedOutTask
  <2>1. /\ UNCHANGED <<status, finished, received, count, exit, timed_out, cancelled>> /\ mpc = "sweep"
    BY <1>8 DEF SweepSkips, CleanupTimedOutTask, rows, Step
  <2>2. exit' # "success"
    BY <2>1 DEF Report
  <2>3. ~ timed_out /\ ~ cancelled => 1 .. task_count \subseteq finished
    BY <2>1 DEF Report, Uncut
  <2>4. QED BY <1>0, <1>1, <1>2, <2>1, <2>2, <2>3, ReportStays
<1>9. CASE SourceFails \/ PutFails \/ PublishFails
  <2>1. /\ FinalizeTask(index, "failed") /\ UNCHANGED <<received, timed_out, cancelled, exit>>
        /\ index \in 1 .. task_count /\ mpc \in {"source", "put", "publish"} /\ place' = place
        /\ mpc' \notin {"mark", "sweep", "finalize"}
    BY <1>0, <1>9 DEF SourceFails, PutFails, PublishFails, Step, broker
  <2>2. index \in Tasks /\ index \notin finished /\ place'[index] = "unsent"
    BY <1>0, <2>1 DEF Publishing
  <2>3. QED BY <1>0, <1>1, <1>2, <2>1, <2>2, ReportFinalizes
<1>10. CASE SweepFinalizes
  <2>1. /\ FinalizeTask(index, Verdict) /\ UNCHANGED <<received, timed_out, cancelled, exit>>
        /\ index \in 1 .. task_count /\ mpc = "finalize"
    BY <1>0, <1>10 DEF SweepFinalizes, Step
  <2>2. Verdict \in Finals \cup {"failed"}
    BY DEF Verdict, Finals
  <2>3. index \in finished \/ timed_out \/ cancelled
    BY <2>1 DEF Report, Uncut
  <2>4. QED BY <1>0, <1>1, <1>2, <2>1, <2>2, <2>3, ReportFinalizes
<1>11. CASE MarkUnfinished
  <2>1. /\ UNCHANGED <<finished, received, count, exit, timed_out, cancelled>> /\ mpc = "mark"
        /\ status' = [t \in Tasks |-> IF (timed_out \/ cancelled) /\ t \notin finished THEN Verdict ELSE status[t]]
    BY <1>11 DEF MarkUnfinished, Step
  <2>2. Verdict \in Finals
    BY DEF Verdict, Finals
  <2>3. CASE timed_out \/ cancelled
    <3>1. \A t \in Tasks : status'[t] = status[t] \/ (status'[t] = Verdict /\ t \notin finished)
      BY <2>1
    <3>2. status' \in [Tasks -> Statuses]
      BY <2>1, <2>2 DEF Report, Counted, Statuses
    <3>3. Counted'
      BY <1>0, <2>1, <3>2 DEF Report, Counted
    <3>4. \A t \in Tasks : status'[t] = "processed" => t \in computed'
      BY <1>2, <2>2, <3>1 DEF Report, Finals
    <3>5. exit' # "success"
      BY <2>1 DEF Report
    <3>6. QED BY <2>1, <2>3, <3>3, <3>4, <3>5 DEF Report, SuccessIsTrue
  <2>4. CASE ~ timed_out /\ ~ cancelled
    <3>1. status' = status
      BY <2>1, <2>4 DEF Report, Counted
    <3>2. 1 .. task_count \subseteq finished
      BY <2>1, <2>4 DEF Report, Uncut
    <3>3. exit' # "success"
      BY <2>1 DEF Report
    <3>4. QED BY <1>0, <1>1, <1>2, <2>1, <3>1, <3>2, <3>3, ReportStays
  <2>5. QED BY <2>3, <2>4
<1>12. CASE Finish
  <2>1. /\ UNCHANGED <<status, finished, received, count, timed_out, cancelled, images>> /\ mpc' = "done"
        /\ exit' = "success" => Success
    BY <1>12 DEF Finish, rows, Step, Report
  <2>2. CASE exit' # "success"
    BY <1>0, <1>1, <1>2, <2>1, <2>2, ReportStays
  <2>3. CASE Success
    <3>1. Uncut /\ count.success = task_count /\ Counted /\ images = {}
      BY <2>3 DEF Success, Report
    <3>2. Processed \subseteq finished /\ \A t \in Processed : status[t] = "processed"
      BY DEF Processed
    <3>3. Processed \subseteq 1 .. task_count /\ Cardinality(Processed) = task_count
      BY <1>0, <3>1, <3>2 DEF Uncut
    <3>4. Processed = 1 .. task_count
      BY <1>0, <3>3, FiniteRows
    <3>5. received = 1 .. task_count
      BY <1>0, <3>1, <3>2, <3>4 DEF Uncut, Counted
    <3>6. 1 .. task_count \subseteq computed
      BY <1>0, <3>2, <3>4 DEF Report
    <3>7. SuccessIsTrue'
      BY <1>0, <1>2, <2>1, <3>1, <3>5, <3>6 DEF SuccessIsTrue
    <3>8. Counted' /\ Processed' = Processed
      BY <1>0, <2>1, <3>1 DEF Counted, Processed
    <3>9. Uncut'
      BY <1>0, <1>1, <2>1, <3>1, <3>8 DEF Uncut
    <3>10. QED BY <1>2, <2>1, <3>7, <3>8, <3>9 DEF Report
  <2>4. QED BY <2>1, <2>2, <2>3
<1>13. CASE ~ MasterMain
  <2>1. UNCHANGED <<mpc, exit, timed_out, cancelled, run>>
    BY <1>13, OtherSteps DEF run
  <2>2. CASE Quiet
    <3>1. UNCHANGED <<status, finished, received, count>> /\ images' \subseteq images
      BY <2>2 DEF Quiet, rows
    <3>2. ~ timed_out /\ ~ cancelled /\ mpc \in {"mark", "sweep", "finalize"} => 1 .. task_count \subseteq finished
      BY DEF Report, Uncut
    <3>3. exit = "success" => mpc = "done"
      BY DEF Report
    <3>4. QED BY <1>0, <1>1, <1>2, <2>1, <3>1, <3>2, <3>3, ReportStays
  <2>3. ASSUME NEW r \in results, ResultTaken(r) PROVE Report'
    BY <1>0, <1>1, <1>2, <2>1, <2>3, ReportTakes
  <2>4. ASSUME NEW j \in rjobs, ResultFinishes(j) PROVE Report'
    <3>1. place' = place
      BY <2>4 DEF ResultFinishes, broker
    <3>2. QED BY <1>0, <1>2, <2>1, <2>4, <3>1, ReportFinishes
  <2>5. QED BY <1>13, <2>2, <2>3, <2>4, OtherSteps
<1>14. QED BY <1>4, <1>5, <1>6, <1>7, <1>8, <1>9, <1>10, <1>11, <1>12, <1>13 DEF MasterMain

-----------------------------------------------------------------------------
(* The types of what the parts above do not speak of.                      *)

MasterTypes ==
    /\ mpc \in {"build", "start", "consumer", "connect", "source", "put", "publish", "wait", "asleep", "mark",
                "sweep", "finalize", "unregister", "stopping", "done"}
    /\ index <= TaskCount + 1
    /\ exit \in {"none", "success", "failure"}
    /\ host \in {"down", "init", "up"}
    /\ shutdown \in {"no", "outbox", "sent"}

MasterFlags ==
    /\ cancelled \in BOOLEAN /\ timed_out \in BOOLEAN /\ late \in BOOLEAN
    /\ route \in BOOLEAN /\ handler \in BOOLEAN /\ mlink \in BOOLEAN

WorkerTypes ==
    /\ config \in Configs
    /\ answered \subseteq Tasks \cup Stale
    /\ control \subseteq Workers
    /\ wpc \in [Workers -> {"setup", "connecting", "serving", "left", "done", "killed"}]
    /\ told \subseteq Workers

LEMMA TypesInit == Init => MasterTypes /\ MasterFlags /\ WorkerTypes
<1>1. Init => MasterTypes
  BY DEF Init, MasterInit, MasterTypes
<1>2. Init => MasterFlags
  BY Zenon DEF Init, MasterInit, MasterFlags
<1>3. Init => WorkerTypes
  BY DEF Init, BrokerInit, WorkerInit, WorkerTypes
<1>4. QED BY <1>1, <1>2, <1>3

LEMMA MasterFlagsNext == MasterFlags /\ [Next]_vars => MasterFlags'
<1> SUFFICES ASSUME MasterFlags, [Next]_vars PROVE MasterFlags'
  OBVIOUS
<1> USE DEF MasterFlags
<1>1. CASE Build \/ BuildFails \/ Start \/ StartFails \/ RegisterConsumer \/ MasterReady \/ SetupFails
  BY <1>1, Zenon DEF Build, BuildFails, Start, StartFails, RegisterConsumer, MasterReady, SetupFails,
      modules, link, rows
<1>2. CASE CancelSeen \/ SourceFails \/ Source \/ Put
  BY <1>2, Zenon DEF CancelSeen, SourceFails, Source, Put, modules, link, rows
<1>3. CASE PutFails \/ PublishTask \/ PublishFails \/ AllPublished
  BY <1>3, Zenon DEF PutFails, PublishTask, PublishFails, AllPublished, modules, link, rows
<1>4. CASE WaitEnds \/ WaitCancelled \/ Sleep \/ Deadline \/ MarkUnfinished
  BY <1>4, Zenon DEF WaitEnds, WaitCancelled, Sleep, Deadline, MarkUnfinished, modules, link, rows
<1>5. CASE SweepSkips \/ CleanupTimedOutTask \/ SweepFinalizes
  BY <1>5, Zenon DEF SweepSkips, CleanupTimedOutTask, SweepFinalizes, modules, link, rows
<1>6. CASE PublishControl \/ Unregister \/ Finish
  BY <1>6, Zenon DEF PublishControl, Unregister, Finish, modules, link, rows
<1>7. CASE ~ MasterMain
  <2>1. UNCHANGED <<cancelled, timed_out, route, handler, late>>
    BY <1>7, OtherSteps DEF run, modules
  <2>2. CASE MasterActs
    BY <1>7, <2>1, <2>2, Zenon DEF MasterActs, MasterConnects, MasterDisconnects, ResultTaken,
                      MasterHandlers, ResultFinishes, AckResult, SendTask, master, link
  <2>3. CASE WorkersAct \/ UNCHANGED vars
    BY <2>1, <2>3, Zenon DEF WorkersAct, vars, master, link
  <2>4. CASE SendControl \/ (\E j \in jobs : FetchImage(j))
    BY <2>1, <2>4, Zenon DEF SendControl, SendShutdown, FetchImage, link
  <2>5. QED BY <2>2, <2>3, <2>4 DEF Next
<1>8. QED BY <1>1, <1>2, <1>3, <1>4, <1>5, <1>6, <1>7 DEF MasterMain

LEMMA MasterTypesNext == Deliveries /\ Rows /\ MasterTypes /\ [Next]_vars => MasterTypes'
<1> SUFFICES ASSUME Deliveries, Rows, MasterTypes, [Next]_vars PROVE MasterTypes'
  OBVIOUS
<1>0. /\ task_count \in Nat /\ task_count <= TaskCount /\ index \in Nat
      /\ mpc \in {"put", "publish", "finalize"} => index <= task_count
      /\ finished \subseteq 1 .. task_count
  BY DEF Deliveries, Data, Config, InOrder, task_count, Rows
<1> USE DEF MasterTypes, Step
<1>1. CASE Build \/ BuildFails \/ Start \/ StartFails \/ RegisterConsumer \/ MasterReady \/ SetupFails
  BY <1>1 DEF Build, BuildFails, Start, StartFails, RegisterConsumer, MasterReady, SetupFails, modules,
      link, rows
<1>2. CASE CancelSeen \/ SourceFails \/ Source \/ Put
  BY <1>0, <1>2 DEF CancelSeen, SourceFails, Source, Put, modules, link, rows
<1>3. CASE PutFails \/ PublishTask \/ PublishFails \/ AllPublished
  BY <1>0, <1>3 DEF PutFails, PublishTask, PublishFails, AllPublished, modules, link, rows
<1>4. CASE WaitEnds \/ WaitCancelled \/ Sleep \/ Deadline \/ MarkUnfinished
  BY <1>0, <1>4 DEF WaitEnds, WaitCancelled, Sleep, Deadline, MarkUnfinished, modules, link, rows
<1>5. CASE SweepSkips \/ CleanupTimedOutTask \/ SweepFinalizes
  BY <1>0, <1>5 DEF SweepSkips, CleanupTimedOutTask, SweepFinalizes, modules, link, rows
<1>6. CASE PublishControl \/ Unregister \/ Finish
  BY <1>6 DEF PublishControl, Unregister, Finish, modules, link, rows
<1>7. CASE ~ MasterMain
  <2>1. UNCHANGED <<mpc, index, exit, host>>
    BY <1>7, OtherSteps DEF run, modules
  <2>2. shutdown' \in {shutdown, "sent"}
    <3>1. CASE MasterActs
      BY <1>7, <3>1 DEF MasterActs, MasterConnects, MasterDisconnects, ResultTaken, MasterHandlers,
          ResultFinishes, AckResult, SendTask, master, link
    <3>2. CASE WorkersAct \/ UNCHANGED vars
      BY <3>2 DEF WorkersAct, vars, master, link
    <3>3. CASE SendControl \/ \E j \in jobs : FetchImage(j)
      BY <3>3 DEF SendControl, SendShutdown, FetchImage, link
    <3>4. QED BY <3>1, <3>2, <3>3 DEF Next
  <2>3. QED BY <2>1, <2>2
<1>8. QED BY <1>1, <1>2, <1>3, <1>4, <1>5, <1>6, <1>7 DEF MasterMain

LEMMA WorkerTypesNext == Deliveries /\ Answers /\ WorkerTypes /\ [Next]_vars => WorkerTypes'
<1> SUFFICES ASSUME Deliveries, Answers, WorkerTypes, [Next]_vars PROVE WorkerTypes'
  OBVIOUS
<1>0. config' = config /\ jobs \subseteq Jobs /\ wlink \subseteq Workers
  BY SentStays DEF Deliveries, Data
<1> USE DEF WorkerTypes
<1>1. CASE MasterActs
  <2>1. UNCHANGED <<answered, control, wpc, told>>
    <3>1. MasterMain => UNCHANGED <<answered, control>>
      BY OrderKept DEF broker, PublishTask
    <3>2. QED BY <1>1, <3>1 DEF MasterActs, MasterConnects, MasterDisconnects, ResultTaken,
                 MasterHandlers, ResultFinishes, AckResult, SendTask, broker, worker
  <2>2. QED BY <1>0, <2>1
<1>2. ASSUME NEW w \in Workers,
             WorkerMain(w) \/ WorkerConnects(w) \/ WorkerDisconnects(w) \/ Kill(w) \/ ControlHandler(w)
      PROVE  WorkerTypes'
  <2>1. CASE WorkerStart(w) \/ WorkerStartFails(w) \/ WorkerReady(w) \/ WorkerLeaves(w) \/ WorkerTimesOut(w)
    BY <1>0, <2>1 DEF WorkerStart, WorkerStartFails, WorkerReady, WorkerLeaves, WorkerTimesOut, Goto, broker
  <2>2. CASE WorkerStops(w) \/ Kill(w)
    BY <1>0, <2>2 DEF WorkerStops, Kill, Unlink, Goto
  <2>3. CASE WorkerConnects(w) \/ WorkerDisconnects(w) \/ ControlHandler(w)
    BY <1>0, <2>3 DEF WorkerConnects, WorkerDisconnects, ControlHandler, Unlink, broker
  <2>4. QED BY <1>2, <2>1, <2>2, <2>3 DEF WorkerMain
<1>3. ASSUME NEW m \in Messages, NEW w \in Workers, TaskHandler(m, w) PROVE WorkerTypes'
  BY <1>0, <1>3 DEF TaskHandler
<1>4. ASSUME NEW j \in jobs, WorkerDriver(j) PROVE WorkerTypes'
  <2>1. CASE SendSettle(j)
    BY <1>0, <2>1 DEF SendSettle
  <2>2. CASE SendResult(j)
    <3>1. answered' \subseteq answered \cup {j.task} /\ UNCHANGED <<control, wpc, told>> /\ j.unsent
      BY <2>2 DEF SendResult
    <3>2. j.task \in Tasks \cup Stale
      BY <1>0, <3>1 DEF Answers, Jobs
    <3>3. QED BY <1>0, <3>1, <3>2
  <2>3. QED BY <1>4, <2>1, <2>2 DEF WorkerDriver
<1>5. CASE WorkersAct
  BY <1>2, <1>3, <1>4, <1>5 DEF WorkersAct
<1>6. CASE SendControl
  BY <1>0, <1>6 DEF SendControl, SendShutdown, worker
<1>7. ASSUME NEW j \in jobs, FetchImage(j) PROVE WorkerTypes'
  BY <1>0, <1>7 DEF FetchImage, ProcessTask, broker
<1>8. CASE UNCHANGED vars
  BY <1>0, <1>8 DEF vars, broker, worker
<1>9. QED BY <1>1, <1>5, <1>6, <1>7, <1>8 DEF Next

-----------------------------------------------------------------------------
(* The theorems.                                                           *)

IInv == Deliveries /\ Answers /\ Course /\ Rows /\ Report /\ MasterTypes /\ MasterFlags /\ WorkerTypes

\* The inductive invariant holds for every number of tasks, workers and faults.
THEOREM Invariance == Spec => []IInv
<1>1. Init => IInv
  BY DeliveriesInit, AnswersInit, CourseInit, RowsInit, ReportInit, TypesInit DEF IInv
<1>2. IInv /\ [Next]_vars => IInv'
  BY DeliveriesNext, AnswersNext, CourseNext, RowsNext, ReportNext, MasterTypesNext, MasterFlagsNext,
     WorkerTypesNext DEF IInv
<1>3. QED BY <1>1, <1>2, PTL DEF Spec

\* The variables have their types; of the counters, that none exceeds the
\* number of tasks.
LEMMA Typed == IInv => TypeOK
<1> SUFFICES ASSUME IInv PROVE TypeOK
  OBVIOUS
<1>1. task_count \in Nat /\ task_count <= TaskCount
  BY DEF IInv, Deliveries, Data, Config, task_count
<1>2. BrokerTypeOK
  BY DEF IInv, Deliveries, Data, Answers, WorkerTypes, BrokerTypeOK
<1>3. WorkerTypeOK
  BY DEF IInv, Deliveries, Data, Answers, WorkerTypes, WorkerTypeOK
<1>4. count \in [finished : 0 .. TaskCount, success : 0 .. TaskCount, failure : 0 .. TaskCount, result : 0 .. TaskCount]
  <2>1. Counted
    BY DEF IInv, Report
  <2>2. Cardinality(finished) <= task_count
    BY <1>1, <2>1, FiniteRows DEF Counted
  <2>3. received \subseteq 1 .. task_count
    BY <2>1 DEF Counted
  <2>4. Cardinality(received) <= task_count
    BY <1>1, <2>3, FiniteRows
  <2>5. /\ count \in [finished : Nat, success : Nat, failure : Nat, result : Nat]
        /\ count.finished <= task_count /\ count.result <= task_count
        /\ count.success + count.failure = count.finished
    BY <2>1, <2>2, <2>4 DEF Counted
  <2>6. /\ count.finished \in 0 .. TaskCount /\ count.success \in 0 .. TaskCount
        /\ count.failure \in 0 .. TaskCount /\ count.result \in 0 .. TaskCount
    BY <1>1, <2>5
  <2>7. count = [finished |-> count.finished, success |-> count.success,
                 failure |-> count.failure, result |-> count.result]
    BY <2>5
  <2>8. QED BY <2>6, <2>7
<1>5. {cancelled, timed_out, route, handler, mlink, late} \subseteq BOOLEAN
  BY Zenon DEF IInv, MasterFlags
<1>6. index \in 1 .. TaskCount + 1 /\ epoch \in 0 .. MaxFaults
  BY DEF IInv, MasterTypes, Deliveries, Data, InOrder, Answers
<1>7. /\ images \subseteq Tasks /\ finished \subseteq Tasks /\ received \subseteq Tasks /\ rjobs \subseteq RJobs
      /\ status \in [Tasks -> Statuses]
      /\ stored \in [Tasks -> {"not_stored", "stored", "put_failed", "deleted"}]
  BY <1>1 DEF IInv, Rows, Report, Counted, Answers
<1>8. MasterTypeOK
  BY <1>4, <1>5, <1>6, <1>7 DEF IInv, MasterTypes, MasterTypeOK
<1>9. QED BY <1>2, <1>3, <1>8 DEF TypeOK

\* No worker acks a task before its result has arrived at the broker: not after a
\* refused or lost result, a second delivery, or the death of another worker.  A
\* task without a result was ended by the stale tag of another delivery, and only
\* where workers lose connections.
THEOREM NoTaskIsDropped == Spec => []SettledHasResult
<1>1. IInv => SettledHasResult
  BY DEF IInv, Deliveries
<1>2. QED BY <1>1, Invariance, PTL

\* However a run ends, it leaves no image, no handler, no result half handled
\* and no task in the command queue.
THEOREM RunCleansUp == Spec => []NothingLeftBehind
<1>1. IInv => NothingLeftBehind
  BY DEF IInv, Course, Rows, NothingLeftBehind
<1>2. QED BY <1>1, Invariance, PTL

\* Counters and rows agree in every interleaving of the run's thread with the
\* two lock sections of the result handlers.
THEOREM CountersTellTheTruth == Spec => []ReportAgrees
<1>1. IInv => ReportAgrees
  BY Typed DEF IInv, Report, Counted, Uncut, ReportAgrees
<1>2. QED BY <1>1, Invariance, PTL

\* A run that exits with 0 has computed every task and has every result.
THEOREM SuccessIsEarned == Spec => []SuccessIsTrue
<1>1. IInv => SuccessIsTrue
  BY DEF IInv, Report
<1>2. QED BY <1>1, Invariance, PTL

-----------------------------------------------------------------------------
(* MasterDemo: the inductive invariant.                                    *)

HIDE TaskBrokerAssumption DEF Messages, Tasks

Active(r) == pc[r] \notin {"none", "over", "ended"}

Holding == {"spawn", "consumers", "kernel", "closing", "status", "cleanup"}

\* The window points to the last run or to none, and only that run is under way.
Pointer ==
    /\ worker_ \in {0, started}
    /\ \A r \in Runs : /\ pc[r] = "none" <=> r > started
                       /\ Active(r) => r = worker_

\* Processes run only while the run under way holds them.
ProcessesHeld == \A w \in LocalWorkers : process[w] = "running" => worker_ # 0 /\ pc[worker_] \in Holding

Is(i, kind) == gui[i].is = kind

\* Events come to the window in the order in which a run has posted them.
Queue ==
    \A i \in DOMAIN gui :
        /\ Is(i, "row") => gui[i].run = worker_
        /\ Is(i, "finished") => worker_ # 0 /\ ~ Active(worker_)
        /\ Is(i, "quit") => /\ gui[i].run <= started
                            /\ gui[i].run = worker_ => \E j \in 1 .. i - 1 : Is(j, "finished")
        /\ \A j \in DOMAIN gui : Is(j, "finished") => /\ Is(i, "row") => i < j
                                                      /\ Is(i, "finished") => i = j

\* The event loop of a run's thread is told to quit after the window has let go
\* of its worker, or when it closes.
Quits ==
    /\ \A r \in Runs : quit[r] => r <= started /\ (window = "open" => r # worker_)
    /\ window = "open" /\ worker_ # 0 => pc[worker_] # "ended"
    /\ window = "closed" => \A r \in Runs : Ended(r)

Shown ==
    /\ \A t \in TaskIds : task_rows_[t].run \in {0, started}
    /\ snapshot = Nothing \/ snapshot.task \in TaskIds

DemoInv == DemoTypeOK /\ Pointer /\ ProcessesHeld /\ Queue /\ Quits /\ Shown

-----------------------------------------------------------------------------
LEMMA InitInv == DemoInit => DemoInv
<1> SUFFICES ASSUME DemoInit PROVE DemoInv
  OBVIOUS
<1> USE DemoAssumption DEF DemoInit
<1>1. DemoTypeOK
  <2>1. task_rows_ \in [TaskIds -> [run : 0 .. MaxRuns, shows : {"none", "sent", "done"}]]
    BY DEF NoRow
  <2>2. snapshot \in [task : 0 .. NTasks, shows : {"none", "sent", "done"}]
    BY DEF Nothing
  <2>3. clicked \in BOOLEAN /\ cancel \in [Runs -> BOOLEAN] /\ asked \in [Runs -> BOOLEAN] /\ quit \in [Runs -> BOOLEAN]
    BY Zenon
  <2>4. QED BY <2>1, <2>2, <2>3 DEF DemoTypeOK
<1>2. Pointer /\ ProcessesHeld /\ Queue
  BY DEF Pointer, ProcessesHeld, Queue, Active, Runs
<1>3. Quits /\ Shown
  BY DEF Quits, Shown, NoRow
<1>4. QED BY <1>1, <1>2, <1>3 DEF DemoInv

Events == [is : {"row", "finished", "quit"}, run : Runs, task : 0 .. NTasks, shows : {"none", "sent", "done"}]

\* What the types say that the lemmas below need.
LEMMA Sorts ==
    ASSUME DemoInv
    PROVE  /\ MaxRuns \in Nat /\ started \in 0 .. MaxRuns /\ worker_ \in {0, started}
           /\ Runs = 1 .. MaxRuns /\ DOMAIN pc = Runs /\ DOMAIN quit = Runs /\ DOMAIN process = LocalWorkers
           /\ DOMAIN task_rows_ = TaskIds
           /\ gui \in Seq(Events) /\ Len(gui) \in Nat /\ DOMAIN gui = 1 .. Len(gui)
           /\ \A i \in DOMAIN gui : gui[i] \in Events /\ gui[i].run \in Runs /\ gui[i].task \in 0 .. NTasks
<1>1. gui \in Seq(Events)
  BY DEF DemoInv, DemoTypeOK, Events
<1>2. Len(gui) \in Nat /\ DOMAIN gui = 1 .. Len(gui) /\ \A i \in DOMAIN gui : gui[i] \in Events
  BY ONLY <1>1
<1>3. \A i \in DOMAIN gui : gui[i].run \in Runs /\ gui[i].task \in 0 .. NTasks
  BY ONLY <1>2 DEF Events
<1>4. QED BY <1>1, <1>2, <1>3, DemoAssumption DEF DemoInv, DemoTypeOK, Pointer, Runs

\* The steps by what they do: the window's, those that post an event, and those
\* that only move a thread.
Posts(r) == NotifyTaskPublished(r) \/ NotifyTaskUpdated(r) \/ ReportFinished(r)

Moves(r) == \/ Begin(r) \/ BootstrapTopology(r)
            \/ StartLocalWorker(r) \/ LocalWorkersStarted(r) \/ StartLocalWorkersFails(r)
            \/ ConsumersReady(r) \/ WaitForTaskConsumersFails(r)
            \/ PublishDemoTask(r) \/ TakeSnapshot(r) \/ StopWaiting(r) \/ HostStops(r) \/ KernelFails(r)
            \/ FinalStatus(r) \/ StopLocalWorker(r) \/ LocalWorkersStopped(r) \/ ThreadEnds(r)
            \/ RequestStop(r) \/ HandleResult(r)

\* Every step is one of these.
LEMMA Steps ==
    ASSUME [DemoNext]_demoVars
    PROVE  \/ StartRun \/ StopRun \/ HandleEvent \/ Close \/ Closed \/ UNCHANGED demoVars
           \/ \E r \in Runs : Posts(r) \/ Moves(r)
           \/ \E w \in LocalWorkers : ProcessEnds(w)
BY DEF DemoNext, RunSteps, Posts, Moves

\* What such a move does to the processes and to where its thread is.
Stays(r) == pc' = pc /\ (process' = process \/ pc[r] \in Holding)

Advances(r) ==
    /\ Active(r)
    /\ \E to \in Holding \cup {"topology", "report"} :
        /\ pc' = [pc EXCEPT ![r] = to]
        /\ \/ process' = process /\ (to \in Holding \/ pc[r] \notin Holding)
           \/ \A w \in LocalWorkers : process'[w] # "running"

Ends(r) == pc[r] = "over" /\ quit[r] /\ pc' = [pc EXCEPT ![r] = "ended"] /\ process' = process

\* A thread that moves leaves the window alone.  Processes are left running only
\* on a path that still holds them.
LEMMA MoveEffect ==
    ASSUME DemoTypeOK, NEW r \in Runs, Moves(r)
    PROVE  /\ UNCHANGED <<window, worker_, started, task_rows_, gui, quit>> /\ Alive
           /\ Stays(r) \/ Advances(r) \/ Ends(r)
<1> USE DEF windowVars, threadVars, processVars, kernelVars, Goes, Stays
<1>1. CASE Begin(r)
  <2>1. /\ UNCHANGED <<window, worker_, started, task_rows_, gui, quit>> /\ Alive /\ pc[r] = "begin"
        /\ \E to \in {"topology", "report"} : pc' = [pc EXCEPT ![r] = to]
        /\ \A w \in LocalWorkers : process'[w] # "running"
    BY <1>1 DEF Begin
  <2>2. QED BY <2>1 DEF Advances, Active
<1>2. CASE BootstrapTopology(r)
  BY <1>2 DEF BootstrapTopology, Advances, Active, Holding
<1>3. CASE StartLocalWorker(r) \/ StopLocalWorker(r)
  BY <1>3 DEF StartLocalWorker, StopLocalWorker, Holding
<1>4. CASE LocalWorkersStarted(r) \/ StartLocalWorkersFails(r) \/ ConsumersReady(r) \/ WaitForTaskConsumersFails(r)
  BY <1>4 DEF LocalWorkersStarted, StartLocalWorkersFails, ConsumersReady, WaitForTaskConsumersFails,
              Advances, Active, Holding
<1>5. CASE PublishDemoTask(r) \/ TakeSnapshot(r) \/ HandleResult(r) \/ RequestStop(r)
  BY <1>5 DEF PublishDemoTask, TakeSnapshot, HandleResult, RequestStop, InKernel
<1>6. CASE StopWaiting(r) \/ HostStops(r) \/ KernelFails(r) \/ FinalStatus(r)
  BY <1>6 DEF StopWaiting, HostStops, KernelFails, FinalStatus, Advances, Active, Holding
<1>7. CASE LocalWorkersStopped(r)
  BY <1>7 DEF LocalWorkersStopped, Advances, Active
<1>8. CASE ThreadEnds(r)
  BY <1>8 DEF ThreadEnds, Ends
<1>9. QED BY <1>1, <1>2, <1>3, <1>4, <1>5, <1>6, <1>7, <1>8 DEF Moves

\* A thread that posts an event stays where it is, or ends with its report.
LEMMA PostEffect ==
    ASSUME DemoTypeOK, NEW r \in Runs, Posts(r)
    PROVE  /\ UNCHANGED <<window, worker_, started, task_rows_, quit, process>>
           /\ \/ /\ pc[r] \in {"kernel", "closing"} /\ pc' = pc
                 /\ \E t \in 0 .. NTasks, shows \in {"none", "sent", "done"} : gui' = Append(gui, Row(r, t, shows))
              \/ pc[r] = "report" /\ pc' = [pc EXCEPT ![r] = "over"] /\ gui' = gui \o Finished(r)
<1> USE DEF windowVars, threadVars, processVars, kernelVars, InKernel, Goes
<1>1. CASE NotifyTaskPublished(r)
  BY <1>1 DEF NotifyTaskPublished, DemoTypeOK
<1>2. CASE NotifyTaskUpdated(r)
  BY <1>2, DemoAssumption DEF NotifyTaskUpdated, DemoTypeOK, TaskIds
<1>3. CASE ReportFinished(r)
  BY <1>3 DEF ReportFinished
<1>4. QED BY <1>1, <1>2, <1>3 DEF Posts

-----------------------------------------------------------------------------
(* The types.                                                              *)

LEMMA Marked == \A S, f, v : [x \in S |-> f[x] \/ x = v] \in [S -> BOOLEAN]
OBVIOUS

LEMMA TypesKept == DemoInv /\ [DemoNext]_demoVars => DemoTypeOK'
<1> SUFFICES ASSUME DemoInv, [DemoNext]_demoVars PROVE DemoTypeOK'
  OBVIOUS
<1> USE DemoAssumption
<1> USE DEF DemoInv, DemoTypeOK, windowVars, threadVars, processVars, kernelVars
<1>1. CASE StartRun
  <2>1. started + 1 \in Runs /\ started + 1 \in 0 .. MaxRuns
    BY <1>1 DEF StartRun, Runs
  <2>2. task_rows_' \in [TaskIds -> [run : 0 .. MaxRuns, shows : {"none", "sent", "done"}]]
    BY <1>1 DEF StartRun, NoRow
  <2>3. QED BY <1>1, <2>1, <2>2 DEF StartRun
<1>2. CASE StopRun
  BY <1>2 DEF StopRun
<1>3. CASE HandleEvent
  <2>1. Head(gui) \in Events /\ Tail(gui) \in Seq(Events) /\ gui' = Tail(gui)
    BY ONLY <1>3, Sorts, DemoInv DEF HandleEvent
  <2>2. /\ UNCHANGED <<window, started, pc, cancel, asked, process, deaths, task, snapshot, updates>>
        /\ worker_' \in {0, worker_} /\ clicked' \in {clicked, FALSE}
    BY <1>3 DEF HandleEvent, OnTask, OnRunFinished, OnQuit
  <2>3. task_rows_' \in [TaskIds -> [run : 0 .. MaxRuns, shows : {"none", "sent", "done"}]]
    <3>1. \/ task_rows_' = task_rows_
          \/ task_rows_' = [task_rows_ EXCEPT ![Head(gui).task] = [run |-> Head(gui).run, shows |-> Head(gui).shows]]
      BY <1>3 DEF HandleEvent, OnTask, OnRunFinished, OnQuit
    <3>2. [run |-> Head(gui).run, shows |-> Head(gui).shows] \in [run : 0 .. MaxRuns, shows : {"none", "sent", "done"}]
      BY <2>1 DEF Events, Runs
    <3>3. QED BY <3>1, <3>2
  <2>4. quit' \in [Runs -> BOOLEAN]
    BY <1>3, <2>1 DEF HandleEvent, OnTask, OnRunFinished, OnQuit
  <2>5. clicked' \in BOOLEAN
    BY ONLY Zenon, DemoInv, <2>2 DEF DemoInv, DemoTypeOK
  <2>6. worker_' \in 0 .. MaxRuns
    BY <2>2
  <2>7. QED BY ONLY DemoInv, <2>1, <2>2, <2>3, <2>4, <2>5, <2>6 DEF DemoInv, DemoTypeOK, Events
<1>4. CASE Close \/ Closed
  <2>1. cancel' \in [Runs -> BOOLEAN] /\ quit' \in [Runs -> BOOLEAN]
    <3>1. CASE Close
      BY ONLY Zenon, <3>1, Marked DEF Close
    <3>2. CASE Closed
      BY ONLY Zenon, DemoInv, <3>2 DEF Closed, threadVars, DemoInv, DemoTypeOK
    <3>3. QED BY <1>4, <3>1, <3>2
  <2>2. QED BY <1>4, <2>1 DEF Close, Closed
<1>5. ASSUME NEW r \in Runs, Posts(r) PROVE DemoTypeOK'
  <2>1. UNCHANGED <<window, worker_, started, clicked, task_rows_, cancel, asked, quit, process, deaths, task>>
        /\ pc' \in {pc, [pc EXCEPT ![r] = "over"]} /\ snapshot' \in {snapshot, Nothing} /\ updates' \subseteq updates
    BY <1>5 DEF Posts, NotifyTaskPublished, NotifyTaskUpdated, ReportFinished, Goes
  <2>2. gui' \in Seq(Events)
    <3>1. CASE \E t \in 0 .. NTasks, shows \in {"none", "sent", "done"} : gui' = Append(gui, Row(r, t, shows))
      BY <3>1 DEF Events, Row, Event
    <3>2. CASE gui' = gui \o Finished(r)
      BY <3>2 DEF Events, Finished, Event
    <3>3. QED BY <1>5, <3>1, <3>2, PostEffect
  <2>3. snapshot' \in [task : 0 .. NTasks, shows : {"none", "sent", "done"}]
    <3>1. Nothing \in [task : 0 .. NTasks, shows : {"none", "sent", "done"}]
      BY Sorts, DemoAssumption DEF Nothing
    <3>2. QED BY <2>1, <3>1
  <2>4. pc' \in [Runs -> {"none", "begin", "topology", "spawn", "consumers", "kernel", "closing", "status",
                        "cleanup", "report", "over", "ended"}]
    BY <2>1
  <2>5. QED BY <2>1, <2>2, <2>3, <2>4 DEF Events
<1>6. ASSUME NEW r \in Runs, Moves(r) PROVE DemoTypeOK'
  <2>1. UNCHANGED <<window, worker_, started, task_rows_, gui, quit, clicked>>
    BY <1>6, MoveEffect DEF Moves, Begin, BootstrapTopology, StartLocalWorker, LocalWorkersStarted,
       StartLocalWorkersFails, ConsumersReady, WaitForTaskConsumersFails, PublishDemoTask, TakeSnapshot,
       StopWaiting, HostStops, KernelFails, FinalStatus, StopLocalWorker, LocalWorkersStopped,
       ThreadEnds, RequestStop, HandleResult
  <2>2. pc' \in [Runs -> {"none", "begin", "topology", "spawn", "consumers", "kernel", "closing", "status",
                         "cleanup", "report", "over", "ended"}]
    BY <1>6, MoveEffect DEF Stays, Advances, Ends, Holding
  <2>3. cancel' \in [Runs -> BOOLEAN] /\ asked' \in [Runs -> BOOLEAN]
    BY ONLY DemoInv, <1>6 DEF DemoInv, DemoTypeOK, windowVars, threadVars, Moves, Begin,
        BootstrapTopology, StartLocalWorker, LocalWorkersStarted, StartLocalWorkersFails, ConsumersReady,
        WaitForTaskConsumersFails, PublishDemoTask, TakeSnapshot, StopWaiting, HostStops, KernelFails,
        FinalStatus, StopLocalWorker, LocalWorkersStopped, ThreadEnds, RequestStop, HandleResult
  <2>4. process' \in [LocalWorkers -> {"none", "running", "ended"}] /\ deaths' = deaths
    <3>1. CASE Begin(r) \/ StartLocalWorker(r) \/ StopLocalWorker(r)
      <4>1. CASE Begin(r)
        BY <4>1 DEF Begin
      <4>2. CASE StartLocalWorker(r)
        BY <4>2 DEF StartLocalWorker
      <4>3. CASE StopLocalWorker(r)
        BY <4>3 DEF StopLocalWorker
      <4>4. QED BY <3>1, <4>1, <4>2, <4>3
    <3>2. CASE ~ (Begin(r) \/ StartLocalWorker(r) \/ StopLocalWorker(r))
      <4>1. UNCHANGED processVars
        BY <1>6, <3>2 DEF Moves, BootstrapTopology, LocalWorkersStarted, StartLocalWorkersFails,
           ConsumersReady, WaitForTaskConsumersFails, PublishDemoTask, TakeSnapshot, StopWaiting,
           HostStops, KernelFails, FinalStatus, LocalWorkersStopped, ThreadEnds, RequestStop,
           HandleResult
      <4>2. QED BY <4>1
    <3>3. QED BY <3>1, <3>2
  <2>5. task' \in [TaskIds -> {"none", "sent", "done"}] /\ updates' \subseteq TaskIds
    BY <1>6 DEF Moves, Begin, BootstrapTopology, StartLocalWorker, LocalWorkersStarted,
       StartLocalWorkersFails, ConsumersReady, WaitForTaskConsumersFails, PublishDemoTask, TakeSnapshot,
       StopWaiting, HostStops, KernelFails, FinalStatus, StopLocalWorker, LocalWorkersStopped,
       ThreadEnds, RequestStop, HandleResult
  <2>6. snapshot' \in [task : 0 .. NTasks, shows : {"none", "sent", "done"}]
    <3>1. CASE PublishDemoTask(r)
      <4>1. NextTask \in 0 .. NTasks
        BY <3>1 DEF PublishDemoTask, NoneToPublish, TaskIds
      <4>2. QED BY <3>1, <4>1 DEF PublishDemoTask
    <3>2. CASE TakeSnapshot(r)
      <4>1. snapshot.task \in TaskIds
        BY <3>2 DEF TakeSnapshot, Shown
      <4>2. QED BY <3>2, <4>1 DEF TakeSnapshot
    <3>3. CASE ~ PublishDemoTask(r) /\ ~ TakeSnapshot(r)
      BY <1>6, <3>3 DEF Moves, Begin, BootstrapTopology, StartLocalWorker, LocalWorkersStarted,
         StartLocalWorkersFails, ConsumersReady, WaitForTaskConsumersFails, StopWaiting, HostStops,
         KernelFails, FinalStatus, StopLocalWorker, LocalWorkersStopped, ThreadEnds, RequestStop,
         HandleResult
    <3>4. QED BY <3>1, <3>2, <3>3
  <2>7. QED BY <2>1, <2>2, <2>3, <2>4, <2>5, <2>6
<1>7. ASSUME NEW w \in LocalWorkers, ProcessEnds(w) PROVE DemoTypeOK'
  BY <1>7 DEF ProcessEnds
<1>8. CASE UNCHANGED demoVars
  BY <1>8 DEF demoVars
<1>9. QED BY <1>1, <1>2, <1>3, <1>4, <1>5, <1>6, <1>7, <1>8, Steps

-----------------------------------------------------------------------------
(* The window and the threads.                                             *)

\* The pointer changes with the run that is started or taken note of as finished.
LEMMA PointerKept == DemoInv /\ [DemoNext]_demoVars => Pointer'
<1> SUFFICES ASSUME DemoInv, [DemoNext]_demoVars PROVE Pointer'
  OBVIOUS
<1> USE Sorts
<1> USE DEF DemoInv, windowVars, threadVars, Pointer, Active
<1>1. CASE StartRun
  BY <1>1 DEF StartRun, Runs
<1>2. CASE HandleEvent
  <2>1. UNCHANGED <<started, pc>>
    BY <1>2 DEF HandleEvent
  <2>2. CASE Head(gui).is = "finished"
    <3>1. 1 \in DOMAIN gui /\ Is(1, "finished")
      BY <1>2, <2>2 DEF HandleEvent, Is
    <3>2. worker_' = 0 /\ ~ Active(worker_)
      BY <1>2, <2>2, <3>1 DEF HandleEvent, OnRunFinished, Queue
    <3>3. QED BY <2>1, <3>2
  <2>3. CASE Head(gui).is # "finished"
    BY <1>2, <2>1, <2>3 DEF HandleEvent, OnTask, OnQuit
  <2>4. QED BY <2>2, <2>3
<1>3. CASE StopRun \/ Close \/ Closed \/ UNCHANGED demoVars
  BY <1>3 DEF StopRun, Close, Closed, demoVars
<1>4. ASSUME NEW r \in Runs, Posts(r) PROVE Pointer'
  BY <1>4, PostEffect
<1>5. ASSUME NEW r \in Runs, Moves(r) PROVE Pointer'
  BY <1>5, MoveEffect DEF Stays, Advances, Ends, Holding
<1>6. ASSUME NEW w \in LocalWorkers, ProcessEnds(w) PROVE Pointer'
  BY <1>6 DEF ProcessEnds
<1>7. QED BY <1>1, <1>2, <1>3, <1>4, <1>5, <1>6, Steps

\* No path from spawning to the end leaves a process running.
LEMMA HeldKept == DemoInv /\ [DemoNext]_demoVars => ProcessesHeld'
<1> SUFFICES ASSUME DemoInv, [DemoNext]_demoVars PROVE ProcessesHeld'
  OBVIOUS
<1> USE Sorts
<1> USE DEF DemoInv, windowVars, threadVars, processVars, Pointer, Active, ProcessesHeld, Holding
<1>1. CASE StartRun
  BY <1>1 DEF StartRun, Runs
<1>2. CASE HandleEvent
  <2>1. UNCHANGED <<pc, process>>
    BY <1>2 DEF HandleEvent
  <2>2. CASE Head(gui).is = "finished"
    <3>1. 1 \in DOMAIN gui /\ Is(1, "finished")
      BY <1>2, <2>2 DEF HandleEvent, Is
    <3>2. worker_ # 0 /\ ~ Active(worker_)
      BY <3>1 DEF Queue
    <3>3. QED BY <2>1, <3>2
  <2>3. CASE Head(gui).is # "finished"
    BY <1>2, <2>1, <2>3 DEF HandleEvent, OnTask, OnQuit
  <2>4. QED BY <2>2, <2>3
<1>3. CASE StopRun \/ Close \/ Closed \/ UNCHANGED demoVars
  BY <1>3 DEF StopRun, Close, Closed, demoVars
<1>4. ASSUME NEW r \in Runs, Posts(r) PROVE ProcessesHeld'
  BY <1>4, PostEffect
<1>5. ASSUME NEW r \in Runs, Moves(r) PROVE ProcessesHeld'
  <2>1. CASE Stays(r)
    BY <1>5, <2>1, MoveEffect DEF Stays
  <2>2. CASE Advances(r)
    <3>1. r = worker_ /\ r # 0
      BY <2>2 DEF Advances, Runs
    <3>2. QED BY <1>5, <2>2, <3>1, MoveEffect DEF Advances
  <2>3. CASE Ends(r)
    BY <1>5, <2>3, MoveEffect DEF Ends
  <2>4. QED BY <1>5, <2>1, <2>2, <2>3, MoveEffect
<1>6. ASSUME NEW w \in LocalWorkers, ProcessEnds(w) PROVE ProcessesHeld'
  BY <1>6 DEF ProcessEnds
<1>7. QED BY <1>1, <1>2, <1>3, <1>4, <1>5, <1>6, Steps

\* Who is told to quit is no longer the window's worker.
LEMMA QuitsKept == DemoInv /\ [DemoNext]_demoVars => Quits'
<1> SUFFICES ASSUME DemoInv, [DemoNext]_demoVars PROVE Quits'
  OBVIOUS
<1> USE Sorts
<1> USE DEF DemoInv, windowVars, threadVars, Pointer, Active, Quits, Ended
<1>1. CASE StartRun
  BY <1>1 DEF StartRun, Runs
<1>2. CASE HandleEvent
  <2>1. UNCHANGED <<window, started, pc>> /\ window = "open" /\ 1 \in DOMAIN gui /\ Head(gui) = gui[1] /\ gui[1].run \in Runs
    BY <1>2 DEF HandleEvent
  <2>2. CASE Is(1, "quit")
    <3>1. gui[1].run <= started /\ gui[1].run # worker_
      BY <2>1, <2>2 DEF Queue
    <3>2. quit' = [quit EXCEPT ![gui[1].run] = TRUE] /\ worker_' = worker_
      BY <1>2, <2>1, <2>2 DEF HandleEvent, OnTask, OnRunFinished, OnQuit, Is
    <3>3. QED BY <2>1, <3>1, <3>2
  <2>3. CASE ~ Is(1, "quit")
    <3>1. quit' = quit /\ worker_' \in {worker_, 0}
      BY <1>2, <2>1, <2>3 DEF HandleEvent, OnTask, OnRunFinished, OnQuit, Is
    <3>2. QED BY <2>1, <3>1 DEF Runs
  <2>4. QED BY <2>2, <2>3
<1>3. CASE StopRun \/ Closed \/ UNCHANGED demoVars
  BY <1>3 DEF StopRun, Closed, demoVars
<1>4. CASE Close
  <2>1. \A r \in Runs : quit'[r] <=> quit[r] \/ r = worker_
    BY Zenon, <1>4 DEF Close
  <2>2. QED BY <1>4, <2>1 DEF Close
<1>5. ASSUME NEW r \in Runs, Posts(r) PROVE Quits'
  <2>1. window # "closed"
    BY <1>5 DEF Posts, NotifyTaskPublished, NotifyTaskUpdated, ReportFinished, InKernel, Goes, Alive
  <2>2. QED BY <1>5, <2>1, PostEffect
<1>6. ASSUME NEW r \in Runs, Moves(r) PROVE Quits'
  <2>1. window # "closed" /\ UNCHANGED <<window, worker_, started, quit>>
    BY <1>6, MoveEffect DEF Alive
  <2>2. pc' = pc \/ Ends(r) \/ \E to \in Holding \cup {"topology", "report"} : pc' = [pc EXCEPT ![r] = to]
    BY <1>6, MoveEffect DEF Stays, Advances
  <2>3. QED BY <2>1, <2>2 DEF Ends, Holding
<1>7. ASSUME NEW w \in LocalWorkers, ProcessEnds(w) PROVE Quits'
  BY <1>7 DEF ProcessEnds
<1>8. QED BY <1>1, <1>2, <1>3, <1>4, <1>5, <1>6, <1>7, Steps

\* A row changes by an event of the run that the window points to.
LEMMA ShownKept == DemoInv /\ [DemoNext]_demoVars => Shown'
<1> SUFFICES ASSUME DemoInv, [DemoNext]_demoVars PROVE Shown'
  OBVIOUS
<1> USE Sorts
<1> USE DEF DemoInv, windowVars, threadVars, processVars, kernelVars, Pointer, Shown
<1>1. CASE StartRun
  BY <1>1 DEF StartRun, NoRow
<1>2. CASE HandleEvent
  <2>1. UNCHANGED <<started, snapshot>> /\ 1 \in DOMAIN gui /\ Head(gui) = gui[1] /\ gui[1].run \in Runs
    BY <1>2 DEF HandleEvent
  <2>2. \/ task_rows_' = task_rows_
        \/ /\ Is(1, "row")
           /\ task_rows_' = [task_rows_ EXCEPT ![gui[1].task] = [run |-> gui[1].run, shows |-> gui[1].shows]]
    BY <1>2, <2>1 DEF HandleEvent, OnTask, OnRunFinished, OnQuit, Is
  <2>3. Is(1, "row") => gui[1].run = started
    BY <2>1 DEF Queue, Runs
  <2>4. QED BY <2>1, <2>2, <2>3
<1>3. CASE StopRun \/ Close \/ Closed \/ UNCHANGED demoVars
  BY <1>3 DEF StopRun, Close, Closed, demoVars
<1>4. ASSUME NEW r \in Runs, Posts(r) PROVE Shown'
  BY <1>4 DEF Posts, NotifyTaskPublished, NotifyTaskUpdated, ReportFinished
<1>5. ASSUME NEW r \in Runs, Moves(r) PROVE Shown'
  <2>1. UNCHANGED <<task_rows_, started>>
    BY <1>5, MoveEffect
  <2>2. snapshot' = snapshot \/ snapshot'.task \in TaskIds
    <3>1. CASE PublishDemoTask(r)
      BY <3>1 DEF PublishDemoTask, NoneToPublish
    <3>2. CASE TakeSnapshot(r)
      BY <3>2 DEF TakeSnapshot
    <3>3. CASE ~ PublishDemoTask(r) /\ ~ TakeSnapshot(r)
      BY <1>5, <3>3 DEF Moves, Begin, BootstrapTopology, StartLocalWorker, LocalWorkersStarted,
         StartLocalWorkersFails, ConsumersReady, WaitForTaskConsumersFails, StopWaiting, HostStops,
         KernelFails, FinalStatus, StopLocalWorker, LocalWorkersStopped, ThreadEnds, RequestStop,
         HandleResult
    <3>4. QED BY <3>1, <3>2, <3>3
  <2>3. QED BY <2>1, <2>2
<1>6. ASSUME NEW w \in LocalWorkers, ProcessEnds(w) PROVE Shown'
  BY <1>6 DEF ProcessEnds
<1>7. QED BY <1>1, <1>2, <1>3, <1>4, <1>5, <1>6, Steps

\* Events are appended in the order of a run and taken from the front.
LEMMA QueueKept == DemoInv /\ [DemoNext]_demoVars => Queue'
<1> SUFFICES ASSUME DemoInv, [DemoNext]_demoVars PROVE Queue'
  OBVIOUS
<1> USE Sorts
<1> USE DEF DemoInv, windowVars, threadVars, Pointer, Active
<1>1. CASE StartRun
  <2>1. UNCHANGED gui /\ worker_ = 0 /\ worker_' = started + 1 /\ started' = started + 1 /\ started \in Nat
    BY <1>1 DEF StartRun
  <2>2. \A i \in DOMAIN gui : ~ Is(i, "row") /\ ~ Is(i, "finished") /\ (Is(i, "quit") => gui[i].run <= started)
    BY <2>1 DEF Queue, Runs
  <2>3. \A i \in DOMAIN gui : ~ Is(i, "row")' /\ ~ Is(i, "finished")'
                              /\ (Is(i, "quit")' => gui[i].run <= started /\ gui[i].run \in Nat)
    BY <2>1, <2>2 DEF Is, Runs
  <2>4. QED BY <2>1, <2>3 DEF Queue
<1>2. CASE HandleEvent
  <2>1. /\ gui # <<>> /\ gui' = Tail(gui) /\ UNCHANGED <<started, pc>> /\ Head(gui) = gui[1] /\ 1 \in DOMAIN gui
        /\ IF Is(1, "finished") THEN worker_' = 0 ELSE worker_' = worker_
    BY <1>2 DEF HandleEvent, OnTask, OnRunFinished, OnQuit, Is
  <2>2. /\ DOMAIN gui' = 1 .. Len(gui) - 1
        /\ \A i \in 1 .. Len(gui) - 1 : gui'[i] = gui[i + 1] /\ i + 1 \in DOMAIN gui
    BY <2>1
  <2>3. \A i \in DOMAIN gui' : \A kind : Is(i, kind)' <=> Is(i + 1, kind)
    BY <2>2 DEF Is
  <2>4. CASE Is(1, "finished")
    <3>1. \A i \in DOMAIN gui' : ~ Is(i, "row")' /\ ~ Is(i, "finished")'
      BY <2>1, <2>2, <2>3, <2>4 DEF Queue
    <3>2. \A i \in DOMAIN gui' : Is(i, "quit")' => gui'[i].run <= started' /\ gui'[i].run # 0
      BY <2>1, <2>2, <2>3 DEF Queue, Runs
    <3>3. QED BY <2>1, <2>4, <3>1, <3>2 DEF Queue
  <2>5. CASE ~ Is(1, "finished")
    <3> SUFFICES ASSUME NEW i \in DOMAIN gui'
                 PROVE  /\ Is(i, "row")' => gui'[i].run = worker_'
                        /\ Is(i, "finished")' => worker_' # 0 /\ ~ Active(worker_)'
                        /\ Is(i, "quit")' => /\ gui'[i].run <= started'
                                             /\ gui'[i].run = worker_' => \E j \in 1 .. i - 1 : Is(j, "finished")'
                        /\ \A j \in DOMAIN gui' : Is(j, "finished")' => /\ Is(i, "row")' => i < j
                                                                        /\ Is(i, "finished")' => i = j
      BY DEF Queue
    <3>1. worker_' = worker_ /\ gui'[i] = gui[i + 1] /\ i + 1 \in DOMAIN gui /\ i \in Nat
      BY <2>1, <2>2, <2>5
    <3>2. /\ Is(i, "row")' => gui'[i].run = worker_'
          /\ Is(i, "finished")' => worker_' # 0 /\ ~ Active(worker_)'
      BY <2>1, <2>3, <3>1 DEF Queue
    <3>3. ASSUME Is(i, "quit")'
          PROVE  /\ gui'[i].run <= started'
                 /\ gui'[i].run = worker_' => \E j \in 1 .. i - 1 : Is(j, "finished")'
      <4>1. /\ gui[i + 1].run <= started
            /\ gui[i + 1].run = worker_ => \E j \in 1 .. i : Is(j, "finished")
        BY <2>3, <3>1, <3>3 DEF Queue
      <4>2. \A j \in 1 .. i : Is(j, "finished") => j - 1 \in 1 .. i - 1 /\ Is(j - 1, "finished")'
        <5> SUFFICES ASSUME NEW j \in 1 .. i, Is(j, "finished") PROVE j - 1 \in 1 .. i - 1 /\ Is(j - 1, "finished")'
          OBVIOUS
        <5>1. j # 1 /\ j \in Nat /\ i \in 1 .. Len(gui) - 1
          BY <2>2, <2>5, <3>1
        <5>2. j - 1 \in DOMAIN gui' /\ (j - 1) + 1 = j
          BY <2>2, <5>1
        <5>3. QED BY <2>3, <5>1, <5>2
      <4>3. QED BY <2>1, <3>1, <4>1, <4>2
    <3>4. ASSUME NEW j \in DOMAIN gui', Is(j, "finished")'
          PROVE  /\ Is(i, "row")' => i < j
                 /\ Is(i, "finished")' => i = j
      <4>1. Is(j + 1, "finished") /\ j + 1 \in DOMAIN gui /\ j \in Nat
        BY <2>2, <2>3, <3>4
      <4>2. (Is(i + 1, "row") => i + 1 < j + 1) /\ (Is(i + 1, "finished") => i + 1 = j + 1)
        BY <3>1, <4>1 DEF Queue
      <4>3. QED BY <2>3, <3>1, <4>1, <4>2
    <3>5. QED BY <3>2, <3>3, <3>4
  <2>6. QED BY <2>4, <2>5
<1>3. CASE StopRun \/ Close \/ Closed \/ UNCHANGED demoVars
  BY <1>3 DEF StopRun, Close, Closed, demoVars, Queue, Is
<1>4. ASSUME NEW r \in Runs, Posts(r) PROVE Queue'
  <2>1. r = worker_ /\ r # 0 /\ Active(worker_) /\ UNCHANGED <<worker_, started>> /\ r = started
    BY <1>4, PostEffect DEF Runs
  <2>2. \A i \in DOMAIN gui : ~ Is(i, "finished")
    BY <2>1 DEF Queue
  <2>3. CASE \E t \in 0 .. NTasks, shows \in {"none", "sent", "done"} : gui' = Append(gui, Row(r, t, shows))
    <3>1. /\ DOMAIN gui' = 1 .. Len(gui) + 1
          /\ \A i \in DOMAIN gui : gui'[i] = gui[i]
          /\ gui'[Len(gui) + 1].is = "row" /\ gui'[Len(gui) + 1].run = r
      BY <2>3 DEF Row, Event
    <3>2. \A i \in DOMAIN gui' : ~ Is(i, "finished")'
      BY <2>2, <3>1 DEF Is
    <3>3. \A i \in DOMAIN gui' : Is(i, "row")' => gui'[i].run = worker_'
      BY <2>1, <3>1 DEF Is, Queue
    <3>4. \A i \in DOMAIN gui' : Is(i, "quit")' => gui'[i].run <= started' /\ gui'[i].run # worker_'
      <4>1. \A i \in DOMAIN gui : Is(i, "quit") => gui[i].run <= started /\ gui[i].run # worker_
        BY <2>2 DEF Queue
      <4>2. QED BY <2>1, <3>1, <4>1 DEF Is
    <3>5. QED BY <3>2, <3>3, <3>4 DEF Queue
  <2>4. CASE pc[r] = "report" /\ pc' = [pc EXCEPT ![r] = "over"] /\ gui' = gui \o Finished(r)
    <3> PICK n \in Nat : n = Len(gui)
      BY DEF DemoInv
    <3>1. /\ DOMAIN gui' = 1 .. n + 2
          /\ \A i \in DOMAIN gui : gui'[i] = gui[i]
          /\ gui'[n + 1].is = "finished" /\ gui'[n + 2].is = "quit" /\ gui'[n + 2].run = r
          /\ DOMAIN gui = 1 .. n
      BY <2>4 DEF Finished, Event
    <3>2. \A i \in DOMAIN gui' : Is(i, "finished")' <=> i = n + 1
      <4> SUFFICES ASSUME NEW i \in DOMAIN gui' PROVE gui'[i].is = "finished" <=> i = n + 1
        BY DEF Is
      <4>1. CASE i \in DOMAIN gui
        BY <2>2, <3>1, <4>1 DEF Is
      <4>2. CASE i \notin DOMAIN gui
        <5>1. i = n + 1 \/ i = n + 2
          BY <3>1, <4>2
        <5>2. QED BY <3>1, <5>1
      <4>3. QED BY <4>1, <4>2
    <3>3. \A i \in DOMAIN gui' : Is(i, "row")' => gui'[i].run = worker_' /\ i <= n
      BY <2>1, <3>1 DEF Is, Queue
    <3>4. \A i \in DOMAIN gui' : Is(i, "quit")' => gui'[i].run <= started' /\ (i <= n => gui'[i].run # worker_')
      <4>1. \A i \in DOMAIN gui : Is(i, "quit") => gui[i].run <= started /\ gui[i].run # worker_
        <5>1. \A i \in DOMAIN gui : 1 .. i - 1 \subseteq DOMAIN gui
          BY <3>1
        <5>2. QED BY ONLY DemoInv, <2>2, <5>1 DEF DemoInv, Queue
      <4> SUFFICES ASSUME NEW i \in DOMAIN gui', gui'[i].is = "quit"
                   PROVE  gui'[i].run <= started' /\ (i <= n => gui'[i].run # worker_')
        BY DEF Is
      <4>2. CASE i \in DOMAIN gui
        BY <2>1, <3>1, <4>1, <4>2 DEF Is
      <4>3. CASE i \notin DOMAIN gui
        <5>1. i = n + 2
          BY <3>1, <4>3
        <5>2. QED BY <2>1, <3>1, <5>1
      <4>4. QED BY <4>2, <4>3
    <3>5. worker_' # 0 /\ ~ Active(worker_)'
      BY <2>1, <2>4
    <3>6. \A i \in DOMAIN gui' : i \in 1 .. n + 2
      BY <3>1
    <3>7. Is(n + 1, "finished")' /\ n \in Nat
      BY <3>1 DEF Is
    <3>8. ASSUME NEW i \in DOMAIN gui', Is(i, "quit")', gui'[i].run = worker_'
          PROVE  \E j \in 1 .. i - 1 : Is(j, "finished")'
      <4>1. n + 1 \in 1 .. i - 1
        <5>1. i # n + 1 /\ i > n
          BY ONLY <3>1, <3>4, <3>7, <3>8, n \in Nat DEF Is
        <5>2. i \in 1 .. n + 2
          BY ONLY <3>1, i \in DOMAIN gui'
        <5>3. QED BY ONLY <5>1, <5>2, n \in Nat
      <4>2. QED BY <3>7, <4>1
    <3>9. QED BY <3>2, <3>3, <3>4, <3>5, <3>8, <3>1, <3>7 DEF Queue
  <2>5. QED BY <1>4, <2>3, <2>4, PostEffect
<1>5. ASSUME NEW r \in Runs, Moves(r) PROVE Queue'
  <2>1. UNCHANGED <<worker_, started, gui>>
    BY <1>5, MoveEffect
  <2>2. worker_ # 0 /\ ~ Active(worker_) => ~ Active(worker_)'
    BY <1>5, <2>1, MoveEffect DEF Stays, Advances, Ends, Runs
  <2>3. QED BY <2>1, <2>2 DEF Queue, Is
<1>6. ASSUME NEW w \in LocalWorkers, ProcessEnds(w) PROVE Queue'
  BY <1>6 DEF ProcessEnds, Queue, Is
<1>7. QED BY <1>1, <1>2, <1>3, <1>4, <1>5, <1>6, Steps

-----------------------------------------------------------------------------
LEMMA DemoInvariance == DemoSpec => []DemoInv
<1>1. DemoInv /\ [DemoNext]_demoVars => DemoInv'
  BY TypesKept, PointerKept, HeldKept, QueueKept, QuitsKept, ShownKept DEF DemoInv
<1>2. QED BY <1>1, InitInv, PTL DEF DemoSpec

\* For any number of tasks, workers and runs: a window that offers to start
\* again has no process and no kernel of an earlier run behind it.
THEOREM RunLeavesNothing == DemoSpec => []NothingIsLeftOver
<1>1. DemoInv => NothingIsLeftOver
  <2> SUFFICES ASSUME DemoInv PROVE NothingIsLeftOver
    OBVIOUS
  <2>1. \A t \in TaskIds : task_rows_[t].run \in {0, started}
    BY DEF DemoInv, Shown
  <2>2. ASSUME window = "closed" \/ (window = "open" /\ worker_ = 0)
        PROVE  \A r \in Runs : ~ Active(r) /\ r # 0
    BY <2>2 DEF DemoInv, Pointer, Quits, Ended, Active, Runs
  <2>3. ASSUME window = "closed" \/ (window = "open" /\ worker_ = 0)
        PROVE  \A w \in LocalWorkers : process[w] # "running"
    BY <2>2, <2>3, Sorts DEF DemoInv, ProcessesHeld, Holding, Active
  <2>4. QED BY <2>1, <2>2, <2>3 DEF NothingIsLeftOver, DemoInv, Active
<1>2. QED BY <1>1, DemoInvariance, PTL

\* However the window's clicks and the thread's events interleave, the window
\* never holds a pointer to a worker that was deleted.
THEOREM PointerIsValid == DemoSpec => []WorkerOutlivesPointer
<1>1. DemoInv => WorkerOutlivesPointer
  BY DEF DemoInv, Quits, WorkerOutlivesPointer
<1>2. QED BY <1>1, DemoInvariance, PTL
=============================================================================
