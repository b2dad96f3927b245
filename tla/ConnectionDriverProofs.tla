----------------------- MODULE ConnectionDriverProofs -----------------------
(***************************************************************************)
(* Theorems about ConnectionDriver, for any set of calls, any setting of   *)
(* the configuration and any number of Starts: the inductive invariant and *)
(* what follows from it, the moves of the connection state, and that the   *)
(* driver implements CallService.                                          *)
(***************************************************************************)
EXTENDS ConnectionDriver, TLAPS

-----------------------------------------------------------------------------
(* What the queue operations do to the set of elements of a queue.         *)

LEMMA ElementsEmpty ==
    /\ Elements(<<>>) = {}
    /\ \A S : <<>> \in Seq(S)
BY DEF Elements

LEMMA ElementsAppend ==
    ASSUME NEW S, NEW s \in Seq(S), NEW e \in S
    PROVE  /\ Append(s, e) \in Seq(S)
           /\ Elements(Append(s, e)) = Elements(s) \cup {e}
<1>1. /\ Append(s, e) \in Seq(S)
      /\ DOMAIN Append(s, e) = 1 .. Len(s) + 1
      /\ DOMAIN s = 1 .. Len(s)
      /\ Len(s) \in Nat
      /\ Append(s, e)[Len(s) + 1] = e
      /\ \A i \in 1 .. Len(s) : Append(s, e)[i] = s[i]
  OBVIOUS
<1>2. ASSUME NEW x \in Elements(s) PROVE x \in Elements(Append(s, e))
  BY <1>1 DEF Elements
<1>3. e \in Elements(Append(s, e))
  BY <1>1 DEF Elements
<1>4. ASSUME NEW x \in Elements(Append(s, e)) PROVE x \in Elements(s) \cup {e}
  <2>1. PICK i \in 1 .. Len(s) + 1 : x = Append(s, e)[i]
    BY <1>1 DEF Elements
  <2>2. CASE i = Len(s) + 1
    BY <1>1, <2>1, <2>2
  <2>3. CASE i \in 1 .. Len(s)
    BY <1>1, <2>1, <2>3 DEF Elements
  <2>4. QED BY <1>1, <2>2, <2>3
<1>5. QED BY <1>1, <1>2, <1>3, <1>4

LEMMA ElementsTail ==
    ASSUME NEW S, NEW s \in Seq(S), s # <<>>
    PROVE  /\ Head(s) \in S
           /\ Tail(s) \in Seq(S)
           /\ Elements(s) = {Head(s)} \cup Elements(Tail(s))
<1>1. /\ Head(s) \in S
      /\ Tail(s) \in Seq(S)
      /\ Len(s) \in Nat
      /\ Len(s) > 0
      /\ DOMAIN s = 1 .. Len(s)
      /\ DOMAIN Tail(s) = 1 .. Len(s) - 1
      /\ Head(s) = s[1]
      /\ \A i \in 1 .. Len(s) - 1 : Tail(s)[i] = s[i + 1]
  OBVIOUS
<1>2. ASSUME NEW x \in Elements(s) PROVE x \in {Head(s)} \cup Elements(Tail(s))
  <2>1. PICK i \in 1 .. Len(s) : x = s[i]
    BY <1>1 DEF Elements
  <2>2. CASE i = 1
    BY <1>1, <2>1, <2>2
  <2>3. CASE i # 1
    <3>1. i - 1 \in 1 .. Len(s) - 1 /\ Tail(s)[i - 1] = s[i]
      BY <1>1, <2>3
    <3>2. QED BY <1>1, <2>1, <3>1 DEF Elements
  <2>4. QED BY <2>2, <2>3
<1>3. ASSUME NEW x \in {Head(s)} \cup Elements(Tail(s)) PROVE x \in Elements(s)
  <2>1. CASE x = Head(s)
    <3>1. 1 \in DOMAIN s
      BY <1>1
    <3>2. QED BY <1>1, <2>1, <3>1 DEF Elements
  <2>2. CASE x \in Elements(Tail(s))
    <3>1. PICK i \in 1 .. Len(s) - 1 : x = Tail(s)[i]
      BY <1>1, <2>2 DEF Elements
    <3>2. i + 1 \in DOMAIN s /\ x = s[i + 1]
      BY <1>1, <3>1
    <3>3. QED BY <3>2 DEF Elements
  <2>3. QED BY <1>3, <2>1, <2>2
<1>4. QED BY <1>1, <1>2, <1>3

-----------------------------------------------------------------------------
(* Type correctness.                                                       *)

LEMMA TypeInit == Init => TypeOK
<1> SUFFICES ASSUME Init PROVE TypeOK
  OBVIOUS
<1>1. <<>> \in Seq(Calls)
  BY ElementsEmpty
<1>2. 0 \in 0 .. FlushAttempts - 1
  BY ConnectionDriverAssumption
<1>3. NoChange \in Change
  BY DEF NoChange, Change, States
<1>4. kind \in [Calls -> Kinds] /\ status \in [Calls -> {"new", "checked", "waiting"} \cup Results]
  BY DEF Init, Kinds
<1>5. QED
  BY <1>1, <1>2, <1>3, <1>4 DEF Init, TypeOK, States

\* EnqueueCommand appends the call or refuses it.
LEMMA EnqueueType ==
    ASSUME TypeOK, NEW c \in Calls, EnqueueCommand(c)
    PROVE  /\ commands' \in Seq(Calls)
           /\ status' \in [Calls -> {"new", "checked", "waiting"} \cup Results]
<1>1. commands' = Append(commands, c) \/ commands' = commands
  BY DEF EnqueueCommand
<1>2. commands \in Seq(Calls)
  BY DEF TypeOK
<1>3. commands' \in Seq(Calls)
  BY <1>1, <1>2, ElementsAppend
<1>4. status' \in [Calls -> {"new", "checked", "waiting"} \cup Results]
  BY DEF EnqueueCommand, TypeOK, Results
<1>5. QED BY <1>3, <1>4

LEMMA TypeCaller ==
    ASSUME TypeOK, NEW c \in Calls, Caller(c)
    PROVE  TypeOK'
<1>1. ASSUME NEW k \in Operations, InvokeDirect(c, k) PROVE TypeOK'
  <2>1. /\ kind' \in [Calls -> Kinds]
        /\ UNCHANGED <<joinable, stop_requested, state, ctl, thread, link, replies, events>>
        /\ EnqueueCommand(c)
    BY <1>1, OperationsAssumption DEF InvokeDirect, TypeOK
  <2>2. QED
    BY <2>1, EnqueueType DEF TypeOK, ctl, thread, link, replies, events
<1>2. ASSUME NEW k \in Operations, InvokeChecked(c, k) PROVE TypeOK'
  BY <1>2, OperationsAssumption DEF InvokeChecked, TypeOK, Results, shared, ctl, thread, link, replies, events
<1>3. ASSUME EnqueueChecked(c) PROVE TypeOK'
  <2>1. /\ UNCHANGED <<kind, joinable, stop_requested, state, ctl, thread, link, replies, events>>
        /\ EnqueueCommand(c)
    BY <1>3 DEF EnqueueChecked
  <2>2. QED
    BY <2>1, EnqueueType DEF TypeOK, ctl, thread, link, replies, events
<1>4. ASSUME CallerTimeout(c) PROVE TypeOK'
  BY <1>4 DEF CallerTimeout, TypeOK, Results, shared, ctl, thread, link, replies, events
<1>5. QED BY <1>1, <1>2, <1>3, <1>4 DEF Caller

LEMMA TypeController == ASSUME TypeOK, Controller PROVE TypeOK'
<1>a. /\ NoChange \in Change
      /\ \A s \in States : StateChange(s) \in Change
      /\ {"Connecting", "Stopped"} \subseteq States
  BY DEF TypeOK, NoChange, StateChange, Change, States
<1>b. 0 \in 0 .. FlushAttempts - 1
  BY ConnectionDriverAssumption
<1> USE <1>a, <1>b DEF TypeOK, shared, callers, ctl, thread, link, replies, events
<1>1. CASE Start
  <2>1. joinable' \in BOOLEAN /\ stop_requested' \in BOOLEAN /\ final' \in BOOLEAN
    BY <1>1 DEF Start
  <2>2. state' \in States /\ control_event' \in Change
    BY <1>1 DEF Start
  <2>3. runs' \in Nat /\ flush_attempt' \in 0 .. FlushAttempts - 1
    BY <1>1 DEF Start
  <2>4. /\ control' = "starting"
        /\ pc' = "spawned"
        /\ UNCHANGED <<config, commands, callers, batch, link, replies, events>>
    BY <1>1 DEF Start
  <2>5. QED BY <2>1, <2>2, <2>3, <2>4
<1>2. CASE StopRequest
  BY <1>2 DEF StopRequest
<1>3. CASE StopJoin
  <2>1. /\ joinable' \in BOOLEAN
        /\ state' \in States
        /\ control_event' \in Change
        /\ control' = "stopped"
        /\ UNCHANGED <<stop_requested, commands, callers, runs, config, thread, link, replies, events>>
    BY <1>3 DEF StopJoin
  <2>2. QED BY <2>1
<1>4. CASE ControlEmit
  <2>1. control_event.current \in States
    BY DEF Change
  <2>2. observed' \in States
    BY <1>4, <2>1 DEF ControlEmit
  <2>3. /\ control_event' = NoChange
        /\ control' = "idle"
        /\ UNCHANGED <<shared, callers, runs, config, thread, link, replies, driver_event>>
    BY <1>4 DEF ControlEmit
  <2>4. QED BY <2>2, <2>3
<1>5. QED BY <1>1, <1>2, <1>3, <1>4 DEF Controller

\* Answer leaves status a function into the same set.
LEMMA TypeAnswer ==
    ASSUME TypeOK, NEW S, NEW r \in Results, Answer(S, r)
    PROVE  status' \in [Calls -> {"new", "checked", "waiting"} \cup Results]
BY DEF Answer, TypeOK

LEMMA TypeRunCommand == ASSUME TypeOK, RunCommand PROVE TypeOK'
<1>1. /\ batch # <<>>
      /\ Pop
  BY DEF RunCommand, RunUnready, RunRejected, RunPublish, RunCompletion, RunPublishConfirmed, RunDeclare, AtCommand
<1>2. Head(batch) \in Calls /\ batch' \in Seq(Calls)
  BY <1>1, ElementsTail DEF Pop, TypeOK
<1>3. pending_disconnect' \in BOOLEAN
  BY <1>1 DEF Pop, Flush, TypeOK
<1>4. status' \in [Calls -> {"new", "checked", "waiting"} \cup Results]
  <2>1. {"Ok", "Disconnected", "OperationFailed", "NotSupported"} \subseteq Results
    BY DEF Results
  <2>2. \/ UNCHANGED status
        \/ \E r \in {"Ok", "Disconnected", "OperationFailed", "NotSupported"} :
               Answer({Head(batch)}, r)
    BY DEF RunCommand, RunUnready, RunRejected, RunPublish, RunCompletion, RunPublishConfirmed, RunDeclare
  <2>3. QED BY <2>1, <2>2, TypeAnswer DEF TypeOK
<1>5. awaiting' \in Seq(Calls) /\ confirming' \subseteq Calls
  <2>1. /\ awaiting' = awaiting \/ awaiting' = Append(awaiting, Head(batch))
        /\ confirming' \subseteq confirming \cup {Head(batch)}
    BY DEF RunCommand, RunUnready, RunRejected, RunPublish, RunCompletion, RunPublishConfirmed, RunDeclare, replies
  <2>2. awaiting \in Seq(Calls) /\ confirming \subseteq Calls
    BY DEF TypeOK
  <2>3. QED BY <1>2, <2>1, <2>2, ElementsAppend
<1>6. QED
  BY <1>1, <1>2, <1>3, <1>4, <1>5 DEF Pop, TypeOK, shared, ctl, events

LEMMA TypeDriver == ASSUME TypeOK, Driver PROVE TypeOK'
<1> USE DEF TypeOK, shared, callers, ctl, thread, link, replies, events,
            States, Change, NoChange, StateChange, Lost
<1>1. CASE DriverEmit
  BY <1>1 DEF DriverEmit
<1>2. CASE ThreadStart
  BY <1>2 DEF ThreadStart
<1>3. CASE LoopTop
  BY <1>3 DEF LoopTop
<1>4. CASE DrainSwap
  BY <1>4 DEF DrainSwap
<1>5. CASE RunCommand
  BY <1>5, TypeRunCommand
<1>6. CASE DrainDone
  BY <1>6 DEF DrainDone
<1>7. CASE FlushAgain
  BY <1>7, ConnectionDriverAssumption DEF FlushAgain
<1>8. CASE FlushDone
  BY <1>8 DEF FlushDone
<1>9. CASE DialLater \/ Dial
  BY <1>9 DEF DialLater, Dial
<1>10. CASE DialFailed
  BY <1>10 DEF DialFailed
<1>11. CASE DialConnected
  <2>1. /\ connected' \in BOOLEAN /\ ready' \in BOOLEAN /\ pending_disconnect' \in BOOLEAN
        /\ boot' = "handshake" /\ publisher_confirms_ready' \in BOOLEAN /\ confirming' = {}
        /\ state' = "Connecting" /\ driver_event' = StateChange("Connecting") /\ pc' = "top"
        /\ UNCHANGED <<joinable, stop_requested, commands, callers, ctl, final, flush_attempt,
                       batch, awaiting, observed>>
    BY <1>11 DEF DialConnected
  <2>2. driver_event' \in Change
    BY <2>1
  <2>3. QED BY <2>1, <2>2
<1>12. CASE PumpDone
  BY <1>12 DEF PumpDone
<1>13. CASE Teardown
  <2>1. status' \in [Calls -> {"new", "checked", "waiting"} \cup Results]
    BY <1>13 DEF Teardown, Results
  <2>2. /\ confirming' = {} /\ awaiting' = <<>> /\ connected' \in BOOLEAN /\ boot' = "none"
        /\ publisher_confirms_ready' \in BOOLEAN /\ ready' \in BOOLEAN /\ pending_disconnect' \in BOOLEAN
        /\ pc' = "settle"
        /\ UNCHANGED <<shared, kind, ctl, final, flush_attempt, batch, events>>
    BY <1>13 DEF Teardown
  <2>3. awaiting' \in Seq(Calls)
    BY <2>2, ElementsEmpty
  <2>4. QED BY <2>1, <2>2, <2>3
<1>14. CASE Settle
  BY <1>14 DEF Settle
<1>15. QED
  BY <1>1, <1>2, <1>3, <1>4, <1>5, <1>6, <1>7, <1>8, <1>9, <1>10, <1>11, <1>12, <1>13, <1>14
  DEF Driver

LEMMA TypeBroker == ASSUME TypeOK, Broker PROVE TypeOK'
<1>0. {"Ok", "OperationFailed"} \subseteq Results
  BY DEF Results
<1> USE DEF TypeOK, pumping, ctl, thread, link, replies, events, States, Change, StateChange
<1>1. CASE Handshake
  BY <1>1 DEF Handshake
<1>2. CASE ConfirmSelected
  BY <1>2 DEF ConfirmSelected
<1>3. CASE TopologyRebuilt
  BY <1>3 DEF TopologyRebuilt
<1>4. CASE BootstrapFailed
  BY <1>4 DEF BootstrapFailed
<1>5. CASE Declared
  <2>1. status' \in [Calls -> {"new", "checked", "waiting"} \cup Results]
    BY <1>5, <1>0, TypeAnswer DEF Declared
  <2>2. awaiting' \in Seq(Calls)
    BY <1>5, ElementsTail DEF Declared
  <2>3. QED BY <1>5, <2>1, <2>2 DEF Declared
<1>6. CASE DeclareRefused
  <2>1. status' \in [Calls -> {"new", "checked", "waiting"} \cup Results]
    BY <1>6, <1>0, TypeAnswer DEF DeclareRefused
  <2>2. QED BY <1>6, <2>1 DEF DeclareRefused
<1>7. CASE LinkFault
  <2>1. status' \in [Calls -> {"new", "checked", "waiting"} \cup Results]
    BY <1>7, <1>0, TypeAnswer DEF LinkFault
  <2>2. boot' \in {"none", "handshake", "confirms", "topology", "done", "failed"}
    BY <1>7 DEF LinkFault
  <2>3. awaiting' \in Seq(Calls)
    BY <1>7, ElementsEmpty DEF LinkFault
  <2>4. /\ UNCHANGED <<pumping, state, connected, publisher_confirms_ready, ready, confirming, events>>
        /\ pending_disconnect' \in BOOLEAN
    BY <1>7 DEF LinkFault
  <2>5. QED BY <2>1, <2>2, <2>3, <2>4
<1>8. CASE \E S \in SUBSET Calls : Confirmed(S)
  <2>1. PICK S \in SUBSET Calls : Confirmed(S)
    BY <1>8
  <2>2. status' \in [Calls -> {"new", "checked", "waiting"} \cup Results]
    BY <2>1, <1>0, TypeAnswer DEF Confirmed
  <2>3. QED BY <2>1, <2>2 DEF Confirmed
<1>9. QED BY <1>1, <1>2, <1>3, <1>4, <1>5, <1>6, <1>7, <1>8 DEF Broker

LEMMA TypeNext == TypeOK /\ [Next]_vars => TypeOK'
<1> SUFFICES ASSUME TypeOK, [Next]_vars PROVE TypeOK'
  OBVIOUS
<1>1. CASE UNCHANGED vars
  BY <1>1 DEF vars, shared, callers, ctl, thread, link, replies, events, TypeOK
<1>2. QED BY <1>1, TypeCaller, TypeController, TypeDriver, TypeBroker DEF Next

\* Every variable of the driver keeps its type.
THEOREM TypeCorrect == Spec => []TypeOK
BY TypeInit, TypeNext, PTL DEF Spec

-----------------------------------------------------------------------------
(* The inductive invariant.  LinkInv says where a reply can be outstanding *)
(* and that no blocked caller is forgotten.  ShutdownInv follows the last  *)
(* look at the command queue: once the thread has seen the request to stop *)
(* nothing is appended any more, so what it drains then is everything.     *)

LinkInv ==
    /\ NoOrphanedCall
    /\ RepliesBelongToConnection
    /\ pc \in {"off", "spawned", "dial", "dialing", "settle"} => ~connected

ShutdownInv ==
    /\ pc # "run" => batch = <<>>
    /\ final => stop_requested /\ pc \in {"drain", "run", "teardown", "settle", "off"}
    /\ final /\ pc # "drain" => commands = <<>>
    /\ ~joinable => pc = "off"
    /\ ~SocketInitMayFail => /\ pc = "off" /\ joinable => final
                             /\ ~joinable => commands = <<>>

IInv == TypeOK /\ LinkInv /\ ShutdownInv

LEMMA InvInit == Init => IInv
<1> SUFFICES ASSUME Init PROVE LinkInv /\ ShutdownInv
  BY TypeInit DEF IInv
<1>1. \A c \in Calls : status[c] = "new"
  BY DEF Init
<1>2. awaiting = <<>> /\ confirming = {} /\ pc = "off" /\ ~connected
  BY DEF Init
<1>3. LinkInv
  BY <1>1, <1>2 DEF LinkInv, NoOrphanedCall, RepliesBelongToConnection
<1>4. ShutdownInv
  BY DEF Init, ShutdownInv
<1>5. QED BY <1>3, <1>4

\* A step orphans nobody if whoever is blocked after it was blocked before or
\* is held now, and whoever stays blocked stays held.
LEMMA NobodyOrphaned ==
    ASSUME NoOrphanedCall,
           \A c \in Calls : status'[c] = "waiting" => status[c] = "waiting" \/ c \in Held',
           \A c \in Held : c \in Held' \/ status'[c] # "waiting"
    PROVE  NoOrphanedCall'
BY DEF NoOrphanedCall

\* Only the calls in S are answered, and they are no longer blocked.
LEMMA AnswerReleases ==
    ASSUME TypeOK, NEW S, NEW r \in Results, Answer(S, r)
    PROVE  /\ \A c \in Calls : status'[c] = "waiting" => status[c] = "waiting"
           /\ \A c \in Calls \cap S : status'[c] # "waiting"
BY DEF Answer, Results

\* What the driver holds are calls.
LEMMA HeldAreCalls == ASSUME TypeOK PROVE Held \subseteq Calls
<1>1. \A s \in Seq(Calls) : Elements(s) \subseteq Calls
  BY DEF Elements
<1>2. QED BY <1>1 DEF TypeOK, Held

-----------------------------------------------------------------------------
(* NoOrphanedCall and what goes with it.                                   *)

LEMMA LinkCaller ==
    ASSUME TypeOK, LinkInv, NEW c \in Calls, Caller(c)
    PROVE  LinkInv'
<1>1. /\ UNCHANGED <<thread, link, replies>>
      /\ \/ UNCHANGED commands
         \/ commands' = Append(commands, c)
      /\ \A d \in Calls : status'[d] = "waiting" => \/ status[d] = "waiting"
                                                    \/ d = c /\ commands' = Append(commands, c)
  <2>1. ASSUME NEW k \in Operations, InvokeDirect(c, k) PROVE <1>1!:
    BY <2>1 DEF InvokeDirect, EnqueueCommand, TypeOK
  <2>2. ASSUME NEW k \in Operations, InvokeChecked(c, k) PROVE <1>1!:
    BY <2>2 DEF InvokeChecked, TypeOK, shared
  <2>3. CASE EnqueueChecked(c)
    BY <2>3 DEF EnqueueChecked, EnqueueCommand, TypeOK
  <2>4. CASE CallerTimeout(c)
    BY <2>4 DEF CallerTimeout, TypeOK, shared
  <2>5. QED BY <2>1, <2>2, <2>3, <2>4 DEF Caller
<1>2. /\ Elements(commands) \subseteq Elements(commands')
      /\ commands' = Append(commands, c) => c \in Elements(commands')
  <2>1. Elements(Append(commands, c)) = Elements(commands) \cup {c}
    BY ElementsAppend DEF TypeOK
  <2>2. QED BY <1>1, <2>1
<1>3. /\ Held \subseteq Held'
      /\ commands' = Append(commands, c) => c \in Held'
  BY <1>1, <1>2 DEF Held, thread, replies
<1>4. NoOrphanedCall'
  BY <1>1, <1>3, NobodyOrphaned DEF LinkInv
<1>5. QED BY <1>1, <1>4 DEF LinkInv, RepliesBelongToConnection, thread, link, replies

\* Nothing that the link invariant is about changes.
LEMMA LinkFrame ==
    ASSUME LinkInv, UNCHANGED <<commands, status, batch, awaiting, confirming, connected, ready>>,
           pc' \in {"off", "spawned", "dial", "dialing", "settle"} =>
               pc \in {"off", "spawned", "dial", "dialing", "settle"} \/ ~connected
    PROVE  LinkInv'
BY DEF LinkInv, NoOrphanedCall, RepliesBelongToConnection, Held

LEMMA LinkController == ASSUME TypeOK, LinkInv, ShutdownInv, Controller PROVE LinkInv'
<1> USE LinkFrame DEF shared, callers, thread, link, replies
<1>1. CASE Start
  <2>1. pc = "off"
    BY <1>1 DEF Start, ShutdownInv
  <2>2. QED BY <1>1, <2>1 DEF Start
<1>2. CASE StopRequest
  BY <1>2 DEF StopRequest
<1>3. CASE StopJoin
  BY <1>3 DEF StopJoin
<1>4. CASE ControlEmit
  BY <1>4 DEF ControlEmit
<1>5. QED BY <1>1, <1>2, <1>3, <1>4 DEF Controller

LEMMA LinkRunCommand == ASSUME TypeOK, LinkInv, RunCommand PROVE LinkInv'
<1> DEFINE h == Head(batch)
<1>1. /\ batch # <<>>
      /\ Pop
      /\ UNCHANGED commands
  BY DEF RunCommand, RunUnready, RunRejected, RunPublish, RunCompletion, RunPublishConfirmed, RunDeclare, AtCommand, Pop, shared
<1>2. /\ h \in Calls
      /\ Elements(batch) = {h} \cup Elements(batch')
  BY <1>1, ElementsTail DEF Pop, TypeOK
<1>3. /\ \A c \in Calls : status'[c] = "waiting" => status[c] = "waiting"
      /\ Elements(awaiting) \subseteq Elements(awaiting')
      /\ confirming \subseteq confirming'
      /\ \/ status'[h] # "waiting"
         \/ h \in Elements(awaiting') \cup confirming'
  <2>a. {"Ok", "Disconnected", "OperationFailed", "NotSupported"} \subseteq Results
    BY DEF Results
  <2>1. CASE RunUnready
    BY <1>2, <2>a, <2>1, AnswerReleases DEF RunUnready, replies
  <2>2. CASE RunRejected
    BY <1>2, <2>a, <2>2, AnswerReleases DEF RunRejected, replies
  <2>3. CASE RunPublish
    BY <1>2, <2>a, <2>3, AnswerReleases DEF RunPublish, RunCompletion, replies
  <2>3a. CASE RunCompletion
    BY <1>2, <2>a, <2>3a, AnswerReleases DEF RunCompletion, replies
  <2>4. CASE RunPublishConfirmed
    BY <1>2, <2>a, <2>4, AnswerReleases DEF RunPublishConfirmed
  <2>5. CASE RunDeclare
    <3>1. /\ awaiting' = Append(awaiting, h)
          /\ UNCHANGED <<status, confirming>>
      BY <2>5 DEF RunDeclare
    <3>2. Elements(awaiting') = Elements(awaiting) \cup {h}
      BY <1>2, <3>1, ElementsAppend DEF TypeOK
    <3>3. QED BY <3>1, <3>2
  <2>6. QED BY <2>1, <2>2, <2>3, <2>3a, <2>4, <2>5 DEF RunCommand
<1>4. \A c \in Held : c \in Held' \/ (c = h /\ status'[c] # "waiting")
  <2>1. ASSUME NEW c \in Elements(commands) PROVE c \in Held'
    BY <1>1, <2>1 DEF Held
  <2>2. ASSUME NEW c \in Elements(batch) PROVE c \in Held' \/ c = h
    BY <1>2, <2>2 DEF Held
  <2>3. ASSUME NEW c \in Elements(awaiting) \cup confirming PROVE c \in Held'
    BY <1>3, <2>3 DEF Held
  <2>4. h \in Held' \/ status'[h] # "waiting"
    BY <1>3 DEF Held
  <2>5. Held = Elements(commands) \cup Elements(batch) \cup Elements(awaiting) \cup confirming
    BY DEF Held
  <2>6. QED BY <2>1, <2>2, <2>3, <2>4, <2>5
<1>5. NoOrphanedCall'
  BY <1>3, <1>4, NobodyOrphaned DEF LinkInv
<1>6. RepliesBelongToConnection'
  <2>1. CASE IsReady
    BY <1>1, <2>1 DEF Pop, IsReady, RepliesBelongToConnection
  <2>2. CASE ~IsReady
    <3>1. UNCHANGED <<awaiting, confirming, connected, ready>>
      BY <1>1, <2>2 DEF RunCommand, RunUnready, RunRejected, RunPublish, RunCompletion, RunPublishConfirmed, RunDeclare, Pop, replies
    <3>2. QED BY <3>1 DEF LinkInv, RepliesBelongToConnection
  <2>3. QED BY <2>1, <2>2
<1>7. UNCHANGED <<pc, connected>>
  BY <1>1 DEF Pop
<1>8. QED BY <1>5, <1>6, <1>7 DEF LinkInv

LEMMA LinkDriver == ASSUME TypeOK, LinkInv, ShutdownInv, Driver PROVE LinkInv'
<1> USE DEF shared, callers, ctl, thread, link, replies, events
<1>1. CASE DriverEmit
  BY <1>1, LinkFrame DEF DriverEmit
<1>2. CASE ThreadStart
  BY <1>2, LinkFrame DEF ThreadStart, At
<1>3. CASE LoopTop
  BY <1>3, LinkFrame DEF LoopTop
<1>4. CASE DrainSwap
  <2>1. /\ batch' = commands
        /\ commands' = <<>>
        /\ pc' = "run"
        /\ UNCHANGED <<status, awaiting, confirming, connected, ready>>
    BY <1>4 DEF DrainSwap
  <2>2. batch = <<>>
    BY <1>4 DEF DrainSwap, At, ShutdownInv
  <2>3. Held' = Held
    BY <2>1, <2>2, ElementsEmpty DEF Held
  <2>4. QED BY <2>1, <2>3 DEF LinkInv, NoOrphanedCall, RepliesBelongToConnection
<1>5. CASE RunCommand
  BY <1>5, LinkRunCommand
<1>6. CASE DrainDone
  BY <1>6, LinkFrame DEF DrainDone
<1>7. CASE FlushAgain
  BY <1>7, LinkFrame DEF FlushAgain
<1>8. CASE FlushDone
  BY <1>8, LinkFrame DEF FlushDone
<1>9. CASE DialLater \/ Dial
  <2>1. CASE DialLater
    BY <2>1, LinkFrame DEF DialLater
  <2>2. CASE Dial
    <3>1. UNCHANGED <<commands, status, batch, awaiting, confirming, connected, ready>> /\ pc = "dial"
      BY <2>2 DEF Dial, At
    <3>2. QED BY <3>1, LinkFrame
  <2>3. QED BY <1>9, <2>1, <2>2
<1>10. CASE DialFailed
  BY <1>10, LinkFrame DEF DialFailed
<1>11. CASE DialConnected
  <2>1. /\ confirming' = {}
        /\ pc' = "top"
        /\ UNCHANGED <<commands, status, batch, awaiting>>
    BY <1>11 DEF DialConnected
  <2>2. awaiting = <<>> /\ confirming = {}
    BY <1>11 DEF DialConnected, At, LinkInv, RepliesBelongToConnection
  <2>3. Held' = Held
    BY <2>1, <2>2 DEF Held
  <2>4. QED BY <2>1, <2>2, <2>3 DEF LinkInv, NoOrphanedCall, RepliesBelongToConnection
<1>12. CASE PumpDone
  BY <1>12, LinkFrame DEF PumpDone
<1>13. CASE Teardown
  <2>1. /\ confirming' = {}
        /\ awaiting' = <<>>
        /\ ~connected'
        /\ UNCHANGED <<commands, batch>>
        /\ \A c \in Calls : status'[c] = "waiting" =>
               status[c] = "waiting" /\ c \notin confirming /\ c \notin Elements(awaiting)
    BY <1>13 DEF Teardown
  <2>2. \A c \in Held : c \in Held' \/ status'[c] # "waiting"
    BY <2>1, HeldAreCalls DEF Held
  <2>3. NoOrphanedCall'
    BY <2>1, <2>2, NobodyOrphaned DEF LinkInv
  <2>4. QED BY <2>1, <2>3 DEF LinkInv, RepliesBelongToConnection
<1>14. CASE Settle
  BY <1>14, LinkFrame DEF Settle, At
<1>15. QED
  BY <1>1, <1>2, <1>3, <1>4, <1>5, <1>6, <1>7, <1>8, <1>9, <1>10, <1>11, <1>12, <1>13, <1>14
  DEF Driver

\* The broker's frames answer calls, and only while the link is up.
LEMMA LinkBroker == ASSUME TypeOK, LinkInv, Broker PROVE LinkInv'
<1>0. {"Ok", "OperationFailed"} \subseteq Results
  BY DEF Results
<1>1. pc = "pump" /\ UNCHANGED <<commands, batch, pc, connected>>
  BY DEF Broker, Handshake, ConfirmSelected, TopologyRebuilt, BootstrapFailed, Declared, DeclareRefused,
         LinkFault, Confirmed, At, pumping, thread, link
<1>2. CASE Handshake \/ ConfirmSelected \/ BootstrapFailed
  BY <1>1, <1>2, LinkFrame DEF Handshake, ConfirmSelected, BootstrapFailed, replies
<1>3. CASE TopologyRebuilt
  <2>1. /\ ready' = TRUE
        /\ UNCHANGED <<status, awaiting, confirming>>
    BY <1>3 DEF TopologyRebuilt, replies
  <2>2. Held' = Held
    BY <1>1, <2>1 DEF Held
  <2>3. QED BY <1>1, <2>1, <2>2 DEF LinkInv, NoOrphanedCall, RepliesBelongToConnection
<1>4. ASSUME NEW S, NEW r \in Results, Answer(S, r),
             Held \ Held' \subseteq S,
             awaiting' = <<>> \/ awaiting # <<>>,
             confirming' \subseteq confirming,
             UNCHANGED ready
      PROVE  LinkInv'
  <2>1. /\ \A c \in Calls : status'[c] = "waiting" => status[c] = "waiting"
        /\ \A c \in Calls \cap S : status'[c] # "waiting"
    BY <1>4, AnswerReleases
  <2>2. \A c \in Held : c \in Held' \/ status'[c] # "waiting"
    BY <1>4, <2>1, HeldAreCalls
  <2>3. NoOrphanedCall'
    BY <2>1, <2>2, NobodyOrphaned DEF LinkInv
  <2>4. QED BY <1>1, <1>4, <2>3 DEF LinkInv, RepliesBelongToConnection
<1>5. CASE Declared
  <2>1. Elements(awaiting) = {Head(awaiting)} \cup Elements(awaiting')
    BY <1>5, ElementsTail DEF Declared, TypeOK
  <2>2. /\ UNCHANGED confirming
        /\ UNCHANGED ready
        /\ awaiting # <<>>
        /\ Answer({Head(awaiting)}, "Ok")
    BY <1>5 DEF Declared, link
  <2>3. Held \ Held' \subseteq {Head(awaiting)}
    BY <1>1, <2>1, <2>2 DEF Held
  <2>4. QED BY <1>0, <1>4, <2>2, <2>3
<1>6. CASE DeclareRefused
  <2>1. /\ UNCHANGED <<confirming, ready>>
        /\ awaiting' = <<>>
        /\ Answer(Elements(awaiting), "OperationFailed")
    BY <1>6 DEF DeclareRefused
  <2>2. Held \ Held' \subseteq Elements(awaiting)
    BY <1>1, <2>1 DEF Held
  <2>3. QED BY <1>0, <1>4, <2>1, <2>2
<1>7. CASE LinkFault
  <2>1. UNCHANGED <<confirming, ready>>
    BY <1>7 DEF LinkFault
  <2>2. CASE UNCHANGED <<status, awaiting>>
    BY <1>1, <2>1, <2>2, LinkFrame
  <2>3. CASE awaiting' = <<>> /\ Answer(Elements(awaiting), "OperationFailed")
    <3>1. Held \ Held' \subseteq Elements(awaiting)
      BY <1>1, <2>1 DEF Held
    <3>2. QED BY <1>0, <1>4, <2>1, <2>3, <3>1
  <2>4. QED BY <1>7, <2>2, <2>3 DEF LinkFault
<1>8. ASSUME NEW S \in SUBSET Calls, Confirmed(S) PROVE LinkInv'
  <2>1. /\ confirming' = confirming \ S
        /\ UNCHANGED <<awaiting, ready>>
        /\ Answer(S, "Ok")
    BY <1>8 DEF Confirmed, link
  <2>2. Held \ Held' \subseteq S
    BY <1>1, <2>1 DEF Held
  <2>3. awaiting' = <<>> \/ awaiting # <<>>
    BY <2>1
  <2>4. QED BY <1>0, <1>4, <2>1, <2>2, <2>3
<1>9. QED BY <1>2, <1>3, <1>5, <1>6, <1>7, <1>8 DEF Broker

LEMMA LinkNext == IInv /\ [Next]_vars => LinkInv'
<1> SUFFICES ASSUME TypeOK, LinkInv, ShutdownInv, [Next]_vars PROVE LinkInv'
  BY DEF IInv
<1>1. CASE UNCHANGED vars
  BY <1>1, LinkFrame DEF vars, shared, callers, thread, link, replies
<1>2. QED BY <1>1, LinkCaller, LinkController, LinkDriver, LinkBroker DEF Next

-----------------------------------------------------------------------------
(* The shutdown of the driver.                                             *)

\* Nothing is appended once the stop has been requested.
LEMMA ShutdownCaller ==
    ASSUME ShutdownInv, NEW c \in Calls, Caller(c)
    PROVE  ShutdownInv'
<1>1. /\ UNCHANGED <<joinable, stop_requested, pc, final, batch>>
      /\ ~Running => UNCHANGED commands
  BY DEF Caller, InvokeDirect, InvokeChecked, EnqueueChecked, CallerTimeout, EnqueueCommand, shared, thread
<1>2. QED BY <1>1 DEF ShutdownInv, Running

LEMMA ShutdownController == ASSUME LinkInv, ShutdownInv, Controller PROVE ShutdownInv'
<1> USE DEF ShutdownInv, shared, thread
<1>1. CASE Start
  BY <1>1 DEF Start
<1>2. CASE StopRequest
  BY <1>2 DEF StopRequest
<1>3. CASE StopJoin
  BY <1>3 DEF StopJoin
<1>4. CASE ControlEmit
  BY <1>4 DEF ControlEmit
<1>5. QED BY <1>1, <1>2, <1>3, <1>4 DEF Controller

LEMMA ShutdownDriver == ASSUME TypeOK, ShutdownInv, Driver PROVE ShutdownInv'
<1> USE DEF ShutdownInv, shared, thread
<1>1. CASE DriverEmit
  BY <1>1 DEF DriverEmit
<1>2. CASE ThreadStart
  BY <1>2 DEF ThreadStart, At
<1>3. CASE LoopTop
  BY <1>3 DEF LoopTop, At
<1>4. CASE DrainSwap
  BY <1>4 DEF DrainSwap, At
<1>5. CASE RunCommand
  <2>1. pc = "run" /\ UNCHANGED <<shared, pc, final>>
    BY <1>5 DEF RunCommand, RunUnready, RunRejected, RunPublish, RunCompletion, RunPublishConfirmed, RunDeclare, AtCommand, At, Pop
  <2>2. QED BY <2>1
<1>6. CASE DrainDone
  BY <1>6 DEF DrainDone, At
<1>7. CASE FlushAgain
  BY <1>7 DEF FlushAgain, At
<1>8. CASE FlushDone
  BY <1>8 DEF FlushDone, At
<1>9. CASE DialLater \/ Dial
  BY <1>9 DEF DialLater, Dial, At
<1>10. CASE DialFailed
  BY <1>10 DEF DialFailed, At
<1>11. CASE DialConnected
  BY <1>11 DEF DialConnected, At
<1>12. CASE PumpDone
  BY <1>12 DEF PumpDone, At
<1>13. CASE Teardown
  BY <1>13 DEF Teardown, At
<1>14. CASE Settle
  BY <1>14 DEF Settle, At
<1>15. QED
  BY <1>1, <1>2, <1>3, <1>4, <1>5, <1>6, <1>7, <1>8, <1>9, <1>10, <1>11, <1>12, <1>13, <1>14
  DEF Driver

LEMMA ShutdownNext == IInv /\ [Next]_vars => ShutdownInv'
<1> SUFFICES ASSUME TypeOK, LinkInv, ShutdownInv, [Next]_vars PROVE ShutdownInv'
  BY DEF IInv
<1>1. CASE UNCHANGED vars
  BY <1>1 DEF vars, shared, thread, ShutdownInv
<1>2. CASE Broker
  <2>1. UNCHANGED <<joinable, stop_requested, commands, thread>>
    BY <1>2 DEF Broker, Handshake, ConfirmSelected, TopologyRebuilt, BootstrapFailed, Declared, DeclareRefused,
                LinkFault, Confirmed, pumping
  <2>2. QED BY <2>1 DEF thread, ShutdownInv
<1>3. QED BY <1>1, <1>2, ShutdownCaller, ShutdownController, ShutdownDriver DEF Next

-----------------------------------------------------------------------------
LEMMA Invariance == Spec => []IInv
<1>1. IInv /\ [Next]_vars => IInv'
  BY TypeNext, LinkNext, ShutdownNext DEF IInv
<1>2. QED BY InvInit, <1>1, PTL DEF Spec

\* No caller of the driver is ever blocked on a call that nobody will answer.
THEOREM NoCallIsOrphaned == Spec => []NoOrphanedCall
<1>1. IInv => NoOrphanedCall
  BY DEF IInv, LinkInv
<1>2. QED BY <1>1, Invariance, PTL

\* Replies are outstanding only on a connection that is up and rebuilt.
THEOREM RepliesStayInConnection == Spec => []RepliesBelongToConnection
<1>1. IInv => RepliesBelongToConnection
  BY DEF IInv, LinkInv
<1>2. QED BY <1>1, Invariance, PTL

\* A driver that has been stopped holds no command and blocks no caller, where
\* the socket subsystem needs no initialisation (every POSIX build).
THEOREM NothingLeftBehind == ~SocketInitMayFail => (Spec => []NoCallLeftBehind)
<1> SUFFICES ASSUME ~SocketInitMayFail PROVE Spec => []NoCallLeftBehind
  OBVIOUS
<1>1. IInv => NoCallLeftBehind
  <2> SUFFICES ASSUME IInv, ~joinable PROVE commands = <<>> /\ \A c \in Calls : status[c] # "waiting"
    BY DEF NoCallLeftBehind
  <2>1. commands = <<>> /\ batch = <<>> /\ pc = "off"
    BY DEF IInv, ShutdownInv
  <2>2. awaiting = <<>> /\ confirming = {}
    BY <2>1 DEF IInv, LinkInv, RepliesBelongToConnection
  <2>3. Held = {}
    BY <2>1, <2>2, ElementsEmpty DEF Held
  <2>4. QED BY <2>1, <2>3 DEF IInv, LinkInv, NoOrphanedCall
<1>2. QED BY <1>1, Invariance, PTL

-----------------------------------------------------------------------------
(* How the connection state moves, and what its observers have seen when   *)
(* the driver has stopped.  Both rest on the inductive invariant, which    *)
(* says where the driver thread can be and when it has a connection.       *)

\* What state_ can be, given where the thread is and what link it has.
StateInv ==
    /\ ~joinable => state \in {"Created", "Stopped"}
    /\ joinable => state # "Created"
    /\ pc = "spawned" => state = "Connecting"
    /\ pc = "dialing" => config.reconnect \/ state = "Connecting"
    /\ config.reconnect => state # "Error" \/ (SocketInitMayFail /\ pc = "off")
    /\ ~config.reconnect => state # "Reconnecting"
    /\ state = "Stopped" /\ joinable => stop_requested /\ (final \/ pc = "top")
    /\ state = "Connected" => connected \/ pc = "settle"
    /\ connected => state = IF ready THEN "Connected" ELSE "Connecting"
    /\ boot \in {"handshake", "confirms", "topology"} => connected /\ ~ready
    /\ pc = "pump" => connected
    /\ pc = "teardown" => connected \/ final
    /\ pc = "settle" => state \in {"Connecting", "Connected"} \/ final

\* What the observers know: the event that is still to be delivered ends in the
\* present state, and with none to deliver they know of a stop.  Start delivers
\* its own before Stop can be called.
ObservedInv ==
    /\ ~joinable => Silent(driver_event)
    /\ ~Silent(driver_event) => driver_event.current = state
    /\ state = "Stopped" /\ Silent(driver_event) /\ control # "stopped" => observed = "Stopped"
    /\ control = "starting" => joinable /\ ~stop_requested
    /\ joinable /\ stop_requested => control = "stopping"
    /\ control = "stopped" =>
           /\ ~joinable
           /\ state = "Stopped"
           /\ IF Silent(control_event) THEN observed = "Stopped" ELSE control_event.current = "Stopped"

StateMove == state' # state => <<state, state'>> \in StateMoves

LEMMA StatesInit == Init => StateInv /\ ObservedInv
<1> SUFFICES ASSUME Init PROVE StateInv /\ ObservedInv
  OBVIOUS
<1>1. StateInv
  BY DEF Init, StateInv
<1>2. ObservedInv
  BY DEF Init, ObservedInv, Silent, NoChange
<1>3. QED BY <1>1, <1>2

\* The state and everything it is compared with are the same.
LEMMA StatesUntouched ==
    ASSUME StateInv, UNCHANGED <<joinable, stop_requested, state, config, pc, final, connected, boot, ready>>
    PROVE  StateInv' /\ StateMove
BY DEF StateInv, StateMove

LEMMA StatesController ==
    ASSUME TypeOK, LinkInv, ShutdownInv, StateInv, Controller
    PROVE  StateInv' /\ StateMove
<1> USE DEF StateInv, StateMove, StateMoves
<1>1. CASE Start
  <2>1. /\ state \in {"Created", "Stopped"}
        /\ pc' = "spawned" /\ state' = "Connecting" /\ joinable'
        /\ ~connected
        /\ UNCHANGED <<config, link>>
    BY <1>1 DEF Start, LinkInv, ShutdownInv
  <2>2. QED BY <2>1 DEF link
<1>2. CASE StopRequest
  BY <1>2, StatesUntouched DEF StopRequest, thread, link
<1>3. CASE StopJoin
  <2>1. /\ state' = "Stopped" /\ ~joinable'
        /\ pc = "off" /\ ~connected
        /\ UNCHANGED <<stop_requested, config, thread, link>>
    BY <1>3 DEF StopJoin, LinkInv, ShutdownInv
  <2>2. state \in States
    BY DEF TypeOK
  <2>3. QED BY <2>1, <2>2 DEF thread, link, States
<1>4. CASE ControlEmit
  BY <1>4, StatesUntouched DEF ControlEmit, shared, thread, link
<1>5. QED BY <1>1, <1>2, <1>3, <1>4 DEF Controller

LEMMA StatesDriver ==
    ASSUME TypeOK, LinkInv, ShutdownInv, StateInv, Driver
    PROVE  StateInv' /\ StateMove
<1> USE DEF StateInv, StateMove, shared, ctl, link, thread, At
<1>0. state \in States /\ ready \in BOOLEAN /\ connected \in BOOLEAN /\ final \in BOOLEAN
  BY DEF TypeOK
<1>1. CASE DriverEmit
  BY <1>1 DEF DriverEmit
<1>2. CASE ThreadStart
  <2>1. ~connected /\ joinable /\ state = "Connecting"
    BY <1>2 DEF ThreadStart, LinkInv, ShutdownInv
  <2>2. QED BY <1>2, <2>1 DEF ThreadStart, StateMoves
<1>3. CASE LoopTop
  BY <1>3 DEF LoopTop
<1>4. CASE DrainSwap
  BY <1>4 DEF DrainSwap
<1>5. CASE RunCommand
  <2>1. UNCHANGED <<shared, ctl, pc, final, connected, boot, ready>>
    BY <1>5 DEF RunCommand, RunUnready, RunRejected, RunPublish, RunCompletion, RunPublishConfirmed, RunDeclare, Pop
  <2>2. QED BY <2>1
<1>6. CASE DrainDone
  BY <1>6 DEF DrainDone
<1>7. CASE FlushAgain
  BY <1>7 DEF FlushAgain
<1>8. CASE FlushDone
  BY <1>8 DEF FlushDone
<1>9. CASE DialLater \/ Dial
  BY <1>9 DEF DialLater, Dial
<1>10. pc = "dialing" => /\ ~connected /\ joinable /\ ~final
                         /\ state \in {"Connecting", "Reconnecting", "Error"}
  BY <1>0 DEF LinkInv, ShutdownInv, States
<1>11. CASE DialFailed
  BY <1>10, <1>11 DEF DialFailed, Lost, StateMoves
<1>12. CASE DialConnected
  BY <1>10, <1>12 DEF DialConnected, StateMoves
<1>13. CASE PumpDone
  BY <1>13 DEF PumpDone
<1>14. CASE Teardown
  BY <1>0, <1>14 DEF Teardown
<1>15. CASE Settle
  <2>1. ~connected /\ joinable /\ (final => stop_requested)
    BY <1>15 DEF Settle, LinkInv, ShutdownInv
  <2>2. QED BY <1>0, <1>15, <2>1 DEF Settle, Lost, StateMoves, States
<1>16. QED
  BY <1>1, <1>2, <1>3, <1>4, <1>5, <1>6, <1>7, <1>8, <1>9, <1>11, <1>12, <1>13, <1>14, <1>15
  DEF Driver

LEMMA StatesBroker ==
    ASSUME TypeOK, LinkInv, ShutdownInv, StateInv, Broker
    PROVE  StateInv' /\ StateMove
<1> USE DEF StateInv, StateMove, pumping, ctl, link, thread, At
<1>1. CASE TopologyRebuilt
  <2>1. connected /\ ~ready /\ pc = "pump" /\ state = "Connecting"
    BY <1>1 DEF TopologyRebuilt
  <2>2. QED BY <1>1, <2>1 DEF TopologyRebuilt, StateMoves, ShutdownInv
<1>2. CASE Handshake
  BY <1>2 DEF Handshake
<1>3. CASE ConfirmSelected
  BY <1>3 DEF ConfirmSelected
<1>4. CASE BootstrapFailed
  BY <1>4 DEF BootstrapFailed
<1>5. CASE LinkFault
  BY <1>5 DEF LinkFault
<1>6. CASE Declared \/ DeclareRefused \/ \E S \in SUBSET Calls : Confirmed(S)
  <2>1. UNCHANGED <<joinable, stop_requested, state, config, pc, final, connected, boot, ready>>
    BY <1>6 DEF Declared, DeclareRefused, Confirmed
  <2>2. QED BY <2>1
<1>7. QED BY <1>1, <1>2, <1>3, <1>4, <1>5, <1>6 DEF Broker

LEMMA StatesNext ==
    ASSUME IInv, StateInv, [Next]_vars
    PROVE  StateInv' /\ StateMove
<1> USE DEF IInv
<1>1. CASE UNCHANGED vars
  BY <1>1, StatesUntouched DEF vars, shared, ctl, thread, link
<1>2. ASSUME NEW c \in Calls, Caller(c) PROVE StateInv' /\ StateMove
  <2>1. UNCHANGED <<joinable, stop_requested, state, config, pc, final, connected, boot, ready>>
    BY <1>2 DEF Caller, InvokeDirect, InvokeChecked, EnqueueChecked, CallerTimeout, shared, ctl, thread, link
  <2>2. QED BY <2>1, StatesUntouched
<1>3. QED BY <1>1, <1>2, StatesController, StatesDriver, StatesBroker DEF Next

-----------------------------------------------------------------------------
LEMMA ObservedController ==
    ASSUME TypeOK, ShutdownInv, StateInv, ObservedInv, Controller
    PROVE  ObservedInv'
<1> USE DEF ObservedInv, events
<1>1. CASE Start
  BY <1>1 DEF Start, Silent
<1>2. CASE StopRequest
  BY <1>2 DEF StopRequest
<1>3. CASE StopJoin
  <2>1. /\ Silent(driver_event)
        /\ ~joinable' /\ state' = "Stopped" /\ control' = "stopped"
        /\ control_event' = [previous |-> state, current |-> "Stopped"]
        /\ control = "stopping"
        /\ UNCHANGED <<driver_event, observed>>
    BY <1>3 DEF StopJoin, StateChange
  <2>2. state = "Stopped" => observed = "Stopped"
    BY <2>1
  <2>3. Silent(driver_event)'
    BY <2>1 DEF Silent
  <2>4. control_event'.current = "Stopped" /\ (Silent(control_event)' => state = "Stopped")
    BY <2>1 DEF Silent
  <2>5. QED BY <2>1, <2>2, <2>3, <2>4
<1>4. CASE ControlEmit
  <2>1. /\ control \in {"starting", "stopped"} /\ control' = "idle"
        /\ observed' = IF Silent(control_event) THEN observed ELSE control_event.current
        /\ UNCHANGED <<joinable, stop_requested, state, driver_event>>
    BY <1>4 DEF ControlEmit, shared
  <2>2. Silent(driver_event)' <=> Silent(driver_event)
    BY <2>1 DEF Silent
  <2>3. CASE control = "starting"
    <3>1. joinable /\ ~stop_requested /\ state # "Stopped"
      BY <2>3 DEF StateInv
    <3>2. QED BY <2>1, <2>2, <3>1
  <2>4. CASE control = "stopped"
    BY <2>1, <2>2, <2>4
  <2>5. QED BY <2>1, <2>3, <2>4
<1>5. QED BY <1>1, <1>2, <1>3, <1>4 DEF Controller

\* A step of the driver thread that delivers no event: it may leave one, and
\* with it the state that the event reports.
LEMMA ObservedSettled ==
    ASSUME ObservedInv, joinable, Silent(driver_event),
           UNCHANGED <<joinable, stop_requested, control, control_event, observed>>,
           \/ UNCHANGED <<state, driver_event>>
           \/ driver_event' = [previous |-> state, current |-> state']
    PROVE  ObservedInv'
<1>1. CASE UNCHANGED <<state, driver_event>>
  BY <1>1 DEF ObservedInv, Silent
<1>2. CASE driver_event' = [previous |-> state, current |-> state']
  BY <1>2 DEF ObservedInv, Silent
<1>3. QED BY <1>1, <1>2

LEMMA ObservedDriver ==
    ASSUME TypeOK, ShutdownInv, ObservedInv, Driver \/ Broker
    PROVE  ObservedInv'
<1>1. CASE DriverEmit
  <2>1. /\ observed' = driver_event.current /\ driver_event' = NoChange
        /\ ~Silent(driver_event)
        /\ UNCHANGED <<joinable, stop_requested, state, control, control_event>>
    BY <1>1 DEF DriverEmit, shared, ctl
  <2>2. Silent(driver_event)'
    BY <2>1 DEF Silent, NoChange
  <2>3. observed' = state /\ joinable
    BY <2>1 DEF ObservedInv
  <2>4. QED BY <2>1, <2>2, <2>3 DEF ObservedInv
<1>2. CASE (Driver /\ ~DriverEmit) \/ Broker
  <2>1. Silent(driver_event) /\ pc # "off"
    BY <1>2 DEF Driver, Broker, RunCommand, ThreadStart, LoopTop, DrainSwap, RunUnready, RunRejected, RunPublish, RunCompletion,
           RunPublishConfirmed, RunDeclare, AtCommand, DrainDone, FlushAgain, FlushDone, DialLater, Dial, DialFailed,
           DialConnected, PumpDone, Teardown, Settle, Handshake, ConfirmSelected, TopologyRebuilt, BootstrapFailed,
           Declared, DeclareRefused, Confirmed, LinkFault, At
  <2>2. UNCHANGED <<joinable, stop_requested, control, control_event, observed>>
    BY <1>2 DEF Driver, Broker, RunCommand, ThreadStart, LoopTop, DrainSwap, RunUnready, RunRejected, RunPublish, RunCompletion,
           RunPublishConfirmed, RunDeclare, Pop, DrainDone, FlushAgain, FlushDone, DialLater, Dial, DialFailed,
           DialConnected, PumpDone, Teardown, Settle, Handshake, ConfirmSelected, TopologyRebuilt, BootstrapFailed,
           Declared, DeclareRefused, Confirmed, LinkFault, shared, ctl, events, pumping
  <2>3. \/ UNCHANGED <<state, driver_event>>
        \/ driver_event' = [previous |-> state, current |-> state']
    BY <1>2 DEF Driver, Broker, RunCommand, ThreadStart, LoopTop, DrainSwap, RunUnready, RunRejected, RunPublish, RunCompletion,
           RunPublishConfirmed, RunDeclare, Pop, DrainDone, FlushAgain, FlushDone, DialLater, Dial, DialFailed,
           DialConnected, PumpDone, Teardown, Settle, Handshake, ConfirmSelected, TopologyRebuilt, BootstrapFailed,
           Declared, DeclareRefused, Confirmed, LinkFault, shared, events, StateChange
  <2>4. joinable
    BY <2>1 DEF ShutdownInv
  <2>5. QED BY <2>1, <2>2, <2>3, <2>4, ObservedSettled
<1>3. QED BY <1>1, <1>2

LEMMA ObservedNext ==
    ASSUME IInv, StateInv, ObservedInv, [Next]_vars
    PROVE  ObservedInv'
<1>1. CASE UNCHANGED <<joinable, stop_requested, state, control, control_event, driver_event, observed>>
  BY <1>1 DEF ObservedInv, Silent
<1>2. ASSUME NEW c \in Calls, Caller(c)
      PROVE  UNCHANGED <<joinable, stop_requested, state, control, control_event, driver_event, observed>>
  BY <1>2 DEF Caller, InvokeDirect, InvokeChecked, EnqueueChecked, CallerTimeout, shared, ctl, events
<1>3. CASE UNCHANGED vars
  BY <1>1, <1>3 DEF vars, shared, ctl, events
<1>4. QED BY <1>1, <1>2, <1>3, ObservedController, ObservedDriver DEF Next, IInv

-----------------------------------------------------------------------------
LEMMA StatesInvariance == Spec => [](IInv /\ StateInv /\ ObservedInv)
<1>1. Init => StateInv /\ ObservedInv
  BY StatesInit
<1>2. IInv /\ StateInv /\ ObservedInv /\ [Next]_vars => StateInv' /\ ObservedInv'
  BY StatesNext, ObservedNext
<1>3. QED BY <1>1, <1>2, Invariance, PTL DEF Spec

\* state_ moves only as a connection is dialled, rebuilt, lost and stopped,
\* whatever callers, controller and broker do.
THEOREM StateMovesAreLegal == Spec => LegalStateMoves
<1>1. IInv /\ StateInv /\ [Next]_vars => [state' # state => <<state, state'>> \in StateMoves]_vars
  BY StatesNext DEF StateMove
<1>2. QED BY <1>1, StatesInvariance, PTL DEF Spec, LegalStateMoves

\* Once Stop has returned the observers have been told, and told last.
THEOREM StopIsSeen == Spec => []StopIsObserved
<1>1. StateInv /\ ObservedInv => StopIsObserved
  BY DEF StateInv, ObservedInv, StopIsObserved
<1>2. QED BY <1>1, StatesInvariance, PTL

-----------------------------------------------------------------------------
(* ConnectionDriver implements the safety part of CallService: each step   *)
(* of the driver is a step of the service, or leaves it as it is.          *)

\* What of the driver's state the service is made of.
phaseOf    == IF ~joinable THEN "closed" ELSE IF stop_requested THEN "closing" ELSE "open"
askedOf    == {c \in Calls : status[c] = "waiting"}
answeredOf == {c \in Calls : status[c] \in Results}

LEMMA ServiceInit == Init => Service!Init
BY DEF Init, Service!Init, Results

\* A step that does not touch the lifecycle and only answers blocked callers.
LEMMA ServiceAnswers ==
    ASSUME TypeOK,
           UNCHANGED <<joinable, stop_requested>>,
           status' \in [Calls -> {"new", "checked", "waiting"} \cup Results],
           \A c \in Calls : status'[c] = status[c] \/ (status[c] = "waiting" /\ status'[c] \in Results)
    PROVE  [Service!Next]_(Service!vars)
<1>a. PICK S \in SUBSET Calls : S = {c \in Calls : status[c] = "waiting" /\ status'[c] # status[c]}
  OBVIOUS
<1>0. "waiting" \notin Results
  BY DEF Results
<1>1. /\ S \subseteq askedOf
      /\ askedOf' = askedOf \ S
      /\ answeredOf' = answeredOf \cup S
      /\ phaseOf' = phaseOf
  BY <1>a, <1>0 DEF askedOf, answeredOf, phaseOf
<1>2. CASE S = {}
  <2>1. askedOf' = askedOf /\ answeredOf' = answeredOf /\ phaseOf' = phaseOf
    BY <1>1, <1>2
  <2>2. QED BY <2>1 DEF Service!vars, askedOf, answeredOf, phaseOf
<1>3. CASE S # {}
  <2>1. Service!Answer(S)
    BY <1>1, <1>3 DEF Service!Answer, askedOf, answeredOf, phaseOf
  <2>2. QED BY <2>1 DEF Service!Next
<1>4. QED BY <1>2, <1>3

\* A caller asks, is refused, or gives up.
LEMMA ServiceCaller ==
    ASSUME TypeOK, TypeOK', NEW c \in Calls, Caller(c)
    PROVE  [Service!Next]_(Service!vars)
<1>0. /\ "waiting" \notin Results /\ "new" \notin Results /\ "checked" \notin Results
      /\ {"Ok", "InvalidState", "Disconnected", "Timeout"} \subseteq Results
  BY DEF Results
<1>1. UNCHANGED <<joinable, stop_requested>>
  BY DEF Caller, InvokeDirect, InvokeChecked, EnqueueChecked, CallerTimeout, shared
<1>2. CASE CallerTimeout(c)
  <2>1. \A d \in Calls : status'[d] = status[d] \/ (status[d] = "waiting" /\ status'[d] \in Results)
    BY <1>0, <1>2 DEF CallerTimeout, TypeOK
  <2>2. QED BY <1>1, <2>1, ServiceAnswers DEF TypeOK
<1>3. CASE ~CallerTimeout(c)
  <2>1. /\ status[c] \in {"new", "checked"}
        /\ \A d \in Calls \ {c} : status'[d] = status[d]
        /\ \/ status'[c] = "waiting" /\ Running
           \/ status'[c] \in Results
           \/ status'[c] = "checked"
    <3>1. ASSUME NEW k \in Operations, InvokeDirect(c, k) PROVE <2>1!:
      BY <1>0, <3>1 DEF InvokeDirect, EnqueueCommand, TypeOK
    <3>2. ASSUME NEW k \in Operations, InvokeChecked(c, k) PROVE <2>1!:
      BY <1>0, <3>2 DEF InvokeChecked, TypeOK
    <3>3. CASE EnqueueChecked(c)
      BY <1>0, <3>3 DEF EnqueueChecked, EnqueueCommand, TypeOK
    <3>4. QED BY <1>3, <3>1, <3>2, <3>3 DEF Caller
  <2>2. /\ c \notin askedOf \cup answeredOf
        /\ phaseOf' = phaseOf
    BY <1>0, <1>1, <2>1 DEF askedOf, answeredOf, phaseOf
  <2>3. CASE status'[c] = "waiting" /\ Running
    <3>1. /\ askedOf' = askedOf \cup {c}
          /\ answeredOf' = answeredOf
          /\ phaseOf = "open"
      BY <1>0, <2>1, <2>3 DEF askedOf, answeredOf, phaseOf, Running
    <3>2. Service!Ask(c)
      BY <2>2, <3>1 DEF Service!Ask, askedOf, answeredOf, phaseOf
    <3>3. QED BY <3>2 DEF Service!Next
  <2>4. CASE status'[c] \in Results
    <3>1. /\ askedOf' = askedOf
          /\ answeredOf' = answeredOf \cup {c}
      BY <1>0, <2>1, <2>4 DEF askedOf, answeredOf
    <3>2. Service!Return(c)
      BY <2>2, <3>1 DEF Service!Return, askedOf, answeredOf, phaseOf
    <3>3. QED BY <3>2 DEF Service!Next
  <2>5. CASE status'[c] = "checked"
    <3>1. askedOf' = askedOf /\ answeredOf' = answeredOf
      BY <1>0, <2>1, <2>5 DEF askedOf, answeredOf
    <3>2. QED BY <2>2, <3>1 DEF Service!vars, askedOf, answeredOf, phaseOf
  <2>6. QED BY <2>1, <2>3, <2>4, <2>5
<1>4. QED BY <1>2, <1>3

\* Start opens the service and Stop closes it; it is closed only when the
\* thread has been joined, and then nobody is blocked any more.
LEMMA ServiceController ==
    ASSUME ~SocketInitMayFail, IInv, NoCallLeftBehind', Controller
    PROVE  [Service!Next]_(Service!vars)
<1>1. UNCHANGED status
  BY DEF Controller, Start, StopRequest, StopJoin, ControlEmit, callers
<1>2. askedOf' = askedOf /\ answeredOf' = answeredOf
  BY <1>1 DEF askedOf, answeredOf
<1>3. CASE Start
  <2>1. phaseOf = "closed" /\ phaseOf' = "open"
    BY <1>3 DEF Start, phaseOf
  <2>2. Service!Open
    BY <1>2, <2>1 DEF Service!Open, askedOf, answeredOf, phaseOf
  <2>3. QED BY <2>2 DEF Service!Next
<1>4. CASE StopRequest
  <2>1. phaseOf' = phaseOf \/ (phaseOf = "open" /\ phaseOf' = "closing")
    BY <1>4 DEF StopRequest, phaseOf
  <2>2. [Service!Close]_(Service!vars)
    BY <1>2, <2>1 DEF Service!Close, Service!vars, askedOf, answeredOf, phaseOf
  <2>3. QED BY <2>2 DEF Service!Next
<1>5. CASE StopJoin
  <2>1. phaseOf' = "closed" /\ phaseOf \in {"closing", "closed"}
    BY <1>5 DEF StopJoin, phaseOf, IInv, ShutdownInv
  <2>2. askedOf = {}
    BY <1>1, <1>5 DEF StopJoin, askedOf, NoCallLeftBehind
  <2>3. [Service!Finish]_(Service!vars)
    BY <1>2, <2>1, <2>2 DEF Service!Finish, Service!vars, askedOf, answeredOf, phaseOf
  <2>4. QED BY <2>3 DEF Service!Next
<1>6. CASE ControlEmit
  <2>1. phaseOf' = phaseOf
    BY <1>6 DEF ControlEmit, shared, phaseOf
  <2>2. QED BY <1>2, <2>1 DEF Service!vars, askedOf, answeredOf, phaseOf
<1>7. QED BY <1>3, <1>4, <1>5, <1>6 DEF Controller

LEMMA AnswersOnly ==
    ASSUME TypeOK, NEW S, NEW r \in Results, Answer(S, r)
    PROVE  \A c \in Calls : status'[c] = status[c] \/ (status[c] = "waiting" /\ status'[c] \in Results)
BY DEF Answer

\* The driver thread and the broker only ever answer.
LEMMA ServiceThread ==
    ASSUME TypeOK, TypeOK', Driver \/ Broker
    PROVE  [Service!Next]_(Service!vars)
<1>1. UNCHANGED <<joinable, stop_requested>>
  BY DEF Driver, DriverEmit, ThreadStart, LoopTop, DrainSwap, RunCommand, RunUnready, RunRejected, RunPublish, RunCompletion,
         RunPublishConfirmed, RunDeclare, Pop, DrainDone, FlushAgain, FlushDone, DialLater, Dial, DialFailed,
         DialConnected, PumpDone, Teardown, Settle, Broker, Handshake, ConfirmSelected, TopologyRebuilt,
         BootstrapFailed, Declared, DeclareRefused, LinkFault, Confirmed, pumping, shared
<1>2. {"Ok", "Disconnected", "OperationFailed", "NotSupported"} \subseteq Results
  BY DEF Results
<1>3. \A c \in Calls : status'[c] = status[c] \/ (status[c] = "waiting" /\ status'[c] \in Results)
  <2>1. CASE UNCHANGED status
    BY <2>1
  <2>2. CASE RunCommand
    BY <1>2, <2>1, <2>2, AnswersOnly
    DEF RunCommand, RunUnready, RunRejected, RunPublish, RunCompletion, RunPublishConfirmed, RunDeclare
  <2>3. CASE Teardown
    BY <2>3 DEF Teardown, Results
  <2>4. CASE Driver /\ ~RunCommand /\ ~Teardown
    <3>1. UNCHANGED status
      BY <2>4 DEF Driver, DriverEmit, ThreadStart, LoopTop, DrainSwap, DrainDone, FlushAgain, FlushDone,
                  DialLater, Dial, DialFailed, DialConnected, PumpDone, Settle, callers
    <3>2. QED BY <3>1
  <2>5. CASE Broker
    <3>1. CASE Handshake \/ ConfirmSelected \/ TopologyRebuilt \/ BootstrapFailed
      BY <2>1, <3>1 DEF Handshake, ConfirmSelected, TopologyRebuilt, BootstrapFailed
    <3>2. CASE Declared \/ DeclareRefused \/ LinkFault
      BY <1>2, <2>1, <3>2, AnswersOnly DEF Declared, DeclareRefused, LinkFault
    <3>3. CASE \E S \in SUBSET Calls : Confirmed(S)
      BY <1>2, <3>3, AnswersOnly DEF Confirmed
    <3>4. QED BY <2>5, <3>1, <3>2, <3>3 DEF Broker
  <2>6. QED BY <2>2, <2>3, <2>4, <2>5
<1>4. QED BY <1>1, <1>3, ServiceAnswers DEF TypeOK

\* Every behaviour of the driver is one of the service, where the socket
\* subsystem needs no initialisation (every POSIX build).
THEOREM DriverImplementsService == ~SocketInitMayFail => (Spec => Service!SafeSpec)
<1> SUFFICES ASSUME ~SocketInitMayFail PROVE Spec => Service!SafeSpec
  OBVIOUS
<1>1. IInv /\ TypeOK' /\ NoCallLeftBehind' /\ [Next]_vars => [Service!Next]_(Service!vars)
  <2> SUFFICES ASSUME IInv, TypeOK', NoCallLeftBehind', [Next]_vars PROVE [Service!Next]_(Service!vars)
    OBVIOUS
  <2>1. CASE UNCHANGED vars
    BY <2>1 DEF vars, shared, callers, Service!vars
  <2>2. QED BY <2>1, ServiceCaller, ServiceController, ServiceThread DEF Next, IInv
<1>2. IInv => TypeOK
  BY DEF IInv
<1>3. Spec => []NoCallLeftBehind
  BY NothingLeftBehind
<1>4. QED BY <1>1, <1>2, <1>3, ServiceInit, Invariance, PTL DEF Spec, Service!SafeSpec

=============================================================================
