--------------------------- MODULE ConsumerProofs ----------------------------
(***************************************************************************)
(* Theorems about the consumers of the AMQP bus.  First ConsumerDelivery:  *)
(* where a delivery and its decision are, for any number of messages,      *)
(* connections and deliveries, and any prefetch window.  Then              *)
(* ConsumerControl: what the driver believes of each consumer, for any     *)
(* configuration, any callers and any number of faults.                    *)
(***************************************************************************)
EXTENDS ConsumerDelivery, ConsumerControl, FiniteSetTheorems, TLAPS

USE ConsumerDeliveryAssumption

-----------------------------------------------------------------------------
(* The inductive invariant.                                                *)

\* Deliveries that have no decision yet, and decisions under way.
Waiting == Elements(inbound) \cup dispatch \cup tasks
Comps   == Elements(commands) \cup Elements(outbound)

One(S) == S = {} \/ \E d \in S : S = {d}

LinkOrder ==
    /\ One(dispatch)
    /\ ~connected => DOMAIN unacked = {}
    /\ connections = 0 => /\ ~connected /\ Waiting = {} /\ Comps = {}
                          /\ \A m \in Messages : settled[m] = "no" /\ decisions[m] = {}

\* The workers are gone before the driver is told to stop.
StopOrder ==
    /\ driver # "running" => pool = "stopped"
    /\ pool = "stopped" => tasks = {}

\* A decision under way is one that a handler or the module has made.
Decided == \A c \in Comps : c.action \in decisions[c.delivery.message]

\* A delivery that waits, waits in one place.
Places ==
    connections = 1 =>
        /\ \A i, j \in DOMAIN inbound : inbound[i] = inbound[j] => i = j
        /\ Elements(inbound) \cap (dispatch \cup tasks) = {}
        /\ dispatch \cap tasks = {}

\* On the first connection a tag names one delivery, and its one decision.
OneTag ==
    connections = 1 =>
        /\ \A d \in Waiting : d.tag \in 1 .. delivered
        /\ \A c \in Comps : c.delivery.tag \in 1 .. delivered
        /\ \A d \in Waiting : d.tag \in DOMAIN unacked => unacked[d.tag] = d.message
        /\ \A c \in Comps : c.delivery.tag \in DOMAIN unacked => unacked[c.delivery.tag] = c.delivery.message
        /\ \A d, e \in Waiting : d.tag = e.tag => d = e
        /\ \A d \in Waiting, c \in Comps : d.tag # c.delivery.tag
        /\ \A c, e \in Comps : c.delivery.tag = e.delivery.tag => c = e

\* While the first connection stands, the broker waits for what waits here, a
\* message is in one place, and an ack is on its way or has arrived.
FirstUp ==
    connected /\ connections = 1 =>
        /\ \A d \in Waiting : d.tag \in DOMAIN unacked
        /\ \A t, u \in DOMAIN unacked : unacked[t] = unacked[u] => t = u
        /\ \A t \in DOMAIN unacked : unacked[t] \notin queue /\ settled[unacked[t]] = "no"
        /\ \A m \in queue : settled[m] = "no"
        /\ \A m \in Messages : "Ack" \in decisions[m] =>
               \/ settled[m] = "Ack"
               \/ \E c \in Comps : /\ c.delivery.message = m /\ c.action = "Ack"
                                   /\ c.delivery.tag \in DOMAIN unacked

IInv == /\ TypeOK /\ EveryDeliveryIsHeld /\ DecisionsStayApart
        /\ LinkOrder /\ StopOrder /\ Decided /\ Places /\ OneTag /\ FirstUp

-----------------------------------------------------------------------------
(* Sequences and sets.                                                     *)

LEMMA TailElements ==
    ASSUME NEW S, NEW s \in Seq(S), s # <<>>
    PROVE  /\ Tail(s) \in Seq(S) /\ Head(s) \in S /\ Head(s) \in Elements(s)
           /\ Elements(s) = {Head(s)} \cup Elements(Tail(s))
           /\ (\A i, j \in DOMAIN s : s[i] = s[j] => i = j) =>
                  /\ \A i, j \in DOMAIN Tail(s) : Tail(s)[i] = Tail(s)[j] => i = j
                  /\ Head(s) \notin Elements(Tail(s))
<1>1. /\ Len(s) \in Nat \ {0} /\ DOMAIN s = 1 .. Len(s) /\ Head(s) = s[1] /\ Head(s) \in S
      /\ Tail(s) \in Seq(S) /\ DOMAIN Tail(s) = 1 .. Len(s) - 1
      /\ \A i \in 1 .. Len(s) - 1 : Tail(s)[i] = s[i + 1]
  OBVIOUS
<1>2. \A i \in DOMAIN Tail(s) : i + 1 \in DOMAIN s /\ i + 1 # 1 /\ Tail(s)[i] = s[i + 1]
  BY <1>1
<1>3. \A i \in DOMAIN s : i = 1 \/ (i - 1 \in DOMAIN Tail(s) /\ Tail(s)[i - 1] = s[i])
  BY <1>1
<1>4. Elements(s) = {Head(s)} \cup Elements(Tail(s))
  <2>1. ASSUME NEW i \in DOMAIN s
        PROVE  s[i] \in {Head(s)} \cup Elements(Tail(s))
    <3>1. CASE i = 1
      BY <3>1, <1>1
    <3>2. CASE i # 1
      BY <3>2, <1>3 DEF Elements
    <3>3. QED BY <3>1, <3>2
  <2>2. {Head(s)} \cup Elements(Tail(s)) \subseteq Elements(s)
    BY <1>1, <1>2 DEF Elements
  <2>3. QED BY <2>1, <2>2 DEF Elements
<1>5. ASSUME \A i, j \in DOMAIN s : s[i] = s[j] => i = j
      PROVE  /\ \A i, j \in DOMAIN Tail(s) : Tail(s)[i] = Tail(s)[j] => i = j
             /\ Head(s) \notin Elements(Tail(s))
  <2>1. \A i, j \in DOMAIN Tail(s) : Tail(s)[i] = Tail(s)[j] => i = j
    BY <1>1, <1>2, <1>5
  <2>2. Head(s) \notin Elements(Tail(s))
    BY <1>1, <1>2, <1>5 DEF Elements
  <2>3. QED BY <2>1, <2>2
<1>6. Head(s) \in Elements(s)
  BY <1>4
<1>7. QED BY <1>1, <1>4, <1>5, <1>6

LEMMA AppendElements ==
    ASSUME NEW S, NEW s \in Seq(S), NEW e \in S
    PROVE  /\ Append(s, e) \in Seq(S)
           /\ Elements(Append(s, e)) = Elements(s) \cup {e}
           /\ (\A i, j \in DOMAIN s : s[i] = s[j] => i = j) /\ e \notin Elements(s) =>
                  \A i, j \in DOMAIN Append(s, e) : Append(s, e)[i] = Append(s, e)[j] => i = j
<1>1. /\ Len(s) \in Nat /\ DOMAIN s = 1 .. Len(s) /\ Append(s, e) \in Seq(S)
      /\ DOMAIN Append(s, e) = 1 .. Len(s) + 1
      /\ Append(s, e)[Len(s) + 1] = e
      /\ \A i \in 1 .. Len(s) : Append(s, e)[i] = s[i]
  OBVIOUS
<1>2. \A i \in DOMAIN Append(s, e) : i = Len(s) + 1 \/ i \in DOMAIN s
  BY <1>1
<1>3. \A i \in DOMAIN s : s[i] \in Elements(s) /\ i \in DOMAIN Append(s, e)
  BY <1>1 DEF Elements
<1>4. Elements(Append(s, e)) = Elements(s) \cup {e}
  <2>1. Elements(Append(s, e)) \subseteq Elements(s) \cup {e}
    BY <1>1, <1>2 DEF Elements
  <2>2. Elements(s) \cup {e} \subseteq Elements(Append(s, e))
    BY <1>1, <1>3 DEF Elements
  <2>3. QED BY <2>1, <2>2
<1>5. ASSUME \A i, j \in DOMAIN s : s[i] = s[j] => i = j, e \notin Elements(s)
      PROVE  \A i, j \in DOMAIN Append(s, e) : Append(s, e)[i] = Append(s, e)[j] => i = j
  BY <1>1, <1>2, <1>3, <1>5
<1>6. QED BY <1>1, <1>4, <1>5

LEMMA EmptyElements == Elements(<<>>) = {}
BY DEF Elements

LEMMA OneCardinality ==
    ASSUME NEW S, One(S)
    PROVE  Cardinality(S) <= 1
<1>1. CASE S = {}
  BY <1>1, FS_EmptySet
<1>2. CASE \E d \in S : S = {d}
  <2>1. PICK d \in S : S = {d}
    BY <1>2
  <2>2. Cardinality({d}) = 1
    BY FS_Singleton
  <2>3. QED BY <2>1, <2>2
<1>3. QED BY <1>1, <1>2 DEF One

\* Where a delivery of the current connection can be, once more.
LEMMA KnownIs == Known = Waiting \cup {c.delivery : c \in Comps}
BY DEF Known, Waiting, Comps

LEMMA Types ==
    ASSUME TypeOK
    PROVE  /\ Waiting \subseteq Deliveries /\ Comps \subseteq Completions
           /\ \A d \in Deliveries : d.message \in Messages /\ d.tag \in Nat \ {0} /\ d.connection \in Nat
           /\ \A c \in Completions : c.delivery \in Deliveries /\ c.action \in Actions
           /\ \A d \in Deliveries, a \in Actions :
                  /\ Completion(d, a) \in Completions
                  /\ Completion(d, a).delivery = d /\ Completion(d, a).action = a
<1>1. \A d \in Deliveries : d.message \in Messages /\ d.tag \in Nat \ {0} /\ d.connection \in Nat
  BY DEF Deliveries
<1>2. \A c \in Completions : c.delivery \in Deliveries /\ c.action \in Actions
  BY DEF Completions
<1>3. \A d \in Deliveries, a \in Actions :
          /\ Completion(d, a) \in Completions
          /\ Completion(d, a).delivery = d /\ Completion(d, a).action = a
  BY DEF Completion, Completions
<1>4. Elements(inbound) \subseteq Deliveries
  BY DEF TypeOK, Elements
<1>5. Elements(commands) \subseteq Completions /\ Elements(outbound) \subseteq Completions
  BY DEF TypeOK, Elements
<1>6. dispatch \subseteq Deliveries /\ tasks \subseteq Deliveries
  BY DEF TypeOK
<1>7. QED BY <1>1, <1>2, <1>3, <1>4, <1>5, <1>6 DEF Waiting, Comps

LEMMA InitInv == Init => IInv
<1> SUFFICES ASSUME Init PROVE IInv
  OBVIOUS
<1>1. /\ Waiting = {} /\ Comps = {} /\ Elements(inbound) = {} /\ DOMAIN unacked = {}
      /\ dispatch = {} /\ tasks = {} /\ connections = 0
  BY EmptyElements DEF Init, Waiting, Comps, NoTags
<1>2. TypeOK
  <2>1. inbound \in Seq(Deliveries) /\ outbound \in Seq(Completions) /\ commands \in Seq(Completions)
    BY DEF Init
  <2>2. Cardinality(dispatch) <= 1
    BY <1>1, OneCardinality DEF One
  <2>3. connected \in BOOLEAN
    BY DEF Init
  <2>4. stopping \in BOOLEAN
    BY DEF Init
  <2>5. settled \in [Messages -> {"no", "Ack", "Reject"}]
    BY DEF Init
  <2>6. decisions \in [Messages -> SUBSET Actions]
    BY DEF Init
  <2>7. queue \subseteq Messages /\ delivered \in Nat /\ connections \in Nat
    BY DEF Init
  <2>8. pool \in {"running", "closing", "stopped"} /\ driver \in {"running", "stopping", "stopped"}
    BY DEF Init
  <2>9. QED BY <1>1, <2>1, <2>2, <2>3, <2>4, <2>5, <2>6, <2>7, <2>8 DEF TypeOK
<1>3. EveryDeliveryIsHeld /\ DecisionsStayApart
  BY <1>1 DEF EveryDeliveryIsHeld, DecisionsStayApart
<1>4. LinkOrder
  BY <1>1 DEF LinkOrder, Init, One
<1>5. StopOrder
  BY DEF StopOrder, Init
<1>6. Decided /\ Places /\ OneTag /\ FirstUp
  BY <1>1 DEF Decided, Places, OneTag, FirstUp
<1>7. QED BY <1>2, <1>3, <1>4, <1>5, <1>6 DEF IInv

-----------------------------------------------------------------------------
(* Steps that only move deliveries, and steps of the stop.                 *)

LEMMA SameInv ==
    ASSUME IInv, UNCHANGED <<broker, link, inbound, outbound, dispatch, tasks, commands, decisions>>,
           stopping' \in BOOLEAN, pool' \in {"running", "closing", "stopped"},
           driver' \in {"running", "stopping", "stopped"},
           driver' = "running" => driver = "running", StopOrder'
    PROVE  IInv'
<1>1. /\ Waiting' = Waiting /\ Comps' = Comps /\ Known' = Known
      /\ UNCHANGED <<queue, unacked, delivered, settled, connections, connected, inbound, outbound,
                     dispatch, tasks, commands, decisions>>
  BY DEF Waiting, Comps, Known, Elements, broker, link
<1>2. TypeOK'
  BY <1>1 DEF IInv, TypeOK
<1>3. EveryDeliveryIsHeld'
  BY <1>1 DEF IInv, EveryDeliveryIsHeld, Delivery
<1>4. DecisionsStayApart'
  BY <1>1 DEF IInv, DecisionsStayApart, SettledByOwnDecision
<1>5. LinkOrder'
  BY <1>1 DEF IInv, LinkOrder
<1>6. Decided' /\ Places'
  BY <1>1 DEF IInv, Decided, Places, Elements
<1>7. OneTag'
  BY <1>1 DEF IInv, OneTag
<1>8. FirstUp'
  BY <1>1 DEF IInv, FirstUp
<1>9. QED BY <1>2, <1>3, <1>4, <1>5, <1>6, <1>7, <1>8 DEF IInv

LEMMA MoveInv ==
    ASSUME IInv, UNCHANGED <<broker, link, outbound, commands, decisions, stop>>,
           Waiting' = Waiting, inbound' \in Seq(Deliveries),
           dispatch' \subseteq Deliveries, One(dispatch'), tasks' \subseteq Deliveries,
           pool = "stopped" => tasks' = {}, Places'
    PROVE  IInv'
<1>1. /\ Comps' = Comps /\ Known' = Known
      /\ UNCHANGED <<queue, unacked, delivered, settled, connections, connected, outbound,
                     commands, decisions, stopping, pool, driver>>
  <2>1. Comps' = Comps
    BY DEF Comps, Elements
  <2>2. Known' = Waiting' \cup {c.delivery : c \in Comps'}
    BY DEF Known, Waiting, Comps
  <2>3. QED BY <2>1, <2>2, KnownIs DEF broker, link, stop
<1>2. TypeOK'
  <2>1. Cardinality(dispatch') <= 1
    BY OneCardinality
  <2>2. QED BY <1>1, <2>1 DEF IInv, TypeOK
<1>3. EveryDeliveryIsHeld'
  BY <1>1 DEF IInv, EveryDeliveryIsHeld, Delivery
<1>4. DecisionsStayApart'
  BY <1>1 DEF IInv, DecisionsStayApart, SettledByOwnDecision
<1>5. LinkOrder'
  BY <1>1 DEF IInv, LinkOrder
<1>6. StopOrder' /\ Decided'
  BY <1>1 DEF IInv, StopOrder, Decided
<1>7. OneTag'
  BY <1>1 DEF IInv, OneTag
<1>8. FirstUp'
  BY <1>1 DEF IInv, FirstUp
<1>9. QED BY <1>2, <1>3, <1>4, <1>5, <1>6, <1>7, <1>8 DEF IInv

-----------------------------------------------------------------------------
(* A delivery is answered.                                                 *)

LEMMA CompleteFacts ==
    ASSUME TypeOK, NEW d \in Deliveries, NEW a \in Actions, CompleteDeliveryAsync(d, a)
    PROVE  /\ decisions' \in [Messages -> SUBSET Actions]
           /\ \A m \in Messages : decisions'[m] = IF m = d.message THEN decisions[m] \cup {a} ELSE decisions[m]
           /\ commands' \in Seq(Completions)
           /\ driver = "running" => Elements(commands') = Elements(commands) \cup {Completion(d, a)}
           /\ driver # "running" => commands' = commands
<1>1. d.message \in Messages /\ Completion(d, a) \in Completions
  BY Types
<1>2. decisions' = [decisions EXCEPT ![d.message] = @ \cup {a}] /\ decisions \in [Messages -> SUBSET Actions]
  BY DEF CompleteDeliveryAsync, TypeOK
<1>3. commands \in Seq(Completions)
  BY DEF TypeOK
<1>4. commands' = IF driver = "running" THEN Append(commands, Completion(d, a)) ELSE commands
  BY DEF CompleteDeliveryAsync
<1>5. commands' \in Seq(Completions)
  BY <1>1, <1>3, <1>4, AppendElements
<1>6. driver = "running" => Elements(commands') = Elements(commands) \cup {Completion(d, a)}
  BY <1>1, <1>3, <1>4, AppendElements
<1>7. QED BY <1>1, <1>2, <1>4, <1>5, <1>6

LEMMA AnswerInv ==
    ASSUME IInv, NEW d \in Waiting, NEW a \in Actions, CompleteDeliveryAsync(d, a),
           UNCHANGED <<broker, link, outbound, stop>>,
           Waiting' \subseteq Waiting, Waiting \subseteq Waiting' \cup {d},
           connections = 1 => d \notin Waiting',
           inbound' \in Seq(Deliveries), dispatch' \in {dispatch, {}}, tasks' \subseteq tasks,
           a = "Ack" => d \in tasks, Places'
    PROVE  IInv'
<1> DEFINE c0 == Completion(d, a)
<1>1. /\ UNCHANGED <<queue, unacked, delivered, settled, connections, connected, outbound,
                     stopping, pool, driver>>
      /\ TypeOK
  BY DEF broker, link, stop, IInv
<1>2. /\ Waiting \subseteq Deliveries /\ d \in Deliveries /\ d.message \in Messages
      /\ c0.delivery = d /\ c0.action = a
      /\ \A c \in Comps : c.delivery \in Deliveries /\ c.delivery.message \in Messages
  BY <1>1, Types
<1>3. /\ decisions' \in [Messages -> SUBSET Actions]
      /\ \A m \in Messages : decisions'[m] = IF m = d.message THEN decisions[m] \cup {a} ELSE decisions[m]
      /\ commands' \in Seq(Completions)
      /\ driver = "running" => Comps' = Comps \cup {c0}
      /\ driver # "running" => Comps' = Comps
  <2>1. Elements(outbound)' = Elements(outbound)
    BY <1>1 DEF Elements
  <2>2. commands' = commands => Elements(commands') = Elements(commands)
    OBVIOUS
  <2>3. QED BY <1>1, <1>2, <2>1, <2>2, CompleteFacts DEF Comps
<1>4. Comps \subseteq Comps' /\ \A c \in Comps' : c \in Comps \/ c = c0
  BY <1>1, <1>3 DEF TypeOK
<1>5. TypeOK'
  <2>1. Cardinality(dispatch') <= 1
    <3>1. One(dispatch')
      BY DEF IInv, LinkOrder, One
    <3>2. QED BY <3>1, OneCardinality
  <2>2. QED BY <1>1, <1>3, <2>1 DEF TypeOK
<1>6. EveryDeliveryIsHeld'
  <2>1. Known = Waiting \cup {c.delivery : c \in Comps} /\ Known' = Waiting' \cup {c.delivery : c \in Comps'}
    BY KnownIs DEF Known, Waiting, Comps
  <2>2. driver = "running" => Known \subseteq Known'
    BY <1>2, <1>3, <2>1
  <2>3. QED BY <1>1, <2>2 DEF IInv, EveryDeliveryIsHeld, Delivery
<1>7. DecisionsStayApart'
  BY <1>1, <1>3 DEF IInv, DecisionsStayApart, SettledByOwnDecision
<1>8. LinkOrder' /\ StopOrder'
  <2>1. connections # 0
    BY DEF IInv, LinkOrder
  <2>2. One(dispatch')
    BY DEF IInv, LinkOrder, One
  <2>3. QED BY <1>1, <2>1, <2>2 DEF IInv, LinkOrder, StopOrder
<1>9. Decided'
  BY <1>2, <1>3, <1>4 DEF IInv, Decided
<1>10. OneTag'
  BY <1>1, <1>2, <1>4 DEF IInv, OneTag
<1>11. FirstUp'
  <2> SUFFICES ASSUME connected, connections = 1
               PROVE  FirstUp'
    BY <1>1 DEF FirstUp
  <2>1. /\ \A e \in Waiting : e.tag \in DOMAIN unacked
        /\ unacked[d.tag] = d.message /\ d.tag \in DOMAIN unacked
    BY DEF IInv, FirstUp, OneTag
  <2>2. ASSUME NEW m \in Messages, "Ack" \in decisions'[m]
        PROVE  \/ settled[m] = "Ack"
               \/ \E c \in Comps' : /\ c.delivery.message = m /\ c.action = "Ack"
                                    /\ c.delivery.tag \in DOMAIN unacked
    <3>1. CASE "Ack" \in decisions[m]
      BY <1>4, <3>1 DEF IInv, FirstUp
    <3>2. CASE "Ack" \notin decisions[m]
      <4>1. m = d.message /\ a = "Ack" /\ d \in tasks
        BY <1>3, <2>2, <3>2
      <4>2. driver = "running"
        BY <1>1, <4>1 DEF IInv, StopOrder, TypeOK
      <4>3. QED BY <1>2, <1>3, <2>1, <4>1, <4>2
    <3>3. QED BY <3>1, <3>2
  <2>3. QED BY <1>1, <2>1, <2>2 DEF IInv, FirstUp
<1>12. QED BY <1>5, <1>6, <1>7, <1>8, <1>9, <1>10, <1>11 DEF IInv

LEMMA HandleIncomingInv ==
    ASSUME IInv, HandleIncomingMessage
    PROVE  IInv'
<1> DEFINE d == Head(inbound)
<1>1. /\ UNCHANGED <<broker, link, outbound, stop>> /\ tasks' = tasks /\ inbound' = Tail(inbound)
      /\ inbound # <<>> /\ dispatch = {} /\ connections' = connections
      /\ inbound \in Seq(Deliveries) /\ tasks \subseteq Deliveries
  BY DEF HandleIncomingMessage, link, IInv, TypeOK
<1>2. /\ inbound' \in Seq(Deliveries) /\ d \in Deliveries /\ d \in Elements(inbound)
      /\ Elements(inbound) = {d} \cup Elements(inbound')
      /\ connections = 1 => /\ \A i, j \in DOMAIN inbound' : inbound'[i] = inbound'[j] => i = j
                            /\ d \notin Elements(inbound') \cup tasks
                            /\ Elements(inbound') \cap tasks = {}
  <2>1. /\ Tail(inbound) \in Seq(Deliveries) /\ d \in Deliveries /\ d \in Elements(inbound)
        /\ Elements(inbound) = {d} \cup Elements(Tail(inbound))
        /\ (\A i, j \in DOMAIN inbound : inbound[i] = inbound[j] => i = j) =>
               /\ \A i, j \in DOMAIN Tail(inbound) : Tail(inbound)[i] = Tail(inbound)[j] => i = j
               /\ d \notin Elements(Tail(inbound))
    BY <1>1, TailElements
  <2>2. QED BY <1>1, <2>1 DEF IInv, Places
<1>3. Elements(inbound)' = Elements(inbound')
  BY DEF Elements
<1>4. ASSUME NEW a \in Actions \ {"Ack"}, CompleteDeliveryAsync(d, a), dispatch' = dispatch
      PROVE  IInv'
  <2>1. /\ Waiting = {d} \cup Elements(inbound') \cup tasks
        /\ Waiting' = Elements(inbound') \cup tasks
    BY <1>1, <1>2, <1>3, <1>4 DEF Waiting
  <2>2. Places'
    BY <1>1, <1>2, <1>3, <1>4 DEF Places
  <2>3. QED BY <1>1, <1>2, <1>4, <2>1, <2>2, AnswerInv
<1>5. ASSUME dispatch' = {d}, UNCHANGED <<commands, decisions>>
      PROVE  IInv'
  <2>1. /\ Waiting = {d} \cup Elements(inbound') \cup tasks
        /\ Waiting' = {d} \cup Elements(inbound') \cup tasks
    BY <1>1, <1>2, <1>3, <1>5 DEF Waiting
  <2>2. Places'
    BY <1>1, <1>2, <1>3, <1>5 DEF Places
  <2>3. One(dispatch') /\ (pool = "stopped" => tasks' = {})
    BY <1>1, <1>5 DEF One, IInv, StopOrder
  <2>4. QED BY <1>1, <1>2, <1>5, <2>1, <2>2, <2>3, MoveInv
<1>6. "Requeue" \in Actions \ {"Ack"} /\ "Reject" \in Actions \ {"Ack"}
  BY DEF Actions
<1>7. QED BY <1>4, <1>5, <1>6 DEF HandleIncomingMessage

LEMMA SubmitInv ==
    ASSUME IInv, Submit
    PROVE  IInv'
<1>1. /\ UNCHANGED <<broker, link, inbound, outbound, stop>> /\ dispatch' = {} /\ dispatch # {}
      /\ inbound' = inbound /\ connections' = connections
      /\ inbound' \in Seq(Deliveries) /\ tasks \subseteq Deliveries /\ dispatch \subseteq Deliveries
      /\ Elements(inbound)' = Elements(inbound)
  BY DEF Submit, link, IInv, TypeOK, Elements
<1>2. PICK d : dispatch = {d}
  BY <1>1 DEF IInv, LinkOrder, One
<1>3. d \in Waiting /\ Waiting = Elements(inbound) \cup {d} \cup tasks /\ Waiting' = Elements(inbound) \cup tasks'
  BY <1>1, <1>2 DEF Waiting
<1>4. CASE pool = "running" /\ tasks' = tasks \cup dispatch /\ UNCHANGED <<commands, decisions>>
  <2>1. Waiting' = Waiting /\ One(dispatch') /\ tasks' \subseteq Deliveries /\ dispatch' \subseteq Deliveries
    BY <1>1, <1>2, <1>3, <1>4 DEF One
  <2>2. Places'
    BY <1>1, <1>2, <1>4 DEF Places, IInv
  <2>3. QED BY <1>1, <1>4, <2>1, <2>2, MoveInv
<1>5. CASE (\E e \in dispatch : CompleteDeliveryAsync(e, "Requeue")) /\ tasks' = tasks
  <2>1. CompleteDeliveryAsync(d, "Requeue")
    BY <1>2, <1>5
  <2>2. Places'
    BY <1>1, <1>5 DEF Places, IInv
  <2>3. connections = 1 => d \notin Waiting'
    BY <1>1, <1>2, <1>3, <1>5 DEF Places, IInv
  <2>4. "Requeue" \in Actions /\ "Requeue" # "Ack"
    BY DEF Actions
  <2>5. QED BY <1>1, <1>3, <1>5, <2>1, <2>2, <2>3, <2>4, AnswerInv
<1>6. QED BY <1>4, <1>5 DEF Submit

LEMMA HandleInv ==
    ASSUME IInv, NEW d \in tasks, NEW a \in Actions, Handle(d, a)
    PROVE  IInv'
<1>1. /\ UNCHANGED <<broker, link, outbound, stop>> /\ CompleteDeliveryAsync(d, a)
      /\ tasks' = tasks \ {d} /\ inbound' = inbound /\ dispatch' = dispatch /\ connections' = connections
      /\ inbound' \in Seq(Deliveries) /\ Elements(inbound)' = Elements(inbound)
  BY DEF Handle, link, IInv, TypeOK, Elements
<1>2. /\ Waiting = Elements(inbound) \cup dispatch \cup tasks /\ d \in Waiting
      /\ Waiting' = Elements(inbound) \cup dispatch \cup (tasks \ {d})
  BY <1>1 DEF Waiting
<1>3. Places'
  BY <1>1 DEF Places, IInv
<1>4. connections = 1 => d \notin Waiting'
  BY <1>2 DEF Places, IInv
<1>5. QED BY <1>1, <1>2, <1>3, <1>4, AnswerInv

LEMMA RunCompletionInv ==
    ASSUME IInv, RunCompletion
    PROVE  IInv'
<1> DEFINE c0 == Head(commands)
<1>1. /\ UNCHANGED <<queue, unacked, delivered, settled, connections, connected, inbound, dispatch,
                     tasks, decisions, stopping, pool, driver>>
      /\ commands # <<>> /\ commands' = Tail(commands)
      /\ outbound' = IF connected THEN Append(outbound, c0) ELSE outbound
      /\ TypeOK
  BY DEF RunCompletion, broker, link, stop, IInv
<1>2. /\ Tail(commands) \in Seq(Completions) /\ c0 \in Completions
      /\ Elements(commands) = {c0} \cup Elements(Tail(commands))
  BY <1>1, TailElements DEF TypeOK
<1>3. /\ Append(outbound, c0) \in Seq(Completions)
      /\ Elements(Append(outbound, c0)) = Elements(outbound) \cup {c0}
  BY <1>1, <1>2, AppendElements DEF TypeOK
<1>4. Comps' \subseteq Comps /\ (connected => Comps' = Comps)
  <2>1. Comps' = Elements(commands') \cup Elements(outbound')
    BY DEF Comps, Elements
  <2>2. QED BY <1>1, <1>2, <1>3, <2>1 DEF Comps
<1>5. /\ Waiting' = Waiting
      /\ Known' = Waiting' \cup {c.delivery : c \in Comps'}
  BY <1>1 DEF Waiting, Comps, Known, Elements
<1>6. TypeOK'
  BY <1>1, <1>2, <1>3 DEF TypeOK
<1>7. EveryDeliveryIsHeld'
  <2>1. CASE connected
    BY <1>1, <1>4, <1>5, <2>1, KnownIs DEF IInv, EveryDeliveryIsHeld, Delivery
  <2>2. CASE ~connected
    BY <1>1, <2>2 DEF IInv, LinkOrder, EveryDeliveryIsHeld
  <2>3. QED BY <2>1, <2>2
<1>8. DecisionsStayApart'
  BY <1>1 DEF IInv, DecisionsStayApart, SettledByOwnDecision
<1>9. LinkOrder' /\ StopOrder'
  BY <1>1, <1>4, <1>5 DEF IInv, LinkOrder, StopOrder
<1>10. Decided' /\ Places'
  BY <1>1, <1>4 DEF IInv, Decided, Places, Elements
<1>11. OneTag'
  BY <1>1, <1>4, <1>5 DEF IInv, OneTag
<1>12. FirstUp'
  BY <1>1, <1>4, <1>5 DEF IInv, FirstUp
<1>13. QED BY <1>6, <1>7, <1>8, <1>9, <1>10, <1>11, <1>12 DEF IInv

-----------------------------------------------------------------------------
(* The broker.                                                             *)

LEMMA DeliverInv ==
    ASSUME IInv, NEW m \in Messages, BrokerDeliver(m)
    PROVE  IInv'
<1> DEFINE n == delivered + 1
           d == Delivery(m, n)
<1>1. /\ UNCHANGED <<settled, connections, connected, outbound, dispatch, tasks, commands, decisions,
                     stopping, pool, driver>>
      /\ connected /\ m \in queue /\ delivered' = n /\ queue' = queue \ {m}
      /\ unacked' = [t \in DOMAIN unacked \cup {n} |-> IF t = n THEN m ELSE unacked[t]]
      /\ inbound' = Append(inbound, d)
      /\ TypeOK
  BY DEF BrokerDeliver, link, stop, IInv
<1>2. /\ n \in Nat /\ n > delivered /\ delivered \in Nat /\ n \notin DOMAIN unacked
      /\ DOMAIN unacked \subseteq 1 .. delivered
  BY <1>1 DEF TypeOK
<1>3. /\ DOMAIN unacked' = DOMAIN unacked \cup {n} /\ unacked'[n] = m
      /\ \A t \in DOMAIN unacked : unacked'[t] = unacked[t] /\ t # n
  BY <1>1, <1>2
<1>4. d \in Deliveries /\ d.tag = n /\ d.message = m
  BY <1>1, <1>2 DEF Deliveries, Delivery, TypeOK
<1>5. /\ inbound' \in Seq(Deliveries)
      /\ Elements(inbound') = Elements(inbound) \cup {d}
      /\ (\A i, j \in DOMAIN inbound : inbound[i] = inbound[j] => i = j) /\ d \notin Elements(inbound) =>
             \A i, j \in DOMAIN inbound' : inbound'[i] = inbound'[j] => i = j
  BY <1>1, <1>4, AppendElements DEF TypeOK
<1>6. /\ Waiting' = Waiting \cup {d} /\ Comps' = Comps /\ Known' = Known \cup {d}
      /\ Elements(inbound)' = Elements(inbound')
  <2>1. Elements(inbound)' = Elements(inbound') /\ Comps' = Comps
    BY <1>1 DEF Comps, Elements
  <2>2. Waiting' = Waiting \cup {d}
    BY <1>1, <1>5, <2>1 DEF Waiting
  <2>3. Known' = Waiting' \cup {c.delivery : c \in Comps'}
    BY DEF Known, Waiting, Comps
  <2>4. QED BY <2>1, <2>2, <2>3, KnownIs
<1>7. connections = 1 => d \notin Waiting
  BY <1>2, <1>4 DEF IInv, OneTag
<1>8. TypeOK'
  BY <1>1, <1>2, <1>3, <1>5 DEF TypeOK
<1>9. EveryDeliveryIsHeld'
  <2> SUFFICES ASSUME driver = "running", NEW t \in DOMAIN unacked'
               PROVE  Delivery(unacked'[t], t) \in Known'
    BY <1>1 DEF EveryDeliveryIsHeld, Delivery
  <2>1. QED BY <1>3, <1>6 DEF IInv, EveryDeliveryIsHeld
<1>10. DecisionsStayApart'
  BY <1>1 DEF IInv, DecisionsStayApart, SettledByOwnDecision
<1>11. LinkOrder' /\ StopOrder'
  BY <1>1 DEF IInv, LinkOrder, StopOrder
<1>12. Decided'
  BY <1>1, <1>6 DEF IInv, Decided
<1>13. Places'
  <2> SUFFICES ASSUME connections = 1 PROVE Places'
    BY <1>1 DEF Places
  <2>1. d \notin Elements(inbound) \cup dispatch \cup tasks
    BY <1>7 DEF Waiting
  <2>2. QED BY <1>1, <1>5, <1>6, <2>1 DEF IInv, Places
<1>14. OneTag'
  <2> SUFFICES ASSUME connections = 1 PROVE OneTag'
    BY <1>1 DEF OneTag
  <2>1. /\ \A e \in Waiting : e.tag \in 1 .. delivered /\ e.tag # n /\ e.tag \in 1 .. n
        /\ \A c \in Comps : c.delivery.tag \in 1 .. delivered /\ c.delivery.tag # n /\ c.delivery.tag \in 1 .. n
    BY <1>2 DEF IInv, OneTag
  <2>2. n \in 1 .. n
    BY <1>2
  <2>3. /\ \A e \in Waiting' : e.tag \in 1 .. n
        /\ \A c \in Comps' : c.delivery.tag \in 1 .. n
    BY <1>4, <1>6, <2>1, <2>2
  <2>4. /\ \A e \in Waiting' : e.tag \in DOMAIN unacked' => unacked'[e.tag] = e.message
        /\ \A c \in Comps' : c.delivery.tag \in DOMAIN unacked' => unacked'[c.delivery.tag] = c.delivery.message
    BY <1>3, <1>4, <1>6, <2>1 DEF IInv, OneTag
  <2>5. \A e, f \in Waiting' : e.tag = f.tag => e = f
    BY <1>4, <1>6, <2>1 DEF IInv, OneTag
  <2>6. /\ \A e \in Waiting', c \in Comps' : e.tag # c.delivery.tag
        /\ \A c, e \in Comps' : c.delivery.tag = e.delivery.tag => c = e
    BY <1>4, <1>6, <2>1 DEF IInv, OneTag
  <2>7. QED BY <1>1, <2>3, <2>4, <2>5, <2>6 DEF OneTag
<1>15. FirstUp'
  <2> SUFFICES ASSUME connections = 1 PROVE FirstUp'
    BY <1>1 DEF FirstUp
  <2>1. FirstUp /\ connected /\ m \notin queue' /\ settled[m] = "no"
    BY <1>1 DEF IInv, FirstUp
  <2>2. \A t \in DOMAIN unacked : unacked[t] # m
    BY <1>1, <2>1 DEF FirstUp
  <2>3. \A e \in Waiting' : e.tag \in DOMAIN unacked'
    BY <1>3, <1>4, <1>6, <2>1 DEF FirstUp
  <2>4. \A t, u \in DOMAIN unacked' : unacked'[t] = unacked'[u] => t = u
    BY <1>3, <2>1, <2>2 DEF FirstUp
  <2>5. \A t \in DOMAIN unacked' : unacked'[t] \notin queue' /\ settled'[unacked'[t]] = "no"
    BY <1>1, <1>3, <2>1, <2>2 DEF FirstUp
  <2>6. \A k \in Messages : "Ack" \in decisions'[k] =>
            \/ settled'[k] = "Ack"
            \/ \E c \in Comps' : /\ c.delivery.message = k /\ c.action = "Ack"
                                 /\ c.delivery.tag \in DOMAIN unacked'
    BY <1>1, <1>3, <1>6, <2>1 DEF FirstUp
  <2>7. \A k \in queue' : settled'[k] = "no"
    BY <1>1, <2>1 DEF FirstUp
  <2>8. QED BY <2>3, <2>4, <2>5, <2>6, <2>7 DEF FirstUp
<1>16. QED BY <1>8, <1>9, <1>10, <1>11, <1>12, <1>13, <1>14, <1>15 DEF IInv

LEMMA SettleInv ==
    ASSUME IInv, BrokerSettle
    PROVE  IInv'
<1> DEFINE c0 == Head(outbound)
           t == c0.delivery.tag
           m == unacked[t]
<1>1. /\ UNCHANGED <<delivered, connections, connected, inbound, dispatch, tasks, commands, decisions,
                     stopping, pool, driver>>
      /\ outbound # <<>> /\ outbound' = Tail(outbound)
      /\ t \in DOMAIN unacked /\ unacked' = Without(unacked, t)
      /\ queue' = IF c0.action = "Requeue" THEN queue \cup {m} ELSE queue
      /\ settled' = IF c0.action = "Requeue" THEN settled ELSE [settled EXCEPT ![m] = c0.action]
      /\ TypeOK
  BY DEF BrokerSettle, link, stop, IInv
<1>2. /\ outbound' \in Seq(Completions) /\ c0 \in Completions
      /\ Elements(outbound) = {c0} \cup Elements(outbound')
  BY <1>1, TailElements DEF TypeOK
<1>3. /\ DOMAIN unacked' = DOMAIN unacked \ {t}
      /\ \A u \in DOMAIN unacked' : unacked'[u] = unacked[u]
      /\ m \in Messages
  BY <1>1 DEF Without, TypeOK
<1>4. c0.action \in Actions /\ c0.delivery \in Deliveries
  BY <1>2 DEF Completions
<1>5. settled \in [Messages -> {"no", "Ack", "Reject"}]
  BY <1>1 DEF TypeOK
<1>6. /\ \A k \in Messages : settled'[k] = IF k = m /\ c0.action # "Requeue" THEN c0.action ELSE settled[k]
      /\ settled' \in [Messages -> {"no", "Ack", "Reject"}]
  <2>1. CASE c0.action = "Requeue"
    BY <1>1, <1>5, <2>1
  <2>2. CASE c0.action # "Requeue"
    BY <1>1, <1>3, <1>4, <1>5, <2>2 DEF Actions
  <2>3. QED BY <2>1, <2>2
<1>7. /\ Waiting' = Waiting /\ c0 \in Comps /\ Comps = {c0} \cup Comps'
      /\ Known' = Waiting' \cup {c.delivery : c \in Comps'}
  <2>1. Comps' = Elements(commands) \cup Elements(outbound')
    BY <1>1 DEF Comps, Elements
  <2>2. Comps = {c0} \cup Comps'
    BY <1>2, <2>1 DEF Comps
  <2>3. Waiting' = Waiting
    BY <1>1 DEF Waiting, Elements
  <2>4. Known' = Waiting' \cup {c.delivery : c \in Comps'}
    BY DEF Known, Waiting, Comps
  <2>5. QED BY <2>2, <2>3, <2>4
<1>8. TypeOK'
  <2>1. queue' \subseteq Messages
    BY <1>1, <1>3 DEF TypeOK
  <2>2. DOMAIN unacked' \subseteq 1 .. delivered /\ \A u \in DOMAIN unacked' : unacked'[u] \in Messages
    BY <1>1, <1>3 DEF TypeOK
  <2>3. QED BY <1>1, <1>2, <1>6, <2>1, <2>2 DEF TypeOK
<1>9. EveryDeliveryIsHeld'
  <2> SUFFICES ASSUME driver = "running", NEW u \in DOMAIN unacked'
               PROVE  Delivery(unacked'[u], u) \in Known'
    BY <1>1 DEF EveryDeliveryIsHeld, Delivery
  <2>1. Delivery(unacked[u], u) \in Known /\ u # t
    BY <1>3 DEF IInv, EveryDeliveryIsHeld
  <2>2. Delivery(unacked[u], u).tag = u
    BY DEF Delivery
  <2>3. QED BY <1>3, <1>7, <2>1, <2>2, KnownIs
<1>10. connections = 1 => c0.delivery.message = m
  BY <1>1, <1>7 DEF IInv, OneTag
<1>11. DecisionsStayApart'
  <2>1. connections = 1 => c0.action \in decisions[m]
    BY <1>7, <1>10 DEF IInv, Decided
  <2>2. QED BY <1>1, <1>6, <2>1 DEF IInv, DecisionsStayApart, SettledByOwnDecision
<1>12. LinkOrder' /\ StopOrder'
  <2>1. connected /\ connections # 0
    BY <1>1, <1>7 DEF IInv, LinkOrder
  <2>2. QED BY <1>1, <2>1 DEF IInv, LinkOrder, StopOrder
<1>13. Decided' /\ Places'
  BY <1>1, <1>7 DEF IInv, Decided, Places, Elements
<1>14. OneTag'
  BY <1>1, <1>3, <1>7 DEF IInv, OneTag
<1>15. FirstUp'
  <2> SUFFICES ASSUME connected, connections = 1 PROVE FirstUp'
    BY <1>1 DEF FirstUp
  <2>1. /\ FirstUp /\ m \notin queue /\ settled[m] = "no"
        /\ \A u \in DOMAIN unacked' : unacked[u] # m
    BY <1>1, <1>3 DEF IInv, FirstUp
  <2>2. \A e \in Waiting' : e.tag \in DOMAIN unacked'
    BY <1>3, <1>7, <2>1 DEF IInv, OneTag, FirstUp
  <2>3. \A u, v \in DOMAIN unacked' : unacked'[u] = unacked'[v] => u = v
    BY <1>3, <2>1 DEF FirstUp
  <2>4. \A u \in DOMAIN unacked' : unacked'[u] \notin queue' /\ settled'[unacked'[u]] = "no"
    <3> SUFFICES ASSUME NEW u \in DOMAIN unacked' PROVE unacked'[u] \notin queue' /\ settled'[unacked'[u]] = "no"
      OBVIOUS
    <3>1. unacked'[u] = unacked[u] /\ u \in DOMAIN unacked /\ unacked[u] # m /\ unacked[u] \in Messages
      BY <1>1, <1>3, <2>1 DEF TypeOK
    <3>2. QED BY <1>1, <1>6, <2>1, <3>1 DEF FirstUp
  <2>5. \A k \in queue' : settled'[k] = "no"
    BY <1>1, <1>6, <2>1 DEF FirstUp, TypeOK
  <2>6. ASSUME NEW k \in Messages, "Ack" \in decisions[k]
        PROVE  \/ settled'[k] = "Ack"
               \/ \E c \in Comps' : /\ c.delivery.message = k /\ c.action = "Ack"
                                    /\ c.delivery.tag \in DOMAIN unacked'
    <3>1. CASE settled[k] = "Ack"
      BY <1>6, <2>1, <3>1
    <3>2. ASSUME NEW c \in Comps, c.delivery.message = k, c.action = "Ack", c.delivery.tag \in DOMAIN unacked
          PROVE  \/ settled'[k] = "Ack"
                 \/ \E e \in Comps' : /\ e.delivery.message = k /\ e.action = "Ack"
                                      /\ e.delivery.tag \in DOMAIN unacked'
      <4>1. CASE c = c0
        BY <1>6, <1>10, <3>2, <4>1
      <4>2. CASE c # c0
        <5>1. c \in Comps' /\ c.delivery.tag # t
          BY <1>7, <4>2 DEF IInv, OneTag
        <5>2. QED BY <1>3, <3>2, <5>1
      <4>3. QED BY <4>1, <4>2
    <3>3. QED BY <2>1, <2>6, <3>1, <3>2 DEF FirstUp
  <2>7. QED BY <1>1, <2>2, <2>3, <2>4, <2>5, <2>6 DEF FirstUp
<1>16. QED BY <1>8, <1>9, <1>11, <1>12, <1>13, <1>14, <1>15 DEF IInv

-----------------------------------------------------------------------------
(* The connection.                                                         *)

LEMMA ConnectInv ==
    ASSUME IInv, Connect
    PROVE  IInv'
<1>1. /\ UNCHANGED <<queue, unacked, settled, inbound, outbound, dispatch, tasks, commands, decisions,
                     stopping, pool, driver>>
      /\ ~connected /\ connections' = connections + 1 /\ connected' = TRUE /\ delivered' = 0
      /\ TypeOK /\ connections \in Nat
  BY DEF Connect, stop, IInv, TypeOK
<1>2. DOMAIN unacked = {}
  BY <1>1 DEF IInv, LinkOrder
<1>3. Waiting' = Waiting /\ Comps' = Comps /\ Elements(inbound)' = Elements(inbound)
  BY <1>1 DEF Waiting, Comps, Elements
<1>4. connections' = 1 =>
          /\ Waiting' = {} /\ Comps' = {}
          /\ \A m \in Messages : settled[m] = "no" /\ decisions[m] = {}
  BY <1>1, <1>3 DEF IInv, LinkOrder
<1>5. TypeOK'
  BY <1>1, <1>2 DEF TypeOK
<1>6. EveryDeliveryIsHeld'
  BY <1>1, <1>2 DEF EveryDeliveryIsHeld
<1>7. DecisionsStayApart'
  BY <1>1, <1>4 DEF DecisionsStayApart, SettledByOwnDecision
<1>8. LinkOrder' /\ StopOrder' /\ Decided'
  BY <1>1, <1>3 DEF IInv, LinkOrder, StopOrder, Decided
<1>9. Places'
  <2> SUFFICES ASSUME connections' = 1 PROVE Places'
    BY DEF Places
  <2>1. Elements(inbound) = {} /\ dispatch = {} /\ tasks = {}
    BY <1>3, <1>4 DEF Waiting
  <2>2. DOMAIN inbound = {}
    BY <2>1 DEF Elements
  <2>3. QED BY <1>1, <1>3, <2>1, <2>2 DEF Places
<1>10. OneTag'
  BY <1>4 DEF OneTag
<1>11. FirstUp'
  <2> SUFFICES ASSUME connections' = 1 PROVE FirstUp'
    BY DEF FirstUp
  <2>1. /\ DOMAIN unacked' = {} /\ queue' \subseteq Messages /\ Waiting' = {}
        /\ \A m \in Messages : settled'[m] = "no" /\ decisions'[m] = {}
    BY <1>1, <1>2, <1>4 DEF TypeOK
  <2>2. QED BY <2>1 DEF FirstUp
<1>12. QED BY <1>5, <1>6, <1>7, <1>8, <1>9, <1>10, <1>11 DEF IInv

LEMMA DropInv ==
    ASSUME IInv, Drop, dispatch = {}, commands' = commands, stopping' = stopping, pool' = pool,
           driver' \in {"running", "stopping", "stopped"},
           driver' = "running" => driver = "running", StopOrder'
    PROVE  IInv'
<1>1. /\ UNCHANGED <<delivered, settled, connections, dispatch, tasks, commands, decisions, stopping, pool>>
      /\ connected' = FALSE /\ queue' = queue \cup {unacked[t] : t \in DOMAIN unacked}
      /\ unacked' = NoTags /\ inbound' = <<>> /\ outbound' = <<>>
      /\ TypeOK
  BY DEF Drop, IInv
<1>2. DOMAIN unacked' = {}
  BY <1>1 DEF NoTags
<1>3. queue' \subseteq Messages
  BY <1>1 DEF TypeOK
<1>4. /\ Elements(inbound)' = {} /\ Elements(outbound)' = {} /\ DOMAIN inbound' = {}
      /\ Elements(commands)' = Elements(commands)
  BY <1>1 DEF Elements
<1>5. Waiting' = tasks /\ Waiting' \subseteq Waiting /\ Comps' \subseteq Comps
  BY <1>1, <1>4 DEF Waiting, Comps
<1>6. TypeOK'
  <2>1. inbound' \in Seq(Deliveries) /\ outbound' \in Seq(Completions)
    BY <1>1
  <2>2. QED BY <1>1, <1>2, <1>3, <2>1 DEF TypeOK
<1>7. EveryDeliveryIsHeld'
  BY <1>2 DEF EveryDeliveryIsHeld
<1>8. DecisionsStayApart'
  BY <1>1 DEF IInv, DecisionsStayApart, SettledByOwnDecision
<1>9. LinkOrder' /\ Decided'
  BY <1>1, <1>2, <1>5 DEF IInv, LinkOrder, Decided
<1>10. Places'
  BY <1>1, <1>4 DEF Places
<1>11. OneTag'
  BY <1>1, <1>2, <1>5 DEF IInv, OneTag
<1>12. FirstUp'
  BY <1>1 DEF FirstUp
<1>13. QED BY <1>6, <1>7, <1>8, <1>9, <1>10, <1>11, <1>12 DEF IInv

-----------------------------------------------------------------------------
(* The theorems.                                                           *)

LEMMA StopStepInv ==
    ASSUME IInv, OnStop
    PROVE  IInv'
<1>1. UNCHANGED <<broker, link, inbound, outbound, dispatch, tasks, commands, decisions>>
  BY DEF OnStop, StopBegin, PoolShutdown, DriverStop
<1>2. /\ stopping' \in BOOLEAN /\ pool' \in {"running", "closing", "stopped"}
      /\ driver' \in {"running", "stopping", "stopped"}
      /\ driver' = "running" => driver = "running"
  BY DEF OnStop, StopBegin, PoolShutdown, DriverStop, IInv, TypeOK
<1>3. StopOrder'
  BY DEF OnStop, StopBegin, PoolShutdown, DriverStop, IInv, StopOrder
<1>4. QED BY <1>1, <1>2, <1>3, SameInv

LEMMA DisconnectInv ==
    ASSUME IInv, Disconnect
    PROVE  IInv'
<1>1. /\ Drop /\ dispatch = {} /\ commands' = commands /\ stopping' = stopping /\ pool' = pool /\ driver' = driver
      /\ tasks' = tasks
  BY DEF Disconnect, Drop, stop
<1>2. StopOrder' /\ driver' \in {"running", "stopping", "stopped"}
  BY <1>1 DEF IInv, StopOrder, TypeOK
<1>3. QED BY <1>1, <1>2, DropInv

LEMMA DriverLeavesInv ==
    ASSUME IInv, DriverLeaves
    PROVE  IInv'
<1>1. /\ Drop /\ dispatch = {} /\ commands' = commands /\ stopping' = stopping /\ pool' = pool
      /\ driver = "stopping" /\ driver' = "stopped" /\ tasks' = tasks
  BY DEF DriverLeaves, Drop
<1>2. StopOrder'
  BY <1>1 DEF IInv, StopOrder
<1>3. QED BY <1>1, <1>2, DropInv

LEMMA NextInv == IInv /\ [Next]_vars => IInv'
<1> SUFFICES ASSUME IInv, [Next]_vars PROVE IInv'
  OBVIOUS
<1>1. CASE UNCHANGED vars
  <2>1. /\ UNCHANGED <<broker, link, inbound, outbound, dispatch, tasks, commands, decisions>>
        /\ stopping' = stopping /\ pool' = pool /\ driver' = driver /\ tasks' = tasks
    BY <1>1 DEF vars, stop
  <2>2. /\ StopOrder' /\ stopping' \in BOOLEAN /\ pool' \in {"running", "closing", "stopped"}
        /\ driver' \in {"running", "stopping", "stopped"}
    BY <2>1 DEF IInv, StopOrder, TypeOK
  <2>3. QED BY <2>1, <2>2, SameInv
<1>2. ASSUME NEW m \in Messages, BrokerDeliver(m) PROVE IInv'
  BY <1>2, DeliverInv
<1>3. CASE BrokerSettle
  BY <1>3, SettleInv
<1>4. CASE Connect
  BY <1>4, ConnectInv
<1>5. CASE Disconnect
  BY <1>5, DisconnectInv
<1>6. CASE HandleIncomingMessage
  BY <1>6, HandleIncomingInv
<1>7. CASE Submit
  BY <1>7, SubmitInv
<1>8. CASE RunCompletion
  BY <1>8, RunCompletionInv
<1>9. CASE DriverLeaves
  BY <1>9, DriverLeavesInv
<1>10. ASSUME NEW d \in tasks, NEW a \in Actions, Handle(d, a) PROVE IInv'
  BY <1>10, HandleInv
<1>11. CASE OnStop
  BY <1>11, StopStepInv
<1>12. QED
  BY <1>1, <1>2, <1>3, <1>4, <1>5, <1>6, <1>7, <1>8, <1>9, <1>10, <1>11 DEF Next, Driver, Worker

LEMMA Inductive == Spec => []IInv
BY InitInv, NextInv, PTL DEF Spec

\* The broker and the module agree on what is under way: as long as the driver
\* runs, a delivery that occupies a slot of the prefetch window is with the
\* driver, with a handler or on its way back; and while a tag names one delivery
\* a message is never disposed of by the decision on another one.
THEOREM BrokerAndModuleAgree == Spec => []DeliveriesAgree
<1>1. IInv => DeliveriesAgree
  BY DEF IInv, DeliveriesAgree
<1>2. QED BY <1>1, Inductive, PTL

LEMMA OnlyDriverLeaves ==
    ASSUME Next, driver # driver', driver' = "stopped"
    PROVE  DriverLeaves
BY DEF Next, BrokerDeliver, BrokerSettle, Connect, Disconnect, Drop, Driver, HandleIncomingMessage, Submit,
       RunCompletion, Worker, Handle, OnStop, StopBegin, PoolShutdown, DriverStop, stop

\* OnStop shuts the workers down before the driver, and the driver drains its
\* commands before it leaves: on a link that holds, a message that a handler
\* has acknowledged is acknowledged at the broker when the driver has stopped.
THEOREM StopKeepsEveryAck == Spec => StopKeepsAcks
<1> DEFINE Step == (driver # driver' /\ driver' = "stopped" /\ connected /\ connections = 1 /\ outbound = <<>>) =>
                       \A m \in Messages : "Ack" \in decisions[m] => settled[m] = "Ack"
<1>1. IInv /\ [Next]_vars => [Step]_vars
  <2> SUFFICES ASSUME IInv, Next, driver # driver', driver' = "stopped", connected, connections = 1,
                      outbound = <<>>, NEW m \in Messages, "Ack" \in decisions[m]
               PROVE  settled[m] = "Ack"
    OBVIOUS
  <2>1. DriverLeaves
    BY OnlyDriverLeaves
  <2>2. commands = <<>>
    BY <2>1 DEF DriverLeaves
  <2>3. Comps = {}
    BY <2>2, EmptyElements DEF Comps
  <2>4. QED BY <2>3 DEF IInv, FirstUp
<1>2. QED BY <1>1, Inductive, PTL DEF Spec, StopKeepsAcks

-----------------------------------------------------------------------------
(* ConsumerControl: the inductive invariant.  It says of each consumer's   *)
(* channel which request is under way and who waits for it, and what the   *)
(* driver will believe once it has read each of the frames that come.      *)

HIDE ConsumerDeliveryAssumption

\* Callers of the same consumer take turns: none calls before the other has
\* returned.
TakeTurns == \A k, l \in Calls : Controls(k, Target[l]) /\ Controls(l, Target[l]) => k = l

\* A frame that answers a request, and who has asked and still waits for it.
Answers(f) == f.is \in {"qos", "consume", "cancel", "error"}

Awaited(f, c) ==
    IF f.by = Boot
    THEN /\ connection = "setup" /\ boot.asked /\ boot.stage = "consumers" /\ boot.index = c
         /\ f.is # "cancel"
         /\ f.is = "consume" => c \in AutoStart
    ELSE /\ connection = "ready" /\ f.by \in Calls /\ Target[f.by] = c /\ call[f.by].stage = "waiting"
         /\ f.is # "qos"

\* A consumer's channel has one request at a time, under way or answered.
OneRequest(c) ==
    /\ Len(to_broker[c]) <= 1
    /\ to_broker[c] # <<>> => \A i \in DOMAIN to_driver[c] : ~ Answers(to_driver[c][i])
    /\ \A i, j \in DOMAIN to_driver[c] : Answers(to_driver[c][i]) /\ Answers(to_driver[c][j]) => i = j

Requests(c) ==
    \A i \in DOMAIN to_broker[c] : LET f == to_broker[c][i] IN
        /\ f.is \in {"qos", "consume", "cancel"} /\ Awaited(f, c)
        /\ f.is = "cancel" => runtime[c].active /\ f.tag = runtime[c].active_tag
        /\ f.is # "cancel" => ~ runtime[c].active

Answered(c) ==
    \A i \in DOMAIN to_driver[c] : LET f == to_driver[c][i] IN
        /\ f.is # "setup"
        /\ Answers(f) => Awaited(f, c)
        /\ f.is \in {"qos", "consume"} => ~ runtime[c].active

\* What the driver will believe once it has read what comes before the frame i.
RunsAt(c, i) ==
    \/ \E j \in 1 .. i - 1 : to_driver[c][j].is = "consume"
    \/ runtime[c].active /\ \A j \in 1 .. i - 1 : to_driver[c][j].is \notin {"cancel", "error"}

Consumes(c) == runtime[c].active \/ \E i \in DOMAIN to_driver[c] : to_driver[c][i].is = "consume"

\* Broker and driver agree about the consumer, up to what is under way.
Stream(c) ==
    /\ \A i \in DOMAIN to_driver[c] : to_driver[c][i].is = "deliver" => RunsAt(c, i)
    /\ consuming[c] # {} => RunsAt(c, Len(to_driver[c]) + 1)
    /\ \A t \in consuming[c] :
          /\ \A i \in DOMAIN to_driver[c] : to_driver[c][i].is = "consume" => to_driver[c][i].tag = t
          /\ runtime[c].active => runtime[c].active_tag = t
    /\ Consumes(c) /\ consuming[c] = {} =>
          \/ pending_disconnect
          \/ \E i \in DOMAIN to_driver[c] : to_driver[c][i].is \in {"cancel", "cancelled", "error"}
    /\ runtime[c].active => wish[c]

Channel(c) == OneRequest(c) /\ Requests(c) /\ Answered(c) /\ Stream(c)

Untouched(c) ==
    to_broker[c] = <<>> /\ to_driver[c] = <<>> /\ consuming[c] = {} /\ ~ runtime[c].active

\* The channel of the handshake and of the topology.
Setup ==
    /\ Len(to_broker[0]) + Len(to_driver[0]) <= 1
    /\ \A i \in DOMAIN to_broker[0] : to_broker[0][i].is = "setup"
    /\ \A i \in DOMAIN to_driver[0] : to_driver[0][i].is \in {"setup", "error"}
    /\ to_broker[0] # <<>> \/ to_driver[0] # <<>> =>
          connection = "setup" /\ boot.asked /\ boot.stage \notin {"consumers", "done"}
    /\ consuming[0] = {}

\* What the bootstrap has done and what it has not come to.
Chain ==
    /\ ~ boot.asked => connection = "setup"
    /\ connection = "setup" => boot.stage # "done"
    /\ connection = "ready" => boot.stage = "done" /\ boot.asked
    /\ \A c \in Consumers :
          /\ \/ connection = "down"
             \/ connection = "setup" /\ boot.stage # "consumers"
             \/ connection = "setup" /\ boot.index < c
             \/ connection = "setup" /\ boot.index = c /\ ~ boot.asked
             => Untouched(c)
          /\ \/ connection = "ready"
             \/ connection = "setup" /\ boot.stage = "consumers" /\ c < boot.index
             => (runtime[c].active <=> wish[c])
          /\ connection = "setup" /\ boot.stage = "consumers" /\ boot.index = c /\ boot.asked =>
                (wish[c] <=> c \in AutoStart)

ControlInv == ControlTypeOK /\ Setup /\ Chain /\ \A c \in Consumers : Channel(c)

-----------------------------------------------------------------------------
(* Sequences, and channels in general.                                     *)

\* What Head and Tail leave of a sequence.
LEMMA TailFacts ==
    ASSUME NEW S, NEW s \in Seq(S), s # <<>>
    PROVE  /\ Len(s) \in Nat \ {0} /\ DOMAIN s = 1 .. Len(s)
           /\ Head(s) = s[1] /\ Head(s) \in S
           /\ Tail(s) \in Seq(S) /\ Len(Tail(s)) = Len(s) - 1 /\ DOMAIN Tail(s) = 1 .. Len(s) - 1
           /\ \A i \in 1 .. Len(s) - 1 : Tail(s)[i] = s[i + 1]
OBVIOUS

\* The prover does not find this one by itself.
LEMMA NothingLeft ==
    ASSUME NEW S, NEW s \in Seq(S), Len(s) = 0
    PROVE  s = <<>>
OBVIOUS

\* What Append adds to a sequence.
LEMMA AppendFacts ==
    ASSUME NEW S, NEW s \in Seq(S), NEW e \in S
    PROVE  /\ Len(s) \in Nat /\ DOMAIN s = 1 .. Len(s)
           /\ Append(s, e) \in Seq(S) /\ Len(Append(s, e)) = Len(s) + 1
           /\ DOMAIN Append(s, e) = 1 .. Len(s) + 1
           /\ \A i \in 1 .. Len(s) : Append(s, e)[i] = s[i]
           /\ Append(s, e)[Len(s) + 1] = e
OBVIOUS

\* The types of one channel.
LEMMA ChannelTypes ==
    ASSUME ControlTypeOK, NEW c \in Channels
    PROVE  /\ to_broker[c] \in Seq(Forth) /\ to_driver[c] \in Seq(Back)
           /\ consuming[c] \in SUBSET (Nat \ {0})
BY DEF ControlTypeOK, Forth, Back

\* A channel nothing happens on.
LEMMA ChannelKept ==
    ASSUME NEW c \in Consumers, Channel(c),
           to_broker'[c] = to_broker[c], to_driver'[c] = to_driver[c], consuming'[c] = consuming[c],
           runtime'[c].active = runtime[c].active,
           runtime[c].active => runtime'[c].active_tag = runtime[c].active_tag,
           runtime[c].active => wish'[c],
           pending_disconnect => pending_disconnect',
           \A f : Awaited(f, c) => Awaited(f, c)'
    PROVE  Channel(c)'
<1>1. OneRequest(c)'
  BY DEF Channel, OneRequest
<1>2. Requests(c)'
  BY DEF Channel, Requests
<1>3. Answered(c)'
  BY DEF Channel, Answered
<1>4. Stream(c)'
  BY DEF Channel, Stream, RunsAt, Consumes
<1> QED
  BY <1>1, <1>2, <1>3, <1>4 DEF Channel

\* A channel on which there is nothing.
LEMMA ChannelSilent ==
    ASSUME NEW c \in Consumers, to_broker'[c] = <<>>, to_driver'[c] = <<>>, consuming'[c] = {},
           ~ runtime'[c].active
    PROVE  Channel(c)'
BY DEF Channel, OneRequest, Requests, Answered, Stream, RunsAt, Consumes

\* A request is sent on a channel with none under way.
LEMMA RequestSent ==
    ASSUME ControlTypeOK, NEW c \in Consumers, Channel(c), NEW f \in Forth,
           to_broker[c] = <<>>, \A i \in DOMAIN to_driver[c] : ~ Answers(to_driver[c][i]),
           to_broker'[c] = Append(to_broker[c], f),
           to_driver'[c] = to_driver[c], consuming'[c] = consuming[c],
           runtime'[c].active = runtime[c].active,
           runtime[c].active => runtime'[c].active_tag = runtime[c].active_tag,
           runtime[c].active => wish'[c],
           pending_disconnect => pending_disconnect',
           f.is \in {"qos", "consume", "cancel"}, Awaited(f, c)',
           f.is = "cancel" => runtime[c].active /\ f.tag = runtime[c].active_tag,
           f.is # "cancel" => ~ runtime[c].active
    PROVE  Channel(c)'
<1> c \in Channels
  BY ControlAssumption DEF Consumers, Channels
<1>0. Len(to_broker'[c]) = 1 /\ DOMAIN to_broker'[c] = {1} /\ to_broker'[c][1] = f
  <2>1. to_broker[c] \in Seq(Forth) /\ Len(to_broker[c]) = 0
    BY ChannelTypes
  <2> QED
    BY <2>1, AppendFacts
<1>1. OneRequest(c)'
  BY <1>0 DEF Channel, OneRequest
<1>2. Requests(c)'
  BY <1>0 DEF Channel, Requests
<1>3. Answered(c)'
  BY DEF Channel, Answered
<1>4. Stream(c)'
  BY DEF Channel, Stream, RunsAt, Consumes
<1> QED
  BY <1>1, <1>2, <1>3, <1>4 DEF Channel

-----------------------------------------------------------------------------
(* The types.                                                              *)

\* Nobody consumes on a channel that is asked to, so the tag is the first.
LEMMA FreshIsFirst ==
    ASSUME NEW c \in Channels, consuming[c] = {}
    PROVE  FreshTag(c) = 1
<1>1. Cardinality({}) = 0
  BY FS_EmptySet, Zenon
<1> QED
  BY <1>1 DEF FreshTag

\* The frames that are sent have the type of their direction.
LEMMA FrameTypes ==
    /\ Frame("setup", NoTag, Boot) \in Forth /\ Frame("qos", NoTag, Boot) \in Forth
    /\ \A by \in Calls \cup {Boot} : Frame("consume", NoTag, by) \in Forth
    /\ \A tag \in Nat, by \in Calls : Frame("cancel", tag, by) \in Forth
    /\ \A tag \in Nat : Frame("deliver", tag, Boot) \in Back /\ Frame("cancelled", tag, Boot) \in Back
BY DEF Frame, Frames, Forth, Back, NoTag

\* The records that actions build have their types.
LEMMA RecordTypes ==
    /\ NoRuntime \in Runtimes /\ [NoRuntime EXCEPT !.channel = TRUE] \in Runtimes
    /\ NoCall \in CallStates
    /\ \A asks \in {"start", "stop"} : [stage |-> "queued", asks |-> asks] \in CallStates
    /\ \A x \in CallStates : [x EXCEPT !.stage = "waiting"] \in CallStates
    /\ \A x \in Runtimes, tag \in Nat : /\ [x EXCEPT !.active = TRUE, !.active_tag = tag] \in Runtimes
                                        /\ [x EXCEPT !.active = FALSE, !.active_tag = NoTag] \in Runtimes
BY DEF Runtimes, CallStates, NoRuntime, NoCall, NoTag

\* The bootstrap's steps have theirs.
LEMMA StepTypes ==
    /\ At("handshake", 1, TRUE) \in Steps /\ At("done", 1, TRUE) \in Steps
    /\ At("confirms", 1, FALSE) \in Steps /\ At("exchanges", 1, FALSE) \in Steps
    /\ \A stage \in {"handshake", "confirms", "exchanges", "queues", "bindings", "consumers", "done"},
          index \in Nat \ {0} : At(stage, index, TRUE) \in Steps /\ At(stage, index, FALSE) \in Steps
    /\ \A b \in Steps : /\ b.stage \in {"handshake", "confirms", "exchanges", "queues", "bindings", "consumers", "done"}
                        /\ b.index \in Nat \ {0} /\ b.index + 1 \in Nat \ {0}
BY DEF At, Steps

\* Consumers are numbered from 1; the channel 0 is none of theirs.
LEMMA ControlNumbers ==
    /\ 0 \in Channels
    /\ \A k \in Calls : Target[k] \in Consumers
    /\ \A c \in Consumers : c \in Channels /\ c \in Nat \ {0} /\ c + 1 \in Nat \ {0}
    /\ \A c \in Channels : c = 0 \/ c \in Consumers
BY ControlAssumption DEF Channels, Consumers

LEMMA AsksTypes ==
    ASSUME ControlTypeOK, NEW c \in Channels, NEW is, NEW tag, NEW by,
           Frame(is, tag, by) \in Forth, Asks(c, is, tag, by)
    PROVE  to_broker' \in [Channels -> Seq(Forth)]
BY DEF ControlTypeOK, Asks

LEMMA ControlInitial == ControlInit => ControlInv
<1> SUFFICES ASSUME ControlInit
             PROVE  ControlInv
  OBVIOUS
<1>1. ControlTypeOK
  <2>1. Silence \in [Channels -> Seq(Forth)] /\ Silence \in [Channels -> Seq(Back)]
    BY DEF Silence
  <2>2. calls \in 0 .. MaxCalls /\ faults \in 0 .. MaxFaults
    BY ControlAssumption DEF ControlInit
  <2> QED
    BY <2>1, <2>2, StepTypes, RecordTypes DEF ControlTypeOK, ControlInit
<1> USE DEF ControlInit, Silence, NoRuntime, At
<1>2. Setup
  BY ControlNumbers DEF Setup
<1>3. Chain
  BY ControlNumbers DEF Chain, Untouched
<1>4. ASSUME NEW c \in Consumers
      PROVE  Channel(c)
  BY <1>4, ControlNumbers DEF Channel, OneRequest, Requests, Answered, Stream, RunsAt, Consumes
<1> QED
  BY <1>1, <1>2, <1>3, <1>4 DEF ControlInv

\* A reply that is not the first of its channel can only go to one that consumes.
LEMMA ConsumeIsAlone ==
    ASSUME ControlInv, NEW c \in Consumers, NEW i \in DOMAIN to_broker[c], to_broker[c][i].is = "consume"
    PROVE  consuming[c] = {} /\ ~ runtime[c].active
<1>1. c \in Channels
  BY ControlNumbers
<1>2. to_driver[c] \in Seq(Back) /\ to_broker[c] \in Seq(Forth)
  BY <1>1, ChannelTypes DEF ControlInv
<1>3. ~ runtime[c].active /\ \A j \in DOMAIN to_driver[c] : ~ Answers(to_driver[c][j])
  BY <1>2 DEF ControlInv, Channel, Requests, OneRequest
<1>4. ~ RunsAt(c, Len(to_driver[c]) + 1)
  BY <1>2, <1>3 DEF RunsAt, Answers
<1> QED
  BY <1>3, <1>4 DEF ControlInv, Channel, Stream

\* Types are kept, one lemma for each action that does more than one thing.
LEMMA BootstrapTypes ==
    ASSUME ControlTypeOK, Bootstrap
    PROVE  ControlTypeOK'
<1>1. SUFFICES boot' \in Steps /\ runtime' \in [Consumers -> Runtimes] /\ to_broker' \in [Channels -> Seq(Forth)]
               /\ wish' \in [Consumers -> BOOLEAN] /\ connection' \in {"down", "setup", "ready"}
  BY DEF Bootstrap, ControlTypeOK
<1>0. /\ runtime \in [Consumers -> Runtimes] /\ to_broker \in [Channels -> Seq(Forth)] /\ wish \in [Consumers -> BOOLEAN]
      /\ connection \in {"down", "setup", "ready"}
  BY DEF ControlTypeOK
<1>b. boot.index \in Nat \ {0}
  BY StepTypes DEF ControlTypeOK
<1>d. ASSUME NEW stage \in {"confirms", "exchanges", "queues", "bindings", "consumers"}, NEW index \in Nat \ {0},
             Goes(stage, index) \/ Declares(stage, index)
      PROVE  boot' \in Steps /\ to_broker' \in [Channels -> Seq(Forth)] /\ UNCHANGED <<runtime, connection, wish>>
  <2>1. CASE Goes(stage, index)
    BY <2>1, <1>0, StepTypes DEF Goes
  <2>2. CASE Declares(stage, index)
    <3>1. to_broker' \in [Channels -> Seq(Forth)]
      BY <2>2, AsksTypes, FrameTypes, ControlNumbers DEF Declares
    <3> QED
      BY <2>2, <3>1, StepTypes DEF Declares
  <2> QED
    BY <1>d, <2>1, <2>2
<1>2. CASE EnablePublisherConfirms
  BY <1>2, <1>d, <1>0 DEF EnablePublisherConfirms
<1>3. CASE BootstrapExchanges
  BY <1>3, <1>b, <1>d, <1>0 DEF BootstrapExchanges
<1>4. CASE BootstrapQueues
  BY <1>4, <1>b, <1>d, <1>0 DEF BootstrapQueues
<1>5. CASE BootstrapBindings
  BY <1>5, <1>b, <1>d, <1>0 DEF BootstrapBindings
<1>6. CASE BootstrapConsumersDone
  BY <1>6, <1>0, StepTypes DEF BootstrapConsumersDone
<1>7. ASSUME NEW c \in Consumers, BootstrapConsumer(c)
      PROVE  /\ boot' \in Steps /\ runtime' \in [Consumers -> Runtimes] /\ to_broker' \in [Channels -> Seq(Forth)]
             /\ wish' \in [Consumers -> BOOLEAN] /\ connection' \in {"down", "setup", "ready"}
  <2>1. to_broker' \in [Channels -> Seq(Forth)]
    BY <1>7, <1>0, AsksTypes, FrameTypes, ControlNumbers DEF BootstrapConsumer, Consume
  <2>2. runtime' \in [Consumers -> Runtimes]
    BY <1>7, <1>0, RecordTypes DEF BootstrapConsumer
  <2>3. wish' \in [Consumers -> BOOLEAN]
    <3>1. (c \in AutoStart) = TRUE \/ (c \in AutoStart) = FALSE
      OBVIOUS
    <3>2. wish' = [wish EXCEPT ![c] = TRUE] \/ wish' = [wish EXCEPT ![c] = FALSE]
      BY <1>7, <3>1, Zenon DEF BootstrapConsumer
    <3> QED
      BY <1>0, <3>2
  <2>4. boot' \in Steps
    BY <1>7, StepTypes, ControlNumbers DEF BootstrapConsumer, Prepared
  <2> QED
    BY <1>7, <1>0, <2>1, <2>2, <2>3, <2>4 DEF BootstrapConsumer
<1> QED
  BY <1>2, <1>3, <1>4, <1>5, <1>6, <1>7 DEF Bootstrap

LEMMA RunTypes ==
    ASSUME ControlTypeOK, NEW k \in Calls, Run(k)
    PROVE  ControlTypeOK'
<1>1. SUFFICES to_broker' \in [Channels -> Seq(Forth)] /\ call' \in [Calls -> CallStates]
               /\ wish' \in [Consumers -> BOOLEAN]
  BY DEF Run, ControlTypeOK, driverVars
<1>0. to_broker \in [Channels -> Seq(Forth)] /\ call \in [Calls -> CallStates] /\ wish \in [Consumers -> BOOLEAN]
  BY DEF ControlTypeOK
<1>c. Target[k] \in Channels /\ runtime[Target[k]].active_tag \in Nat
  BY ControlNumbers DEF ControlTypeOK, Runtimes
<1>d. /\ Returns(k) => call' \in [Calls -> CallStates]
      /\ Says(k, TRUE) \/ Says(k, FALSE) => call' \in [Calls -> CallStates] /\ wish' \in [Consumers -> BOOLEAN]
      /\ Waits(k) => call' \in [Calls -> CallStates] /\ wish' \in [Consumers -> BOOLEAN]
  <2>1. Returns(k) => call' \in [Calls -> CallStates]
    BY <1>0, RecordTypes DEF Returns
  <2>2. [call[k] EXCEPT !.stage = "waiting"] \in CallStates
    BY <1>0, RecordTypes
  <2>3. Waits(k) => call' \in [Calls -> CallStates]
    BY <1>0, <2>2 DEF Waits
  <2> QED
    BY <1>0, <2>1, <2>3 DEF Says, Waits
<1>2. CASE RunRefused(k)
  BY <1>2, <1>0, <1>d DEF RunRefused
<1>3. CASE StartConsumer(k)
  BY <1>3, <1>0, <1>c, <1>d, AsksTypes, FrameTypes DEF StartConsumer, Consume
<1>4. CASE StopConsumer(k)
  <2>1. CASE runtime[Target[k]].active
    <3>1. Waits(k) /\ Asks(Target[k], "cancel", runtime[Target[k]].active_tag, k)
      BY <1>4, <2>1 DEF StopConsumer
    <3>2. Frame("cancel", runtime[Target[k]].active_tag, k) \in Forth
      BY <1>c, FrameTypes
    <3> QED
      BY <3>1, <3>2, <1>c, <1>d, AsksTypes
  <2>2. CASE ~ runtime[Target[k]].active
    BY <1>4, <2>2, <1>0, <1>d DEF StopConsumer
  <2> QED
    BY <2>1, <2>2
<1> QED
  BY <1>2, <1>3, <1>4 DEF Run

LEMMA ReplyTypes ==
    ASSUME ControlTypeOK, NEW c \in Channels, NEW g \in Back, NEW T \in SUBSET (Nat \ {0}), Replies(c, g, T)
    PROVE  to_driver' \in [Channels -> Seq(Back)] /\ consuming' \in [Channels -> SUBSET (Nat \ {0})]
<1>1. to_driver[c] \in Seq(Back)
  BY ChannelTypes
<1>2. Append(to_driver[c], g) \in Seq(Back)
  BY <1>1
<1> QED
  BY <1>2 DEF Replies, ControlTypeOK

LEMMA AnswerTypes ==
    ASSUME ControlInv, NEW c \in Channels, Answer(c)
    PROVE  ControlTypeOK'
<1> DEFINE r == Head(to_broker[c])
<1>0. ControlTypeOK /\ Setup
  BY DEF ControlInv
<1>1. to_broker[c] \in Seq(Forth) /\ to_broker[c] # <<>>
  BY <1>0, ChannelTypes DEF Answer
<1>2. r \in Forth /\ Tail(to_broker[c]) \in Seq(Forth) /\ 1 \in DOMAIN to_broker[c] /\ r = to_broker[c][1]
  BY <1>1, TailFacts
<1>3. ASSUME r.is = "consume"
      PROVE  consuming[c] = {} /\ FreshTag(c) = 1
  <2>1. c \in Consumers
    BY <1>0, <1>2, <1>3, ControlNumbers DEF Setup
  <2>2. consuming[c] = {}
    BY <2>1, <1>2, <1>3, ConsumeIsAlone
  <2> QED
    BY <2>2, FreshIsFirst
<1>4. PICK g \in Back, T \in SUBSET (Nat \ {0}) : Replies(c, g, T)
  <2>1. CASE r.is = "consume"
    <3>1. [r EXCEPT !.tag = 1] \in Back
      BY <1>2 DEF Forth, Back, Frames
    <3>2. Replies(c, [r EXCEPT !.tag = 1], {1})
      BY <2>1, <1>3 DEF Answer
    <3> QED
      BY <3>1, <3>2
  <2>2. CASE r.is # "consume"
    <3>1. r \in Back /\ consuming[c] \in SUBSET (Nat \ {0}) /\ consuming[c] \ {r.tag} \in SUBSET (Nat \ {0})
      BY <1>0, <1>2, ChannelTypes DEF Forth, Back, Frames
    <3>2. Replies(c, r, consuming[c]) \/ Replies(c, r, consuming[c] \ {r.tag})
      BY <2>2 DEF Answer
    <3> QED
      BY <3>1, <3>2
  <2> QED
    BY <2>1, <2>2
<1>5. to_driver' \in [Channels -> Seq(Back)] /\ consuming' \in [Channels -> SUBSET (Nat \ {0})]
  BY <1>0, <1>4, ReplyTypes
<1>6. to_broker' \in [Channels -> Seq(Forth)]
  BY <1>0, <1>2 DEF Answer, ControlTypeOK
<1> QED
  BY <1>0, <1>5, <1>6 DEF Answer, ControlTypeOK, driverVars, callVars

LEMMA RefuseTypes ==
    ASSUME ControlTypeOK, NEW c \in Channels, Refuse(c)
    PROVE  ControlTypeOK'
<1>1. to_broker[c] \in Seq(Forth) /\ to_broker[c] # <<>>
  BY ChannelTypes DEF Refuse
<1>2. Head(to_broker[c]) \in Forth
  BY <1>1, TailFacts
<1>3. [Head(to_broker[c]) EXCEPT !.is = "error"] \in Back
  BY <1>2 DEF Forth, Back, Frames
<1>4. to_driver' \in [Channels -> Seq(Back)] /\ consuming' \in [Channels -> SUBSET (Nat \ {0})]
  BY <1>3, ReplyTypes DEF Refuse
<1>5. to_broker' \in [Channels -> Seq(Forth)]
  <2>1. <<>> \in Seq(Forth)
    OBVIOUS
  <2> QED
    BY <2>1 DEF Refuse, ControlTypeOK
<1>6. faults' \in 0 .. MaxFaults
  BY ControlAssumption DEF Refuse, ControlTypeOK
<1> QED
  BY <1>4, <1>5, <1>6 DEF Refuse, ControlTypeOK, driverVars, callVars

LEMMA ReceiveTypes ==
    ASSUME ControlTypeOK, Setup, NEW c \in Channels, Receive(c)
    PROVE  ControlTypeOK'
<1> DEFINE f == Head(to_driver[c])
<1>1. to_driver[c] \in Seq(Back) /\ to_driver[c] # <<>>
  BY ChannelTypes DEF Receive
<1>2. f \in Back /\ Tail(to_driver[c]) \in Seq(Back) /\ 1 \in DOMAIN to_driver[c] /\ f = to_driver[c][1]
  BY <1>1, TailFacts
<1>3. f.tag \in Nat /\ f.by \in Calls \cup {Boot} /\ (f.is \notin {"setup", "error"} => c \in Consumers)
  BY <1>2, ControlNumbers DEF Back, Frames, Setup
<1>4. to_driver' \in [Channels -> Seq(Back)]
  BY <1>2 DEF Receive, ControlTypeOK
<1>0. /\ runtime \in [Consumers -> Runtimes] /\ to_broker \in [Channels -> Seq(Forth)] /\ boot \in Steps
      /\ call \in [Calls -> CallStates] /\ wish \in [Consumers -> BOOLEAN] /\ pending_disconnect \in BOOLEAN
  BY DEF ControlTypeOK
<1>5. SUFFICES /\ runtime' \in [Consumers -> Runtimes] /\ to_broker' \in [Channels -> Seq(Forth)] /\ boot' \in Steps
               /\ call' \in [Calls -> CallStates] /\ wish' \in [Consumers -> BOOLEAN] /\ pending_disconnect' \in BOOLEAN
  BY <1>4 DEF Receive, ControlTypeOK
<1>n. NextStep \in Steps
  <2>1. boot.stage \in {"handshake", "confirms", "exchanges", "queues", "bindings", "consumers", "done"}
        /\ boot.index + 1 \in Nat \ {0}
    BY <1>0, StepTypes
  <2> QED
    BY <2>1, StepTypes DEF NextStep
<1>6. CASE f.is = "setup" /\ Configured
  BY <1>6, <1>0, <1>n DEF Configured
<1>7. CASE f.is = "qos" /\ QosApplied(c)
  <2>1. to_broker' \in [Channels -> Seq(Forth)]
    BY <1>7, <1>0, AsksTypes, FrameTypes DEF QosApplied, Consume
  <2>2. boot' \in Steps
    BY <1>7, <1>3, <1>0, StepTypes, ControlNumbers DEF QosApplied, Prepared
  <2> QED
    BY <1>7, <1>0, <2>1, <2>2 DEF QosApplied
<1>8. CASE f.is = "consume" /\ Consumed(c, f)
  <2>1. runtime' \in [Consumers -> Runtimes]
    <3>1. c \in Consumers /\ [runtime[c] EXCEPT !.active = TRUE, !.active_tag = f.tag] \in Runtimes
      BY <1>0, <1>3, <1>8, RecordTypes
    <3>2. runtime' = [runtime EXCEPT ![c] = [runtime[c] EXCEPT !.active = TRUE, !.active_tag = f.tag]]
      BY <1>8, <3>1, <1>0 DEF Consumed
    <3> QED
      BY <3>1, <3>2, <1>0
  <2>2. call' \in [Calls -> CallStates] /\ wish' \in [Consumers -> BOOLEAN] /\ boot' \in Steps
    BY <1>0, <1>n, <1>8, RecordTypes DEF Consumed, BootGoesOn, Says, Returns
  <2> QED
    BY <1>8, <1>0, <2>1, <2>2 DEF Consumed
<1>9. CASE f.is = "cancel" /\ Cancelled(c, f)
  <2>1. runtime' \in [Consumers -> Runtimes]
    <3>1. c \in Consumers /\ [runtime[c] EXCEPT !.active = FALSE, !.active_tag = NoTag] \in Runtimes
      BY <1>0, <1>3, <1>9, RecordTypes
    <3>2. runtime' = [runtime EXCEPT ![c] = [runtime[c] EXCEPT !.active = FALSE, !.active_tag = NoTag]]
      BY <1>9, <3>1, <1>0 DEF Cancelled
    <3> QED
      BY <3>1, <3>2, <1>0
  <2>2. call' \in [Calls -> CallStates] /\ wish' \in [Consumers -> BOOLEAN]
    BY <1>0, <1>9, RecordTypes DEF Cancelled, Says, Returns
  <2> QED
    BY <1>9, <1>0, <2>1, <2>2 DEF Cancelled
<1>10. CASE f.is = "deliver" /\ HandlesMessage
  BY <1>10, <1>0 DEF HandlesMessage
<1>11. CASE ChannelFails(c, FALSE) \/ ChannelFails(c, TRUE)
  <2>1. call' \in [Calls -> CallStates]
    BY <1>11, <1>0, RecordTypes DEF ChannelFails
  <2> QED
    BY <1>11, <1>0, <2>1 DEF ChannelFails
<1> QED
  BY <1>6, <1>7, <1>8, <1>9, <1>10, <1>11 DEF Receive

\* Every step keeps the types.
LEMMA ControlTypesKept ==
    ASSUME ControlInv, [ControlNext]_controlVars
    PROVE  ControlTypeOK'
<1>0. ControlTypeOK /\ Setup
  BY DEF ControlInv
<1>f. faults > 0 /\ faults' = faults - 1 => faults' \in 0 .. MaxFaults
  BY <1>0, ControlAssumption DEF ControlTypeOK
<1>1. CASE ConnectSocket
  <2>1. <<Frame("setup", NoTag, Boot)>> \in Seq(Forth) /\ Silence \in [Channels -> Seq(Forth)]
    BY FrameTypes DEF Silence
  <2>2. to_broker' \in [Channels -> Seq(Forth)]
    BY <1>1, <2>1 DEF ConnectSocket
  <2>3. boot' \in Steps
    BY <1>1, StepTypes DEF ConnectSocket
  <2> QED
    BY <1>0, <1>1, <2>2, <2>3 DEF ConnectSocket, ControlTypeOK, callVars
<1>2. CASE ApplyReconnectBackoff
  BY <1>0, <1>2, <1>f DEF ApplyReconnectBackoff, ControlTypeOK, driverVars, brokerVars, callVars
<1>3. CASE ConnectionLost
  BY <1>0, <1>3, <1>f DEF ConnectionLost, ControlTypeOK, brokerVars, callVars
<1>4. CASE HandleDisconnect
  <2>1. call' \in [Calls -> CallStates]
    BY <1>0, <1>4, RecordTypes DEF HandleDisconnect, ControlTypeOK
  <2>2. Silence \in [Channels -> Seq(Forth)] /\ Silence \in [Channels -> Seq(Back)]
    BY DEF Silence
  <2>3. boot' \in Steps /\ runtime' \in [Consumers -> Runtimes]
    BY <1>4, StepTypes, RecordTypes DEF HandleDisconnect
  <2> QED
    BY <1>0, <1>4, <2>1, <2>2, <2>3 DEF HandleDisconnect, ControlTypeOK
<1>5. CASE Bootstrap
  BY <1>0, <1>5, BootstrapTypes
<1>6. ASSUME NEW k \in Calls, Enqueue(k)
      PROVE  ControlTypeOK'
  <2>1. calls' \in 0 .. MaxCalls
    BY <1>0, <1>6, ControlAssumption DEF Enqueue, ControlTypeOK
  <2>2. call' \in [Calls -> CallStates]
    <3>1. PICK asks \in {"start", "stop"} : call' = [call EXCEPT ![k] = [stage |-> "queued", asks |-> asks]]
      BY <1>6 DEF Enqueue
    <3> QED
      BY <1>0, <3>1, RecordTypes DEF ControlTypeOK
  <2> QED
    BY <1>0, <1>6, <2>1, <2>2 DEF Enqueue, ControlTypeOK, driverVars, brokerVars
<1>7. ASSUME NEW k \in Calls, Run(k)
      PROVE  ControlTypeOK'
  BY <1>0, <1>7, RunTypes
<1>8. ASSUME NEW c \in Channels, Answer(c) \/ Refuse(c) \/ Receive(c)
      PROVE  ControlTypeOK'
  BY <1>0, <1>8, AnswerTypes, RefuseTypes, ReceiveTypes
<1>9. ASSUME NEW c \in Consumers, Push(c) \/ CancelConsumer(c)
      PROVE  ControlTypeOK'
  <2>0. c \in Channels /\ consuming[c] \in SUBSET (Nat \ {0})
    BY <1>0, ControlNumbers, ChannelTypes
  <2>1. PICK t \in consuming[c] : Replies(c, Frame("deliver", t, Boot), consuming[c])
                                 \/ Replies(c, Frame("cancelled", t, Boot), consuming[c] \ {t})
    BY <1>9 DEF Push, CancelConsumer
  <2>2. Frame("deliver", t, Boot) \in Back /\ Frame("cancelled", t, Boot) \in Back
        /\ consuming[c] \ {t} \in SUBSET (Nat \ {0})
    BY <2>0, FrameTypes
  <2>3. to_driver' \in [Channels -> Seq(Back)] /\ consuming' \in [Channels -> SUBSET (Nat \ {0})]
    BY <1>0, <2>0, <2>1, <2>2, ReplyTypes
  <2>4. faults' \in 0 .. MaxFaults
    BY <1>0, <1>9, <1>f DEF Push, CancelConsumer, ControlTypeOK
  <2> QED
    BY <1>0, <1>9, <2>3, <2>4 DEF Push, CancelConsumer, ControlTypeOK, driverVars, callVars
<1>10. CASE UNCHANGED controlVars
  BY <1>0, <1>10 DEF controlVars, driverVars, brokerVars, callVars, ControlTypeOK
<1> QED
  BY <1>1, <1>2, <1>3, <1>4, <1>5, <1>6, <1>7, <1>8, <1>9, <1>10 DEF ControlNext

-----------------------------------------------------------------------------
(* The rest of the invariant, one action at a time.                        *)

Rest == Setup /\ Chain /\ \A c \in Consumers : Channel(c)

\* The types that the other lemmas need, without those they do not.
LEMMA ControlShapes ==
    ASSUME ControlTypeOK
    PROVE  /\ runtime \in [Consumers -> Runtimes] /\ wish \in [Consumers -> BOOLEAN]
           /\ to_broker \in [Channels -> Seq(Forth)] /\ to_driver \in [Channels -> Seq(Back)]
           /\ DOMAIN consuming = Channels /\ call \in [Calls -> CallStates]
BY DEF ControlTypeOK

\* Nothing can be wrong with channels on which nothing is under way.
LEMMA AllChannelsSilent ==
    ASSUME \A c \in Consumers : to_broker'[c] = <<>> /\ to_driver'[c] = <<>> /\ consuming'[c] = {}
                                /\ ~ runtime'[c].active
    PROVE  \A c \in Consumers : Channel(c)' /\ Untouched(c)'
BY ChannelSilent DEF Untouched

\* A new connection and a lost one leave every channel silent.
LEMMA ConnectSocketKeeps ==
    ASSUME ControlInv, ConnectSocket
    PROVE  Rest'
<1>1. connection = "down" /\ Chain /\ Setup
  BY DEF ControlInv, ConnectSocket
<1>2. /\ to_broker'[0] = <<Frame("setup", NoTag, Boot)>>
      /\ \A c \in Consumers : to_broker'[c] = <<>>
  BY ControlNumbers, ControlAssumption DEF ConnectSocket, Silence, Consumers
<1>3. \A c \in Consumers : Channel(c)' /\ Untouched(c)'
  <2>1. \A c \in Consumers : to_driver'[c] = <<>> /\ consuming'[c] = {} /\ ~ runtime'[c].active
    BY <1>1 DEF Chain, Untouched, ConnectSocket
  <2> QED
    BY <1>2, <2>1, AllChannelsSilent
<1>4. Setup'
  <2>1. to_driver'[0] = <<>> /\ consuming'[0] = {}
    BY <1>1 DEF Setup, ConnectSocket
  <2>2. Len(to_broker'[0]) = 1 /\ DOMAIN to_broker'[0] = {1} /\ to_broker'[0][1].is = "setup"
    BY <1>2 DEF Frame
  <2>3. connection' = "setup" /\ boot'.asked /\ boot'.stage = "handshake"
    BY DEF ConnectSocket, At
  <2> QED
    BY <2>1, <2>2, <2>3 DEF Setup
<1>5. Chain'
  BY <1>3 DEF Chain, ConnectSocket, At
<1> QED
  BY <1>3, <1>4, <1>5 DEF Rest

LEMMA HandleDisconnectKeeps ==
    ASSUME ControlInv, HandleDisconnect
    PROVE  Rest'
<1>1. \A c \in Channels : to_broker'[c] = <<>> /\ to_driver'[c] = <<>> /\ consuming'[c] = {}
  BY DEF HandleDisconnect, Silence
<1>2. \A c \in Consumers : Channel(c)' /\ Untouched(c)'
  <2>1. \A c \in Consumers : ~ runtime'[c].active
    BY DEF HandleDisconnect, NoRuntime
  <2> QED
    BY <1>1, <2>1, AllChannelsSilent, ControlNumbers
<1>3. Setup'
  <2>1. to_broker'[0] = <<>> /\ to_driver'[0] = <<>> /\ consuming'[0] = {}
    BY <1>1, ControlNumbers
  <2> QED
    BY <2>1 DEF Setup
<1>4. Chain'
  BY <1>2 DEF Chain, HandleDisconnect, At
<1> QED
  BY <1>2, <1>3, <1>4 DEF Rest

\* What neither touches a channel nor moves the bootstrap.
LEMMA ElsewhereKeeps ==
    ASSUME ControlInv, UNCHANGED <<connection, boot, runtime, to_broker, to_driver, consuming, wish>>,
           pending_disconnect => pending_disconnect',
           \A k \in Calls : call[k].stage = "waiting" => call'[k].stage = "waiting"
    PROVE  Rest'
<1>1. Setup' /\ Chain'
  BY DEF ControlInv, Setup, Chain, Untouched
<1>2. ASSUME NEW c \in Consumers
      PROVE  Channel(c)'
  <2>1. Channel(c) /\ (runtime[c].active => wish[c])
    BY DEF ControlInv, Channel, Stream
  <2>2. \A f : Awaited(f, c) => Awaited(f, c)'
    BY DEF Awaited
  <2> QED
    BY <2>1, <2>2, ChannelKept
<1> QED
  BY <1>1, <1>2 DEF Rest

\* Somebody controls a consumer and is not answered yet, so nobody else is.
LEMMA NobodyElse ==
    ASSUME ControlInv, TakeTurns, NEW k \in Calls, call[k].stage = "queued", connection = "ready"
    PROVE  /\ to_broker[Target[k]] = <<>>
           /\ \A i \in DOMAIN to_driver[Target[k]] : ~ Answers(to_driver[Target[k]][i])
<1> DEFINE c == Target[k]
<1>1. c \in Consumers /\ c \in Channels
  BY ControlNumbers
<1>2. to_broker[c] \in Seq(Forth)
  BY <1>1, ChannelTypes DEF ControlInv
<1>3. \A f : ~ Awaited(f, c)
  BY DEF Awaited, TakeTurns, Controls
<1>4. Requests(c) /\ Answered(c)
  BY <1>1 DEF ControlInv, Channel
<1>5. to_broker[c] = <<>>
  <2>1. to_broker[c] # <<>> => 1 \in DOMAIN to_broker[c]
    BY <1>2, TailFacts
  <2> QED
    BY <1>3, <1>4, <2>1 DEF Requests
<1>6. \A i \in DOMAIN to_driver[c] : ~ Answers(to_driver[c][i])
  BY <1>3, <1>4 DEF Answered
<1> QED
  BY <1>5, <1>6

\* A command sends a request on a channel that carries none.
LEMMA RunKeeps ==
    ASSUME ControlInv, TakeTurns, NEW k \in Calls, Run(k)
    PROVE  Rest'
<1> DEFINE c == Target[k]
<1>0. ControlTypeOK /\ Setup /\ Chain /\ \A d \in Consumers : Channel(d)
  BY DEF ControlInv
<1>1. c \in Consumers /\ c \in Channels /\ c # 0
  BY ControlNumbers DEF Consumers
<1>2. /\ UNCHANGED <<connection, boot, pending_disconnect, runtime, to_driver, consuming>>
      /\ call[k].stage = "queued"
  BY DEF Run, driverVars
<1>3. \A l \in Calls : l # k => call'[l] = call[l]
  BY <1>0, ControlShapes DEF Run, RunRefused, StartConsumer, StopConsumer, Returns, Says, Waits
<1>4. \A d, f : Awaited(f, d) => Awaited(f, d)'
  BY <1>2, <1>3 DEF Awaited
<1>5. \A d \in Consumers : d # c => wish'[d] = wish[d] /\ to_broker'[d] = to_broker[d]
  BY <1>0, ControlShapes, ControlNumbers DEF Run, RunRefused, StartConsumer, StopConsumer, Says, Waits, Consume, Asks
<1>6. to_broker'[0] = to_broker[0]
  BY <1>0, <1>1, ControlShapes, ControlNumbers DEF Run, RunRefused, StartConsumer, StopConsumer, Consume, Asks
<1>7. ASSUME NEW d \in Consumers, d # c
      PROVE  Channel(d)' /\ wish'[d] = wish[d] /\ Untouched(d)' = Untouched(d)
  <2>1. runtime[d].active => wish[d]
    BY <1>0 DEF Channel, Stream
  <2>2. Channel(d)'
    BY <1>0, <1>2, <1>4, <1>5, <1>7, <2>1, ChannelKept
  <2> QED
    BY <1>2, <1>5, <1>7, <2>2 DEF Untouched
<1>8. Channel(c)' /\ (wish'[c] = wish[c] \/ (connection = "ready" /\ (wish'[c] <=> runtime[c].active)))
      /\ (connection # "ready" => to_broker' = to_broker)
  <2>1. runtime[c].active => wish[c]
    BY <1>0, <1>1 DEF Channel, Stream
  <2>2. ASSUME to_broker' = to_broker, runtime[c].active => wish'[c]
        PROVE  Channel(c)'
    BY <1>0, <1>1, <1>2, <1>4, <2>2, ChannelKept
  <2>3. CASE RunRefused(k)
    BY <2>1, <2>2, <2>3 DEF RunRefused
  <2>4. CASE StartConsumer(k) /\ runtime[c].active
    <3>1. to_broker' = to_broker /\ wish'[c] = TRUE /\ connection = "ready"
      BY <2>4, <1>0, <1>1, ControlShapes DEF StartConsumer, Says
    <3> QED
      BY <2>2, <2>4, <3>1
  <2>5. CASE StopConsumer(k) /\ ~ runtime[c].active
    <3>1. to_broker' = to_broker /\ wish'[c] = FALSE /\ connection = "ready"
      BY <2>5, <1>0, <1>1, ControlShapes DEF StopConsumer, Says
    <3> QED
      BY <2>2, <2>5, <3>1, <1>0, <1>1 DEF ControlTypeOK, Runtimes
  <2>6. ASSUME NEW f \in Forth, f.by = k, f.is \in {"consume", "cancel"}, connection = "ready", Waits(k),
               to_broker' = [to_broker EXCEPT ![c] = Append(@, f)],
               f.is = "cancel" => runtime[c].active /\ f.tag = runtime[c].active_tag,
               f.is # "cancel" => ~ runtime[c].active
        PROVE  Channel(c)' /\ wish'[c] = wish[c]
    <3>1. to_broker[c] = <<>> /\ \A i \in DOMAIN to_driver[c] : ~ Answers(to_driver[c][i])
      BY <1>2, <2>6, NobodyElse
    <3>2. to_broker'[c] = Append(to_broker[c], f)
      BY <1>0, <1>1, <2>6, ControlShapes
    <3>3. call'[k].stage = "waiting" /\ wish' = wish
      BY <1>0, <2>6, ControlShapes DEF Waits, CallStates
    <3>4. Awaited(f, c)'
      BY <1>2, <2>6, <3>3, ControlAssumption DEF Awaited
    <3> QED
      BY <1>0, <1>1, <1>2, <2>1, <2>6, <3>1, <3>2, <3>3, <3>4, RequestSent
  <2>7. CASE StartConsumer(k) /\ ~ runtime[c].active
    <3> DEFINE f == Frame("consume", NoTag, k)
    <3>1. f \in Forth /\ f.by = k /\ f.is = "consume"
      BY FrameTypes DEF Frame
    <3> QED
      BY <1>1, <2>6, <2>7, <3>1 DEF StartConsumer, Consume, Asks
  <2>8. CASE StopConsumer(k) /\ runtime[c].active
    <3> DEFINE f == Frame("cancel", runtime[c].active_tag, k)
    <3>1. f \in Forth /\ f.by = k /\ f.is = "cancel" /\ f.tag = runtime[c].active_tag
      BY <1>0, <1>1, ControlShapes, FrameTypes DEF Frame, Runtimes
    <3> QED
      BY <1>1, <2>6, <2>8, <3>1 DEF StopConsumer, Asks
  <2> QED
    BY <2>3, <2>4, <2>5, <2>7, <2>8 DEF Run
<1>9. Setup'
  BY <1>0, <1>2, <1>6 DEF Setup
<1>10. Chain'
  <2>1. ASSUME NEW d \in Consumers, connection = "ready"
        PROVE  (runtime'[d].active <=> wish'[d])
    BY <1>0, <1>2, <1>7, <1>8, <2>1 DEF Chain
  <2>2. ASSUME NEW d \in Consumers, connection # "ready"
        PROVE  wish'[d] = wish[d] /\ Untouched(d)' = Untouched(d)
    BY <1>2, <1>7, <1>8, <2>2 DEF Untouched
  <2> QED
    BY <1>0, <1>2, <2>1, <2>2 DEF Chain
<1> QED
  BY <1>7, <1>8, <1>9, <1>10 DEF Rest

\* A step of the bootstrap among the topology, or from it to the consumers.
LEMMA TopologyKeeps ==
    ASSUME ControlInv, Bootstrap, boot.stage \notin {"consumers", "done"},
           NEW stage \in {"confirms", "exchanges", "queues", "bindings", "consumers"}, NEW index,
           \/ Goes(stage, index) /\ index = 1
           \/ Declares(stage, index) /\ stage # "consumers"
    PROVE  Rest'
<1>0. ControlTypeOK /\ Setup /\ Chain
  BY DEF ControlInv
<1>1. connection = "setup" /\ connection' = "setup" /\ UNCHANGED <<runtime, wish, to_driver, consuming>>
  BY <1>0 DEF Bootstrap, Chain, Goes, Declares
<1>2. boot'.stage = stage /\ boot'.index = index /\ (boot'.asked => stage # "consumers")
      /\ (stage = "consumers" => index = 1)
  BY DEF Goes, Declares, At
<1>3. \A c \in Consumers : to_broker'[c] = to_broker[c]
  BY <1>0, ControlShapes, ControlNumbers DEF Goes, Declares, Asks, Consumers
<1>4. \A c \in Consumers : Channel(c)' /\ Untouched(c)'
  <2>1. \A c \in Consumers : Untouched(c)
    BY <1>0, <1>1 DEF Chain
  <2> QED
    BY <1>1, <1>3, <2>1, AllChannelsSilent DEF Untouched
<1>5. Setup'
  <2>1. to_broker[0] = <<>> /\ to_driver'[0] = <<>> /\ consuming'[0] = {}
    BY <1>0, <1>1 DEF Setup, Bootstrap
  <2>2. CASE Goes(stage, index)
    <3>1. to_broker'[0] = <<>>
      BY <2>1, <2>2 DEF Goes
    <3> QED
      BY <2>1, <3>1 DEF Setup
  <2>3. CASE Declares(stage, index) /\ stage # "consumers"
    <3>1. to_broker'[0] = <<Frame("setup", NoTag, Boot)>>
      BY <1>0, <2>1, <2>3, ControlShapes, ControlNumbers DEF Declares, Asks
    <3>2. Len(to_broker'[0]) = 1 /\ DOMAIN to_broker'[0] = {1} /\ to_broker'[0][1].is = "setup"
      BY <3>1 DEF Frame
    <3>3. boot'.asked /\ boot'.stage \notin {"consumers", "done"}
      BY <1>2, <2>3 DEF Declares, At
    <3> QED
      BY <1>1, <2>1, <3>2, <3>3 DEF Setup
  <2> QED
    BY <2>2, <2>3
<1>6. Chain'
  <2>1. \A c \in Consumers : ~ c < 1
    BY ControlNumbers
  <2> QED
    BY <1>1, <1>2, <1>4, <2>1 DEF Chain
<1> QED
  BY <1>4, <1>5, <1>6 DEF Rest

\* The bootstrap is past every consumer when the connection becomes ready.
LEMMA BootstrapConsumersDoneKeeps ==
    ASSUME ControlInv, Bootstrap, BootstrapConsumersDone
    PROVE  Rest'
<1>0. ControlTypeOK /\ Setup /\ Chain
  BY DEF ControlInv
<1>1. /\ connection = "setup" /\ connection' = "ready" /\ boot'.stage = "done" /\ boot'.asked = TRUE
      /\ UNCHANGED <<pending_disconnect, runtime, wish, to_driver, to_broker, consuming>>
  BY <1>0 DEF Bootstrap, BootstrapConsumersDone, Chain, At
<1>2. \A c \in Consumers : c < boot.index
  BY <1>0, StepTypes, ControlAssumption DEF BootstrapConsumersDone, Consumers, ControlTypeOK
<1>3. \A c \in Consumers : runtime[c].active <=> wish[c]
  BY <1>0, <1>1, <1>2 DEF Chain, BootstrapConsumersDone
<1>4. ASSUME NEW c \in Consumers
      PROVE  Channel(c)'
  <2>1. \A f : ~ Awaited(f, c)
    BY <1>1 DEF Awaited, Bootstrap
  <2>2. Channel(c) /\ (runtime[c].active => wish'[c])
    BY <1>1, <1>3 DEF ControlInv
  <2> QED
    BY <1>1, <2>1, <2>2, ChannelKept
<1>5. Setup'
  BY <1>0, <1>1 DEF Setup, Bootstrap
<1>6. Chain'
  BY <1>1, <1>3 DEF Chain
<1> QED
  BY <1>4, <1>5, <1>6 DEF Rest

\* The bootstrap's request is the first on a channel that was untouched.
LEMMA BootstrapConsumerKeeps ==
    ASSUME ControlInv, Bootstrap, NEW c \in Consumers, BootstrapConsumer(c)
    PROVE  Rest'
<1>0. ControlTypeOK /\ Setup /\ Chain
  BY DEF ControlInv
<1>1. /\ connection = "setup" /\ boot.stage = "consumers" /\ boot.index = c /\ ~ boot.asked
      /\ UNCHANGED <<connection, pending_disconnect, to_driver, consuming>>
  BY <1>0 DEF Bootstrap, BootstrapConsumer, Chain
<1>2. /\ c \in Channels /\ c # 0 /\ c \in Nat
      /\ \A d \in Consumers : d \in Channels /\ d \in Nat
  BY ControlNumbers
<1>3. /\ runtime'[c].active = FALSE /\ ~ runtime[c].active /\ (wish'[c] <=> c \in AutoStart)
      /\ \A d \in Consumers : d # c => runtime'[d] = runtime[d] /\ wish'[d] = wish[d] /\ to_broker'[d] = to_broker[d]
      /\ to_broker'[0] = to_broker[0]
      /\ to_broker[c] = <<>> /\ to_driver[c] = <<>> /\ consuming[c] = {}
  <2>1. Untouched(c)
    BY <1>0, <1>1 DEF Chain
  <2>2. runtime'[c].active = FALSE /\ \A d \in Consumers : d # c => runtime'[d] = runtime[d]
    BY <1>0, ControlShapes DEF BootstrapConsumer, NoRuntime
  <2>3. (wish'[c] <=> c \in AutoStart) /\ \A d \in Consumers : d # c => wish'[d] = wish[d]
    BY <1>0, ControlShapes DEF BootstrapConsumer
  <2>4. to_broker'[0] = to_broker[0] /\ \A d \in Consumers : d # c => to_broker'[d] = to_broker[d]
    BY <1>0, <1>2, ControlShapes, ControlNumbers DEF BootstrapConsumer, Consume, Asks
  <2> QED
    BY <2>1, <2>2, <2>3, <2>4 DEF Untouched
<1>4. \A d, f : ~ Awaited(f, d)
  BY <1>1 DEF Awaited
<1>5. ASSUME NEW d \in Consumers, d # c
      PROVE  Channel(d)'
  <2>1. Channel(d) /\ (runtime[d].active => wish[d])
    BY DEF ControlInv, Channel, Stream
  <2> QED
    BY <1>1, <1>3, <1>4, <1>5, <2>1, ChannelKept
<1>6. ASSUME NEW f \in Forth, f.by = Boot, f.is = "qos" \/ (f.is = "consume" /\ c \in AutoStart),
             to_broker' = [to_broker EXCEPT ![c] = Append(@, f)], boot' = At("consumers", c, TRUE)
      PROVE  Channel(c)'
  <2>1. to_broker'[c] = Append(to_broker[c], f)
    BY <1>0, <1>2, <1>6, ControlShapes
  <2>2. Awaited(f, c)'
    BY <1>1, <1>6 DEF Awaited, At
  <2>3. Channel(c) /\ \A i \in DOMAIN to_driver[c] : FALSE
    BY <1>3 DEF ControlInv
  <2> QED
    <3>1. /\ f.is \in {"qos", "consume", "cancel"} /\ f.is # "cancel" /\ ~ runtime[c].active
          /\ runtime'[c].active = runtime[c].active
      BY <1>0, <1>3, <1>6 DEF ControlTypeOK, Runtimes
    <3>2. \A i \in DOMAIN to_driver[c] : ~ Answers(to_driver[c][i])
      BY <2>3
    <3>3. to_driver'[c] = to_driver[c] /\ consuming'[c] = consuming[c]
      BY <1>1
    <3> QED
      BY <1>0, <1>1, <1>3, <2>1, <2>2, <2>3, <3>1, <3>2, <3>3, RequestSent
<1>7. Channel(c)' /\ (Prepared(c) => c \notin AutoStart /\ Untouched(c)')
      /\ (boot' = At("consumers", c, TRUE) \/ Prepared(c))
  <2>1. CASE c \in WithQos
    BY <1>6, <2>1, FrameTypes DEF BootstrapConsumer, Asks, Frame, Prepared, At
  <2>2. CASE c \notin WithQos /\ c \in AutoStart
    BY <1>6, <2>2, FrameTypes DEF BootstrapConsumer, Consume, Asks, Frame, Prepared, At
  <2>3. CASE c \notin WithQos /\ c \notin AutoStart
    BY <1>1, <1>3, <2>3, ChannelSilent DEF BootstrapConsumer, Untouched
  <2> QED
    BY <2>1, <2>2, <2>3
<1>8. Setup'
  <2>1. to_broker'[0] = <<>> /\ to_driver'[0] = <<>> /\ consuming'[0] = {}
    BY <1>0, <1>1, <1>3 DEF Setup
  <2> QED
    BY <2>1 DEF Setup
<1>9. Chain'
  <2>1. \A d \in Consumers : d < c => (runtime'[d].active <=> wish'[d])
    BY <1>0, <1>1, <1>2, <1>3 DEF Chain
  <2>2. \A d \in Consumers : c < d => Untouched(d)'
    BY <1>0, <1>1, <1>2, <1>3 DEF Chain, Untouched
  <2>3. CASE boot' = At("consumers", c, TRUE)
    <3>1. boot'.stage = "consumers" /\ boot'.index = c /\ boot'.asked = TRUE
      BY <2>3 DEF At
    <3>2. connection' = "setup"
      BY <1>1
    <3> QED
      BY <1>2, <1>3, <2>1, <2>2, <3>1, <3>2 DEF Chain
  <2>4. CASE Prepared(c)
    <3>1. boot'.stage = "consumers" /\ boot'.index = c + 1 /\ boot'.asked = FALSE
      BY <2>4 DEF Prepared, At
    <3>2. \A d \in Consumers : d < c + 1 => (runtime'[d].active <=> wish'[d])
      <4>1. \A d \in Consumers : d < c + 1 => d < c \/ d = c
        BY <1>2
      <4>2. ~ runtime'[c].active /\ ~ wish'[c]
        BY <1>3, <1>7, <2>4
      <4> QED
        BY <2>1, <4>1, <4>2
    <3>3. \A d \in Consumers : c + 1 < d \/ d = c + 1 => Untouched(d)'
      <4>1. \A d \in Consumers : c + 1 < d \/ d = c + 1 => c < d
        BY <1>2
      <4> QED
        BY <2>2, <4>1
    <3>4. connection' = "setup"
      BY <1>1
    <3> QED
      BY <3>1, <3>2, <3>3, <3>4 DEF Chain
  <2> QED
    BY <1>7, <2>3, <2>4
<1> QED
  BY <1>5, <1>7, <1>8, <1>9 DEF Rest

LEMMA BootstrapKeeps ==
    ASSUME ControlInv, Bootstrap
    PROVE  Rest'
<1>1. CASE EnablePublisherConfirms
  BY <1>1, TopologyKeeps DEF EnablePublisherConfirms
<1>2. CASE BootstrapExchanges
  BY <1>2, TopologyKeeps DEF BootstrapExchanges
<1>3. CASE BootstrapQueues
  BY <1>3, TopologyKeeps DEF BootstrapQueues
<1>4. CASE BootstrapBindings
  BY <1>4, TopologyKeeps DEF BootstrapBindings
<1> QED
  BY <1>1, <1>2, <1>3, <1>4, BootstrapConsumersDoneKeeps, BootstrapConsumerKeeps DEF Bootstrap

\* What the broker does changes neither what the driver nor what callers know.
LEMMA BrokerKeeps ==
    ASSUME ControlInv, NEW c \in Channels, NEW g, NEW T, Replies(c, g, T),
           UNCHANGED <<driverVars, callVars>>,
           \A d \in Channels : d # c => to_broker'[d] = to_broker[d],
           c \in Consumers => Channel(c)',
           c \in Consumers => to_driver[c] # <<>> \/ to_broker[c] # <<>> \/ consuming[c] # {},
           c = 0 => /\ to_broker[0] # <<>> /\ to_broker'[0] = <<>> /\ T = {}
                    /\ g \in Back /\ g.is \in {"setup", "error"}
    PROVE  Rest'
<1>0. ControlTypeOK /\ Setup /\ Chain
  BY DEF ControlInv
<1>1. /\ UNCHANGED <<connection, boot, pending_disconnect, runtime, wish, call>>
      /\ \A d \in Channels : d # c => to_driver'[d] = to_driver[d] /\ consuming'[d] = consuming[d]
  BY <1>0, ControlShapes DEF driverVars, callVars, Replies
<1>2. ASSUME NEW d \in Consumers
      PROVE  Channel(d)'
  <2>1. d \in Channels /\ Channel(d) /\ (runtime[d].active => wish[d])
    BY ControlNumbers DEF ControlInv, Channel, Stream
  <2>2. \A f : Awaited(f, d) => Awaited(f, d)'
    BY <1>1 DEF Awaited
  <2>3. CASE d # c
    BY <1>1, <2>1, <2>2, <2>3, ChannelKept
  <2> QED
    BY <2>3
<1>3. Setup'
  <2>1. CASE c # 0
    BY <1>0, <1>1, <2>1, ControlNumbers DEF Setup
  <2>2. CASE c = 0
    <3>1. to_broker[0] \in Seq(Forth) /\ to_driver[0] \in Seq(Back)
      BY <1>0, ChannelTypes, ControlNumbers
    <3>2. to_driver[0] = <<>> /\ consuming[0] = {}
      <4>1. PICK m \in Nat, n \in Nat : m = Len(to_broker[0]) /\ n = Len(to_driver[0])
        BY <3>1
      <4>2. m # 0
        BY <2>2, <3>1, <4>1
      <4>3. m + n <= 1 /\ consuming[0] = {}
        BY <1>0, <4>1 DEF Setup
      <4>4. n = 0
        BY <4>2, <4>3
      <4>5. Len(to_driver[0]) = 0
        BY <4>1, <4>4
      <4> QED
        BY <3>1, <4>3, <4>5
    <3>3. to_driver'[0] = <<g>> /\ consuming'[0] = {}
      BY <1>0, <2>2, <3>2, ControlShapes, ControlNumbers DEF Replies
    <3>4. Len(to_driver'[0]) = 1 /\ DOMAIN to_driver'[0] = {1} /\ to_driver'[0][1].is \in {"setup", "error"}
      BY <2>2, <3>3
    <3>5. to_broker'[0] = <<>> /\ connection' = "setup" /\ boot'.asked /\ boot'.stage \notin {"consumers", "done"}
      BY <1>0, <1>1, <2>2 DEF Setup
    <3> QED
      BY <3>3, <3>4, <3>5 DEF Setup
  <2> QED
    BY <2>1, <2>2
<1>4. Chain'
  <2>1. \A d \in Consumers : Untouched(d) => Untouched(d)'
    <3>1. \A d \in Consumers : d # c => (Untouched(d) => Untouched(d)')
      BY <1>1, ControlNumbers DEF Untouched
    <3> QED
      BY <3>1 DEF Untouched
  <2> QED
    BY <1>0, <1>1, <2>1 DEF Chain
<1> QED
  BY <1>2, <1>3, <1>4 DEF Rest

\* The broker answers the one request that is on its way.
LEMMA AnswerKeepsChannel ==
    ASSUME ControlInv, NEW c \in Consumers, to_broker[c] # <<>>, NEW g \in Back, NEW T,
           Replies(c, g, T), to_broker'[c] = <<>>, UNCHANGED <<driverVars, callVars>>,
           g.by = to_broker[c][1].by,
           \/ /\ to_broker[c][1].is = "consume" /\ g.is = "consume" /\ T = {g.tag}
           \/ /\ to_broker[c][1].is = "cancel" /\ g.is = "cancel" /\ T = consuming[c] \ {to_broker[c][1].tag}
           \/ /\ to_broker[c][1].is = "qos" /\ g.is = "qos" /\ T = consuming[c]
           \/ /\ g.is = "error" /\ T = {}
    PROVE  Channel(c)'
<1> DEFINE q == to_driver[c]
           r == to_broker[c][1]
<1>0. ControlTypeOK /\ Channel(c) /\ c \in Channels
  BY ControlNumbers DEF ControlInv
<1>n. PICK n \in Nat : n = Len(q)
  BY <1>0, ChannelTypes
<1>1. /\ DOMAIN q = 1 .. n /\ to_driver'[c] = Append(q, g)
      /\ DOMAIN to_driver'[c] = 1 .. n + 1 /\ Len(to_driver'[c]) = n + 1
      /\ \A i \in 1 .. n : to_driver'[c][i] = q[i]
      /\ to_driver'[c][n + 1] = g
  <2>1. q \in Seq(Back)
    BY <1>0, ChannelTypes
  <2>2. to_driver'[c] = Append(q, g)
    BY <1>0, ControlShapes DEF Replies
  <2> QED
    BY <1>n, <2>1, <2>2, AppendFacts
<1>2. 1 \in DOMAIN to_broker[c]
  <2>1. to_broker[c] \in Seq(Forth)
    BY <1>0, ChannelTypes
  <2> QED
    BY <2>1, TailFacts
<1>3. /\ r.is \in {"qos", "consume", "cancel"} /\ Awaited(r, c)
      /\ r.is = "cancel" => runtime[c].active /\ r.tag = runtime[c].active_tag
      /\ r.is # "cancel" => ~ runtime[c].active
  BY <1>0, <1>2 DEF Channel, Requests
<1>4. \A i \in 1 .. n : ~ Answers(q[i])
  BY <1>0, <1>1 DEF Channel, OneRequest
<1>5. /\ UNCHANGED <<connection, boot, pending_disconnect, runtime, wish, call>>
      /\ consuming'[c] = T
  BY <1>0, ControlShapes DEF driverVars, callVars, Replies
<1>6. Awaited(g, c)' /\ \A f : Awaited(f, c) => Awaited(f, c)'
  BY <1>3, <1>5 DEF Awaited
<1>7. OneRequest(c)'
  <2>1. \A i \in 1 .. n : ~ Answers(to_driver'[c][i])
    BY <1>1, <1>4
  <2>2. \A i, j \in 1 .. n + 1 : Answers(to_driver'[c][i]) /\ Answers(to_driver'[c][j]) => i = n + 1 /\ j = n + 1
    BY <1>1, <2>1
  <2>3. \A i, j \in DOMAIN to_driver'[c] : Answers(to_driver'[c][i]) /\ Answers(to_driver'[c][j]) => i = j
    BY <1>1, <2>2
  <2> QED
    BY <2>3 DEF OneRequest, Answers
<1>8. Requests(c)'
  BY DEF Requests
<1>9. Answered(c)'
  <2>1. \A i \in 1 .. n : to_driver'[c][i].is # "setup" /\ ~ Answers(to_driver'[c][i])
    BY <1>0, <1>1, <1>4 DEF Channel, Answered
  <2>2. /\ g.is # "setup" /\ Awaited(g, c)'
        /\ (g.is \in {"qos", "consume"} => ~ runtime'[c].active)
    BY <1>3, <1>5, <1>6
  <2>3. \A i \in DOMAIN to_driver'[c] : i \in 1 .. n \/ to_driver'[c][i] = g
    BY <1>1
  <2> QED
    BY <2>1, <2>2, <2>3 DEF Answered, Answers
<1>10. Stream(c)'
  <2>0. \A i \in 1 .. n + 1 : RunsAt(c, i) <=> RunsAt(c, i)'
    BY <1>1, <1>5 DEF RunsAt
  <2>1. RunsAt(c, n + 1) <=> runtime[c].active
    <3>1. \A j \in 1 .. n + 1 - 1 : q[j].is \notin {"consume", "cancel", "error"}
      BY <1>4 DEF Answers
    <3> QED
      BY <3>1 DEF RunsAt
  <2>2. Stream(c)
    BY <1>0 DEF Channel
  <2>3. \A i \in DOMAIN to_driver'[c] : to_driver'[c][i].is = "deliver" => RunsAt(c, i)'
    BY <1>1, <2>0, <2>2 DEF Stream
  <2>4. ~ runtime[c].active => consuming[c] = {}
    BY <1>n, <2>1, <2>2 DEF Stream
  <2>5. runtime'[c].active => wish'[c]
    BY <1>5, <2>2 DEF Stream
  <2>6. CASE g.is = "consume"
    <3>1. ~ runtime'[c].active /\ consuming'[c] = {g.tag}
      BY <1>3, <1>5, <2>6
    <3>2. RunsAt(c, Len(to_driver[c]) + 1)'
      BY <1>1, <2>6 DEF RunsAt
    <3>3. \A i \in DOMAIN to_driver'[c] : to_driver'[c][i].is = "consume" => to_driver'[c][i].tag = g.tag
      BY <1>1, <1>4 DEF Answers
    <3> QED
      BY <2>3, <2>5, <3>1, <3>2, <3>3 DEF Stream
  <2>7. CASE g.is # "consume"
    <3>1. consuming'[c] = {}
      BY <1>3, <1>5, <2>2, <2>4, <2>7 DEF Stream
    <3>2. \A i \in DOMAIN to_driver'[c] : to_driver'[c][i].is # "consume"
      BY <1>1, <1>4, <2>7 DEF Answers
    <3>3. Consumes(c)' => g.is \in {"cancel", "error"}
      BY <1>3, <1>5, <3>2 DEF Consumes
    <3>4. n + 1 \in DOMAIN to_driver'[c] /\ to_driver'[c][n + 1] = g
      BY <1>1
    <3> QED
      BY <2>3, <2>5, <3>1, <3>3, <3>4 DEF Stream
  <2> QED
    BY <2>6, <2>7
<1> QED
  BY <1>7, <1>8, <1>9, <1>10 DEF Channel

\* The broker answers, or refuses, the one request that is under way.
LEMMA AnswerKeeps ==
    ASSUME ControlInv, NEW c \in Channels, Answer(c) \/ Refuse(c)
    PROVE  Rest'
<1> DEFINE r == Head(to_broker[c])
<1>0. ControlTypeOK /\ Setup
  BY DEF ControlInv
<1>1. to_broker[c] \in Seq(Forth) /\ to_broker[c] # <<>>
  BY <1>0, ChannelTypes DEF Answer, Refuse
<1>2. /\ r \in Forth /\ r = to_broker[c][1] /\ 1 \in DOMAIN to_broker[c]
      /\ Len(to_broker[c]) \in Nat \ {0} /\ Tail(to_broker[c]) \in Seq(Forth)
      /\ Len(Tail(to_broker[c])) = Len(to_broker[c]) - 1
  BY <1>1, TailFacts
<1>n. PICK n \in Nat \ {0} : n = Len(to_broker[c])
  BY <1>2
<1>3. n = 1
  <2>1. CASE c = 0
    <3>1. PICK m \in Nat : m = Len(to_driver[0])
      BY <1>0, ControlNumbers, ChannelTypes
    <3>2. n + m <= 1
      BY <1>0, <1>n, <2>1, <3>1 DEF Setup
    <3> QED
      BY <3>2
  <2>2. CASE c \in Consumers
    <3>1. n <= 1
      BY <1>n, <2>2 DEF ControlInv, Channel, OneRequest
    <3> QED
      BY <3>1
  <2> QED
    BY <2>1, <2>2, ControlNumbers
<1>4. to_broker'[c] = <<>> /\ \A d \in Channels : d # c => to_broker'[d] = to_broker[d]
  <2>1. Tail(to_broker[c]) = <<>>
    <3>1. Tail(to_broker[c]) \in Seq(Forth) /\ Len(Tail(to_broker[c])) = n - 1
      BY <1>2, <1>n
    <3>2. Len(Tail(to_broker[c])) = 0
      BY <1>3, <3>1
    <3> QED
      BY <3>1, <3>2, NothingLeft, Zenon
  <2> QED
    BY <1>0, <2>1, ControlShapes DEF Answer, Refuse
<1>5. UNCHANGED <<driverVars, callVars>>
  BY DEF Answer, Refuse
<1>6. PICK g \in Back, T \in SUBSET Nat :
         /\ Replies(c, g, T) /\ g.by = r.by
         /\ \/ /\ r.is = "consume" /\ g.is = "consume" /\ T = {g.tag} /\ c \in Consumers
            \/ /\ r.is = "cancel" /\ g.is = "cancel" /\ T = consuming[c] \ {r.tag}
            \/ /\ r.is \in {"setup", "qos"} /\ g.is = r.is /\ T = consuming[c]
            \/ /\ g.is = "error" /\ T = {}
  <2>1. CASE Refuse(c)
    <3> DEFINE g == [r EXCEPT !.is = "error"]
    <3>1. g \in Back /\ g.is = "error" /\ g.by = r.by
      BY <1>2 DEF Forth, Back, Frames
    <3>2. Replies(c, g, {})
      BY <2>1 DEF Refuse
    <3> QED
      BY <3>1, <3>2
  <2>2. CASE Answer(c) /\ r.is = "consume"
    <3>1. c \in Consumers
      BY <1>0, <1>2, <2>2, ControlNumbers DEF Setup
    <3>2. consuming[c] = {} /\ FreshTag(c) = 1
      BY <1>2, <2>2, <3>1, ConsumeIsAlone, FreshIsFirst
    <3> DEFINE g == [r EXCEPT !.tag = 1]
    <3>3. g \in Back /\ g.is = "consume" /\ g.by = r.by /\ g.tag = 1
      BY <1>2, <2>2 DEF Forth, Back, Frames
    <3>4. Replies(c, g, {1})
      BY <2>2, <3>2 DEF Answer
    <3>5. {1} \in SUBSET Nat /\ {1} = {g.tag}
      BY <3>3
    <3> QED
      BY <2>2, <3>1, <3>3, <3>4, <3>5
  <2>3. CASE Answer(c) /\ r.is = "cancel"
    <3>1. Replies(c, r, consuming[c] \ {r.tag}) /\ r \in Back
      BY <1>2, <2>3 DEF Answer, Forth, Back, Frames
    <3>2. consuming[c] \ {r.tag} \in SUBSET Nat
      BY <1>0, ChannelTypes
    <3> QED
      BY <2>3, <3>1, <3>2
  <2>4. CASE Answer(c) /\ r.is \notin {"consume", "cancel"}
    <3>1. Replies(c, r, consuming[c]) /\ r \in Back /\ r.is \in {"setup", "qos"}
      BY <1>2, <2>4 DEF Answer, Forth, Back, Frames
    <3>2. consuming[c] \in SUBSET Nat
      BY <1>0, ChannelTypes
    <3> QED
      BY <2>4, <3>1, <3>2
  <2> QED
    BY <2>1, <2>2, <2>3, <2>4
<1>7. ASSUME c \in Consumers
      PROVE  Channel(c)'
  <2>1. r.is # "setup"
    BY <1>2, <1>7 DEF ControlInv, Channel, Requests
  <2> QED
    BY <1>1, <1>2, <1>4, <1>5, <1>6, <1>7, <2>1, AnswerKeepsChannel
<1>8. ASSUME c = 0
      PROVE  g.is \in {"setup", "error"} /\ T = {}
  <2>1. r.is = "setup" /\ consuming[c] = {} /\ c \notin Consumers
    BY <1>0, <1>2, <1>8 DEF Setup, Consumers
  <2> QED
    BY <1>6, <2>1
<1> QED
  BY <1>1, <1>4, <1>5, <1>6, <1>7, <1>8, BrokerKeeps

\* The broker sends a frame that nobody asked for.
LEMMA PushKeeps ==
    ASSUME ControlInv, NEW c \in Consumers, Push(c) \/ CancelConsumer(c)
    PROVE  Rest'
<1> DEFINE q == to_driver[c]
<1>0. ControlTypeOK /\ Channel(c) /\ c \in Channels
  BY ControlNumbers DEF ControlInv
<1>n. PICK n \in Nat : n = Len(q)
  BY <1>0, ChannelTypes
<1>1. PICK t \in consuming[c], g \in Back, T \in SUBSET Nat :
         /\ Replies(c, g, T)
         /\ \/ g.is = "deliver" /\ T = consuming[c]
            \/ g.is = "cancelled" /\ T = consuming[c] \ {t}
  <2>1. \A t \in consuming[c] : /\ Frame("deliver", t, Boot) \in Back /\ Frame("cancelled", t, Boot) \in Back
                                /\ Frame("deliver", t, Boot).is = "deliver"
                                /\ Frame("cancelled", t, Boot).is = "cancelled"
    <3>1. \A t \in consuming[c] : t \in Nat
      BY <1>0, ChannelTypes
    <3> QED
      BY <3>1, FrameTypes DEF Frame
  <2>2. consuming[c] \in SUBSET Nat /\ \A t \in consuming[c] : consuming[c] \ {t} \in SUBSET Nat
    BY <1>0, ChannelTypes
  <2> QED
    BY <2>1, <2>2 DEF Push, CancelConsumer
<1>2. UNCHANGED <<driverVars, callVars>> /\ to_broker' = to_broker
  BY DEF Push, CancelConsumer
<1>3. /\ DOMAIN q = 1 .. n
      /\ DOMAIN to_driver'[c] = 1 .. n + 1 /\ Len(to_driver'[c]) = n + 1
      /\ \A i \in 1 .. n : to_driver'[c][i] = q[i]
      /\ to_driver'[c][n + 1] = g
  <2>1. q \in Seq(Back)
    BY <1>0, ChannelTypes
  <2>2. to_driver'[c] = Append(q, g)
    BY <1>0, <1>1, ControlShapes DEF Replies
  <2> QED
    BY <1>n, <2>1, <2>2, AppendFacts
<1>4. /\ UNCHANGED <<connection, boot, pending_disconnect, runtime, wish, call>>
      /\ consuming'[c] = T /\ ~ Answers(g) /\ g.is \notin {"setup", "consume"}
  BY <1>0, <1>1, <1>2, ControlShapes DEF driverVars, callVars, Replies, Answers
<1>5. \A i \in DOMAIN to_driver'[c] : i \in 1 .. n \/ i = n + 1
  BY <1>3
<1>6. OneRequest(c)' /\ Requests(c)'
  <2>1. \A i \in DOMAIN to_driver'[c] : Answers(to_driver'[c][i]) => i \in DOMAIN q /\ to_driver'[c][i] = q[i]
    BY <1>3, <1>4, <1>5
  <2>2. OneRequest(c) /\ Requests(c)
    BY <1>0 DEF Channel
  <2>3. OneRequest(c)'
    BY <1>2, <2>1, <2>2 DEF OneRequest, Answers
  <2>4. Requests(c)'
    BY <1>2, <1>4, <2>2 DEF Requests, Awaited
  <2> QED
    BY <2>3, <2>4
<1>7. Answered(c)'
  <2>1. \A f : Awaited(f, c) <=> Awaited(f, c)'
    BY <1>4 DEF Awaited
  <2>2. \A i \in DOMAIN to_driver'[c] : to_driver'[c][i] = g \/ (i \in DOMAIN q /\ to_driver'[c][i] = q[i])
    BY <1>3, <1>5
  <2>3. Answered(c)
    BY <1>0 DEF Channel
  <2> QED
    BY <1>4, <2>1, <2>2, <2>3 DEF Answered, Answers
<1>8. Stream(c)'
  <2>0. \A i \in 1 .. n + 1 : RunsAt(c, i) <=> RunsAt(c, i)'
    <3>1. \A i \in 1 .. n + 1 : \A j \in 1 .. i - 1 : to_driver'[c][j] = q[j]
      BY <1>3
    <3> QED
      BY <1>4, <3>1 DEF RunsAt
  <2>1. Stream(c)
    BY <1>0 DEF Channel
  <2>2. RunsAt(c, n + 1) /\ RunsAt(c, n + 1)'
    BY <1>n, <1>3, <2>0, <2>1 DEF Stream
  <2>3. \A i \in DOMAIN to_driver'[c] : to_driver'[c][i].is = "deliver" => RunsAt(c, i)'
    BY <1>3, <1>5, <2>0, <2>1, <2>2 DEF Stream
  <2>4. RunsAt(c, Len(to_driver[c]) + 1)'
    BY <1>3, <1>4, <2>2 DEF RunsAt, Answers
  <2>5. T \subseteq consuming[c] /\ (T = {} => g.is = "cancelled")
    BY <1>1
  <2>6. \A u \in T : /\ \A i \in DOMAIN to_driver'[c] : to_driver'[c][i].is = "consume" => to_driver'[c][i].tag = u
                     /\ runtime'[c].active => runtime'[c].active_tag = u
    BY <1>3, <1>4, <1>5, <2>1, <2>5 DEF Stream
  <2>7. n + 1 \in DOMAIN to_driver'[c]
    BY <1>3
  <2>8. runtime'[c].active => wish'[c]
    BY <1>4, <2>1 DEF Stream
  <2> QED
    BY <1>3, <1>4, <2>3, <2>4, <2>5, <2>6, <2>7, <2>8 DEF Stream
<1>9. Channel(c)'
  BY <1>6, <1>7, <1>8 DEF Channel
<1>10. c # 0
  BY ControlNumbers
<1> QED
  BY <1>0, <1>1, <1>2, <1>9, <1>10, BrokerKeeps

\* A reply on the channel of the topology.
LEMMA ReceiveSetupKeeps ==
    ASSUME ControlInv, Receive(0)
    PROVE  Rest'
<1> DEFINE f == Head(to_driver[0])
<1>0. ControlTypeOK /\ Setup /\ Chain /\ 0 \in Channels
  BY ControlNumbers DEF ControlInv
<1>1. to_driver[0] \in Seq(Back) /\ to_driver[0] # <<>> /\ to_broker[0] \in Seq(Forth)
  BY <1>0, ChannelTypes DEF Receive
<1>2. /\ f = to_driver[0][1] /\ 1 \in DOMAIN to_driver[0]
      /\ Len(to_driver[0]) \in Nat \ {0} /\ Tail(to_driver[0]) \in Seq(Back)
      /\ Len(Tail(to_driver[0])) = Len(to_driver[0]) - 1
  BY <1>1, TailFacts
<1>3. f.is \in {"setup", "error"} /\ connection = "setup" /\ boot.asked /\ boot.stage \notin {"consumers", "done"}
      /\ consuming[0] = {}
  BY <1>0, <1>1, <1>2 DEF Setup
<1>4. to_broker[0] = <<>> /\ Tail(to_driver[0]) = <<>>
  <2>1. PICK m \in Nat, n \in Nat \ {0} : m = Len(to_broker[0]) /\ n = Len(to_driver[0])
    BY <1>1, <1>2
  <2>2. m + n <= 1
    BY <1>0, <2>1 DEF Setup
  <2>3. m = 0 /\ n = 1
    BY <2>2
  <2>4. Len(to_broker[0]) = 0 /\ Len(Tail(to_driver[0])) = 0
    BY <1>2, <2>1, <2>3
  <2> QED
    BY <1>1, <1>2, <2>4, NothingLeft, Zenon
<1>5. UNCHANGED <<connection, runtime, wish, to_broker, consuming>>
      /\ (boot' = NextStep \/ boot' = boot)
  BY <1>3 DEF Receive, Configured, ChannelFails
<1>6. to_driver'[0] = <<>> /\ \A c \in Consumers : to_driver'[c] = to_driver[c]
  BY <1>0, <1>4, ControlShapes, ControlNumbers DEF Receive, Consumers
<1>7. \A c \in Consumers : Channel(c)' /\ Untouched(c)'
  <2>1. \A c \in Consumers : Untouched(c)
    BY <1>0, <1>3 DEF Chain
  <2> QED
    BY <1>5, <1>6, <2>1, AllChannelsSilent DEF Untouched
<1>8. Setup'
  <2>1. to_broker'[0] = <<>> /\ to_driver'[0] = <<>> /\ consuming'[0] = {}
    BY <1>3, <1>4, <1>5, <1>6
  <2> QED
    BY <2>1 DEF Setup
<1>9. boot'.stage \notin {"consumers", "done"}
  BY <1>3, <1>5 DEF NextStep, At
<1>10. Chain'
  BY <1>3, <1>5, <1>7, <1>9 DEF Chain
<1> QED
  BY <1>7, <1>8, <1>10 DEF Rest

\* What reading a frame of a consumer leaves alone.
LEMMA ReadKeeps ==
    ASSUME ControlInv, NEW c \in Consumers, Receive(c), Channel(c)',
           to_broker'[0] = to_broker[0], pending_disconnect => pending_disconnect',
           \A d \in Consumers : d # c => /\ runtime'[d] = runtime[d] /\ wish'[d] = wish[d]
                                         /\ to_broker'[d] = to_broker[d]
                                         /\ \A f : Awaited(f, d) => Awaited(f, d)',
           \/ /\ boot' = boot
              /\ (runtime[c].active <=> wish[c]) => (runtime'[c].active <=> wish'[c])
              /\ connection = "setup" => wish'[c] = wish[c]
           \/ /\ connection = "setup" /\ boot.stage = "consumers" /\ boot.index = c
              /\ Prepared(c) /\ (runtime'[c].active <=> wish'[c])
    PROVE  Rest'
<1>0. ControlTypeOK /\ Setup /\ Chain
  BY DEF ControlInv
<1>1. UNCHANGED <<connection, consuming>> /\ to_driver[c] # <<>> /\ boot.asked
  BY DEF Receive
<1>2. \A d \in Channels : d # c => to_driver'[d] = to_driver[d]
  BY <1>0, ControlShapes DEF Receive
<1>3. c # 0 /\ 0 \in Channels /\ c \in Nat /\ \A d \in Consumers : d \in Channels /\ d \in Nat
  BY ControlNumbers
<1>4. ASSUME NEW d \in Consumers
      PROVE  Channel(d)'
  <2>1. Channel(d) /\ (runtime[d].active => wish[d])
    BY DEF ControlInv, Channel, Stream
  <2> QED
    BY <1>1, <1>2, <1>3, <2>1, ChannelKept
<1>5. \A d \in Consumers : d # c => (Untouched(d) => Untouched(d)')
  BY <1>1, <1>2, <1>3 DEF Untouched
<1>6. ~ Untouched(c)
  BY <1>1 DEF Untouched
<1>7. CASE boot' = boot /\ ((runtime[c].active <=> wish[c]) => (runtime'[c].active <=> wish'[c]))
           /\ (connection = "setup" => wish'[c] = wish[c])
  <2>1. Setup'
    BY <1>0, <1>1, <1>2, <1>3, <1>7 DEF Setup
  <2>2. Chain'
    BY <1>0, <1>1, <1>5, <1>6, <1>7 DEF Chain
  <2> QED
    BY <1>4, <2>1, <2>2 DEF Rest
<1>8. CASE connection = "setup" /\ boot.stage = "consumers" /\ boot.index = c
           /\ Prepared(c) /\ (runtime'[c].active <=> wish'[c])
  <2>0. boot'.stage = "consumers" /\ boot'.index = c + 1 /\ boot'.asked = FALSE
    BY <1>8 DEF Prepared, At
  <2>1. Setup'
    <3>1. to_broker'[0] = <<>> /\ to_driver'[0] = <<>> /\ consuming'[0] = {}
      BY <1>0, <1>1, <1>2, <1>3, <1>8 DEF Setup
    <3> QED
      BY <3>1 DEF Setup
  <2>2. \A d \in Consumers : c < d => Untouched(d)'
    BY <1>0, <1>3, <1>5, <1>8 DEF Chain
  <2>3. \A d \in Consumers : c + 1 < d \/ d = c + 1 => Untouched(d)'
    <3>1. \A d \in Consumers : c + 1 < d \/ d = c + 1 => c < d
      BY <1>3
    <3> QED
      BY <2>2, <3>1
  <2>4. \A d \in Consumers : d < c + 1 => (runtime'[d].active <=> wish'[d])
    <3>1. \A d \in Consumers : d < c + 1 => d < c \/ d = c
      BY <1>3
    <3>2. \A d \in Consumers : d < c => d # c
      BY <1>3
    <3>3. \A d \in Consumers : d < c => (runtime[d].active <=> wish[d])
      BY <1>0, <1>8 DEF Chain
    <3> QED
      BY <1>8, <3>1, <3>2, <3>3
  <2>5. Chain'
    BY <1>1, <1>8, <2>0, <2>3, <2>4 DEF Chain
  <2> QED
    BY <1>4, <2>1, <2>5 DEF Rest
<1> QED
  BY <1>7, <1>8

\* The first frame of a channel is read, and the others move up.
LEMMA ReadFacts ==
    ASSUME ControlInv, NEW c \in Consumers, Receive(c)
    PROVE  \E n \in Nat :
             /\ Len(to_driver[c]) = n + 1 /\ DOMAIN to_driver[c] = 1 .. n + 1
             /\ Head(to_driver[c]) = to_driver[c][1] /\ to_driver[c][1] \in Back
             /\ to_driver'[c] = Tail(to_driver[c])
             /\ Len(to_driver'[c]) = n /\ DOMAIN to_driver'[c] = 1 .. n
             /\ \A i \in 1 .. n : i + 1 \in 1 .. n + 1 /\ to_driver'[c][i] = to_driver[c][i + 1]
             /\ Answers(to_driver[c][1]) => \A i \in 1 .. n : ~ Answers(to_driver'[c][i])
             /\ Answers(to_driver[c][1]) => to_broker[c] = <<>> /\ Awaited(to_driver[c][1], c)
<1> DEFINE q == to_driver[c]
<1>0. ControlTypeOK /\ Channel(c) /\ c \in Channels
  BY ControlNumbers DEF ControlInv
<1>1. q \in Seq(Back) /\ q # <<>>
  BY <1>0, ChannelTypes DEF Receive
<1>2. to_driver'[c] = Tail(q)
  BY <1>0, ControlShapes DEF Receive
<1>3. PICK m \in Nat \ {0} : m = Len(q)
  BY <1>1
<1>4. PICK n \in Nat : m = n + 1
  BY <1>3
<1>5. /\ DOMAIN q = 1 .. n + 1 /\ Head(q) = q[1] /\ q[1] \in Back
      /\ Len(to_driver'[c]) = n /\ DOMAIN to_driver'[c] = 1 .. n
      /\ \A i \in 1 .. n : to_driver'[c][i] = q[i + 1]
  <2>1. DOMAIN q = 1 .. m /\ Head(q) = q[1] /\ Head(q) \in Back
    BY <1>1, <1>3, TailFacts
  <2>2. DOMAIN Tail(q) = 1 .. m - 1 /\ Len(Tail(q)) = m - 1 /\ \A i \in 1 .. m - 1 : Tail(q)[i] = q[i + 1]
    BY <1>1, <1>3, TailFacts
  <2>3. m - 1 = n
    BY <1>4
  <2> HIDE DEF q
  <2> QED
    BY <1>2, <1>4, <2>1, <2>2, <2>3
<1>6. Answers(q[1]) => \A i \in 1 .. n : ~ Answers(to_driver'[c][i])
  <2>1. \A i, j \in DOMAIN q : Answers(q[i]) /\ Answers(q[j]) => i = j
    BY <1>0 DEF Channel, OneRequest
  <2>2. \A i \in 1 .. n : i + 1 \in DOMAIN q /\ 1 \in DOMAIN q /\ i + 1 # 1
    BY <1>5
  <2> QED
    BY <1>5, <2>1, <2>2
<1>7. 1 \in DOMAIN q
  BY <1>5
<1>8. Answers(q[1]) => to_broker[c] = <<>> /\ Awaited(q[1], c)
  BY <1>0, <1>7 DEF Channel, OneRequest, Answered
<1> QED
  BY <1>2, <1>3, <1>4, <1>5, <1>6, <1>8

\* A frame is read that answers nothing.
LEMMA EventRead ==
    ASSUME ControlInv, NEW c \in Consumers, Receive(c), ~ Answers(Head(to_driver[c])),
           runtime' = runtime, wish' = wish, to_broker' = to_broker,
           pending_disconnect => pending_disconnect',
           Head(to_driver[c]).is = "cancelled" => pending_disconnect',
           \A f : Awaited(f, c) => Awaited(f, c)'
    PROVE  Channel(c)'
<1> DEFINE q == to_driver[c]
<1>0. Channel(c) /\ consuming' = consuming
  BY DEF ControlInv, Receive
<1>1. PICK n \in Nat :
         /\ Len(q) = n + 1 /\ DOMAIN q = 1 .. n + 1 /\ Head(q) = q[1]
         /\ Len(to_driver'[c]) = n /\ DOMAIN to_driver'[c] = 1 .. n
         /\ \A i \in 1 .. n : i + 1 \in 1 .. n + 1 /\ to_driver'[c][i] = q[i + 1]
  BY ReadFacts
<1>2. OneRequest(c)' /\ Requests(c)' /\ Answered(c)'
  <2>1. OneRequest(c)'
    <3>1. OneRequest(c)
      BY <1>0 DEF Channel
    <3>2. \A i, j \in 1 .. n : i + 1 = j + 1 => i = j
      OBVIOUS
    <3> QED
      BY <1>1, <3>1, <3>2 DEF OneRequest, Answers
  <2>2. Requests(c)'
    BY <1>0 DEF Channel, Requests
  <2>3. Answered(c)'
    BY <1>0, <1>1 DEF Channel, Answered, Answers
  <2> QED
    BY <2>1, <2>2, <2>3
<1>3. \A i \in 1 .. n + 1 : RunsAt(c, i + 1) => RunsAt(c, i)'
  <2>1. q[1].is \notin {"consume", "cancel", "error"}
    BY <1>1 DEF Answers
  <2>2. SUFFICES ASSUME NEW i \in 1 .. n + 1, RunsAt(c, i + 1)
                 PROVE  RunsAt(c, i)'
    OBVIOUS
  <2>3. \A j \in 1 .. i - 1 : j \in 1 .. n /\ j + 1 \in 1 .. i + 1 - 1 /\ to_driver'[c][j] = q[j + 1]
    BY <1>1
  <2>4. ASSUME NEW j \in 1 .. i + 1 - 1, q[j].is = "consume"
        PROVE  RunsAt(c, i)'
    <3>1. j # 1
      BY <2>1, <2>4
    <3>2. j - 1 \in 1 .. i - 1 /\ (j - 1) + 1 = j
      BY <3>1
    <3>3. to_driver'[c][j - 1].is = "consume"
      BY <2>3, <2>4, <3>2
    <3> QED
      BY <3>2, <3>3 DEF RunsAt
  <2>5. ASSUME runtime[c].active, \A j \in 1 .. i + 1 - 1 : q[j].is \notin {"cancel", "error"}
        PROVE  RunsAt(c, i)'
    BY <2>3, <2>5 DEF RunsAt
  <2> QED
    BY <2>2, <2>4, <2>5 DEF RunsAt
<1>4. Stream(c)'
  <2>0. Stream(c)
    BY <1>0 DEF Channel
  <2>1. \A i \in DOMAIN to_driver'[c] : to_driver'[c][i].is = "deliver" => RunsAt(c, i)'
    <3>1. \A i \in 1 .. n : i \in 1 .. n + 1
      OBVIOUS
    <3> QED
      BY <1>1, <1>3, <2>0, <3>1 DEF Stream
  <2>2. consuming'[c] # {} => RunsAt(c, Len(to_driver[c]) + 1)'
    <3>1. consuming'[c] # {} => RunsAt(c, n + 1 + 1)
      BY <1>0, <1>1, <2>0 DEF Stream
    <3>2. n + 1 \in 1 .. n + 1
      OBVIOUS
    <3>3. consuming'[c] # {} => RunsAt(c, n + 1)'
      BY <1>3, <3>1, <3>2
    <3> QED
      BY <1>1, <3>3
  <2>3. \A t \in consuming'[c] :
          /\ \A i \in DOMAIN to_driver'[c] : to_driver'[c][i].is = "consume" => to_driver'[c][i].tag = t
          /\ runtime'[c].active => runtime'[c].active_tag = t
    <3>1. \A i \in DOMAIN to_driver'[c] : i + 1 \in DOMAIN q /\ to_driver'[c][i] = q[i + 1]
      BY <1>1
    <3>2. \A t \in consuming[c] : /\ \A i \in DOMAIN q : q[i].is = "consume" => q[i].tag = t
                                  /\ runtime[c].active => runtime[c].active_tag = t
      BY <2>0 DEF Stream
    <3> QED
      BY <1>0, <3>1, <3>2
  <2>4. Consumes(c)' /\ consuming'[c] = {} =>
          \/ pending_disconnect'
          \/ \E i \in DOMAIN to_driver'[c] : to_driver'[c][i].is \in {"cancel", "cancelled", "error"}
    <3>1. Consumes(c)' => Consumes(c)
      BY <1>1 DEF Consumes
    <3>2. ASSUME NEW i \in DOMAIN q, q[i].is \in {"cancel", "cancelled", "error"}
          PROVE  \/ pending_disconnect'
                 \/ \E j \in DOMAIN to_driver'[c] : to_driver'[c][j].is \in {"cancel", "cancelled", "error"}
      <4>1. CASE i = 1
        BY <1>1, <3>2, <4>1 DEF Answers
      <4>2. CASE i # 1
        <5>1. i - 1 \in 1 .. n /\ (i - 1) + 1 = i
          BY <1>1, <4>2
        <5> QED
          BY <1>1, <3>2, <5>1
      <4> QED
        BY <4>1, <4>2
    <3> QED
      BY <1>0, <2>0, <3>1, <3>2 DEF Stream
  <2>5. runtime'[c].active => wish'[c]
    BY <2>0 DEF Stream
  <2> QED
    BY <2>1, <2>2, <2>3, <2>4, <2>5 DEF Stream
<1> QED
  BY <1>2, <1>4 DEF Channel

\* The consumer runs: what was asked has been answered with a tag.
LEMMA ConsumeRead ==
    ASSUME ControlInv, NEW c \in Consumers, Receive(c), Head(to_driver[c]).is = "consume",
           runtime'[c].active = TRUE, runtime'[c].active_tag = Head(to_driver[c]).tag, wish'[c],
           to_broker'[c] = to_broker[c], pending_disconnect' = pending_disconnect
    PROVE  Channel(c)'
<1> DEFINE q == to_driver[c]
<1>0. Channel(c) /\ consuming' = consuming
  BY DEF ControlInv, Receive
<1>1. PICK n \in Nat :
         /\ Len(q) = n + 1 /\ DOMAIN q = 1 .. n + 1 /\ Head(q) = q[1]
         /\ Len(to_driver'[c]) = n /\ DOMAIN to_driver'[c] = 1 .. n
         /\ \A i \in 1 .. n : i + 1 \in 1 .. n + 1 /\ to_driver'[c][i] = q[i + 1]
         /\ Answers(q[1]) => \A i \in 1 .. n : ~ Answers(to_driver'[c][i])
         /\ Answers(q[1]) => to_broker[c] = <<>>
  BY ReadFacts
<1>2. /\ q[1].is = "consume" /\ 1 \in DOMAIN q /\ to_broker'[c] = <<>>
      /\ \A i \in 1 .. n : ~ Answers(to_driver'[c][i])
  BY <1>1 DEF Answers
<1>3. OneRequest(c)' /\ Requests(c)'
  BY <1>1, <1>2 DEF OneRequest, Requests, Answers
<1>4. Answered(c)'
  <2>1. \A i \in DOMAIN to_driver'[c] : ~ Answers(to_driver'[c][i]) /\ to_driver'[c][i].is # "setup"
    <3>1. \A i \in DOMAIN q : q[i].is # "setup"
      BY <1>0 DEF Channel, Answered
    <3> QED
      BY <1>1, <1>2, <3>1
  <2> QED
    BY <2>1 DEF Answered, Answers
<1>5. \A i \in 1 .. n + 1 : RunsAt(c, i)'
  BY <1>2 DEF RunsAt, Answers
<1>6. Stream(c)'
  <2>0. Stream(c)
    BY <1>0 DEF Channel
  <2>1. \A i \in DOMAIN to_driver'[c] : RunsAt(c, i)'
    BY <1>1, <1>5
  <2>2. RunsAt(c, Len(to_driver[c]) + 1)'
    BY <1>1, <1>5
  <2>3. \A t \in consuming'[c] :
          /\ \A i \in DOMAIN to_driver'[c] : to_driver'[c][i].is # "consume"
          /\ runtime'[c].active_tag = t
    <3>1. \A t \in consuming[c] : q[1].tag = t
      BY <1>2, <2>0 DEF Stream
    <3>2. \A i \in DOMAIN to_driver'[c] : to_driver'[c][i].is # "consume"
      BY <1>1, <1>2 DEF Answers
    <3> QED
      BY <1>0, <1>1, <3>1, <3>2
  <2>4. consuming'[c] = {} =>
          \/ pending_disconnect'
          \/ \E i \in DOMAIN to_driver'[c] : to_driver'[c][i].is \in {"cancel", "cancelled", "error"}
    <3>1. Consumes(c)
      BY <1>2 DEF Consumes
    <3>2. ASSUME NEW i \in DOMAIN q, q[i].is \in {"cancel", "cancelled", "error"}
          PROVE  \E j \in DOMAIN to_driver'[c] : to_driver'[c][j].is \in {"cancel", "cancelled", "error"}
      <4>1. i # 1
        BY <1>2, <3>2
      <4>2. i - 1 \in 1 .. n /\ (i - 1) + 1 = i
        BY <1>1, <4>1
      <4> QED
        BY <1>1, <3>2, <4>2
    <3> QED
      BY <1>0, <2>0, <3>1, <3>2 DEF Stream
  <2> QED
    BY <2>1, <2>2, <2>3, <2>4 DEF Stream
<1> QED
  BY <1>3, <1>4, <1>6 DEF Channel

\* The consumer does not run, or never will on this channel.
LEMMA EndRead ==
    ASSUME ControlInv, NEW c \in Consumers, Receive(c), Head(to_driver[c]).is \in {"cancel", "error"},
           \/ ~ runtime'[c].active
           \/ runtime' = runtime /\ wish' = wish /\ pending_disconnect',
           to_broker'[c] = to_broker[c]
    PROVE  Channel(c)'
<1> DEFINE q == to_driver[c]
<1>0. Channel(c) /\ consuming' = consuming
  BY DEF ControlInv, Receive
<1>1. PICK n \in Nat :
         /\ Len(q) = n + 1 /\ DOMAIN q = 1 .. n + 1 /\ Head(q) = q[1]
         /\ Len(to_driver'[c]) = n /\ DOMAIN to_driver'[c] = 1 .. n
         /\ \A i \in 1 .. n : i + 1 \in 1 .. n + 1 /\ to_driver'[c][i] = q[i + 1]
         /\ Answers(q[1]) => \A i \in 1 .. n : ~ Answers(to_driver'[c][i])
         /\ Answers(q[1]) => to_broker[c] = <<>>
  BY ReadFacts
<1>2. /\ q[1].is \in {"cancel", "error"} /\ 1 \in DOMAIN q /\ to_broker'[c] = <<>>
      /\ \A i \in 1 .. n : ~ Answers(to_driver'[c][i])
  BY <1>1 DEF Answers
<1>3. OneRequest(c)' /\ Requests(c)'
  BY <1>1, <1>2 DEF OneRequest, Requests, Answers
<1>4. Answered(c)'
  BY <1>0, <1>1, <1>2 DEF Channel, Answered, Answers
<1>5. \A i \in 1 .. n + 1 : ~ RunsAt(c, i + 1)
  <2>1. \A i \in 1 .. n : q[i + 1].is # "consume"
    BY <1>1, <1>2 DEF Answers
  <2>2. \A j \in DOMAIN q : j = 1 \/ (j - 1 \in 1 .. n /\ (j - 1) + 1 = j)
    BY <1>1
  <2>3. \A j \in DOMAIN q : q[j].is # "consume"
    BY <1>2, <2>1, <2>2
  <2>4. \A i \in 1 .. n + 1 : 1 \in 1 .. i + 1 - 1 /\ \A j \in 1 .. i + 1 - 1 : j \in DOMAIN q
    BY <1>1
  <2> QED
    BY <1>2, <2>3, <2>4 DEF RunsAt
<1>6. Stream(c)'
  <2>0. Stream(c)
    BY <1>0 DEF Channel
  <2>1. \A i \in DOMAIN to_driver'[c] : to_driver'[c][i].is \notin {"deliver", "consume"}
    <3>1. \A i \in 1 .. n : i \in 1 .. n + 1
      OBVIOUS
    <3> QED
      BY <1>1, <1>2, <1>5, <2>0, <3>1 DEF Stream, Answers
  <2>2. consuming'[c] = {}
    <3>1. n + 1 \in 1 .. n + 1
      OBVIOUS
    <3>2. ~ RunsAt(c, n + 1 + 1)
      BY <1>5, <3>1
    <3> QED
      BY <1>0, <1>1, <2>0, <3>2 DEF Stream
  <2>3. runtime'[c].active => wish'[c] /\ pending_disconnect'
    BY <2>0 DEF Stream
  <2>4. Consumes(c)' => pending_disconnect'
    BY <2>1, <2>3 DEF Consumes
  <2> QED
    BY <2>1, <2>2, <2>3, <2>4 DEF Stream
<1> QED
  BY <1>3, <1>4, <1>6 DEF Channel

\* The prefetch window is set: the consumer is asked for, or only prepared.
LEMMA QosRead ==
    ASSUME ControlInv, NEW c \in Consumers, Receive(c), Head(to_driver[c]).is = "qos", QosApplied(c)
    PROVE  Channel(c)' /\ (c \notin AutoStart => ~ runtime'[c].active)
<1> DEFINE q == to_driver[c]
<1>0. /\ ControlTypeOK /\ Channel(c) /\ consuming' = consuming /\ c \in Channels
      /\ UNCHANGED <<connection, runtime, wish, call, pending_disconnect>>
  BY ControlNumbers DEF ControlInv, Receive, QosApplied
<1>1. PICK n \in Nat :
         /\ Len(q) = n + 1 /\ DOMAIN q = 1 .. n + 1 /\ Head(q) = q[1]
         /\ Len(to_driver'[c]) = n /\ DOMAIN to_driver'[c] = 1 .. n
         /\ \A i \in 1 .. n : i + 1 \in 1 .. n + 1 /\ to_driver'[c][i] = q[i + 1]
         /\ Answers(q[1]) => \A i \in 1 .. n : ~ Answers(to_driver'[c][i])
         /\ Answers(q[1]) => to_broker[c] = <<>> /\ Awaited(q[1], c)
  BY ReadFacts
<1>2. /\ q[1].is = "qos" /\ 1 \in DOMAIN q /\ to_broker[c] = <<>> /\ Awaited(q[1], c)
      /\ \A i \in 1 .. n : ~ Answers(to_driver'[c][i])
  BY <1>1 DEF Answers
<1>3. ~ runtime[c].active /\ connection = "setup" /\ boot.asked /\ boot.stage = "consumers" /\ boot.index = c
  BY <1>0, <1>2 DEF Channel, Answered, Awaited
<1>4. \A j \in DOMAIN q : q[j].is # "consume"
  <2>1. \A j \in DOMAIN q : j = 1 \/ (j - 1 \in 1 .. n /\ (j - 1) + 1 = j)
    BY <1>1
  <2> QED
    BY <1>1, <1>2, <2>1 DEF Answers
<1>5. \A i \in 1 .. n + 2 : ~ RunsAt(c, i)
  <2>1. \A i \in 1 .. n + 2 : \A j \in 1 .. i - 1 : j \in DOMAIN q
    BY <1>1
  <2> QED
    BY <1>3, <1>4, <2>1 DEF RunsAt
<1>6. Stream(c)'
  <2>0. Stream(c)
    BY <1>0 DEF Channel
  <2>1. \A i \in DOMAIN to_driver'[c] : to_driver'[c][i].is \notin {"deliver", "consume"}
    <3>1. \A i \in 1 .. n : ~ RunsAt(c, i + 1)
      BY <1>5
    <3>2. \A i \in 1 .. n : q[i + 1].is # "deliver"
      BY <1>1, <2>0, <3>1 DEF Stream
    <3> QED
      BY <1>1, <1>2, <3>2 DEF Answers
  <2>2. consuming'[c] = {}
    <3>1. n + 1 + 1 \in 1 .. n + 2
      OBVIOUS
    <3>2. ~ RunsAt(c, n + 1 + 1)
      BY <1>5, <3>1
    <3> QED
      BY <1>0, <1>1, <2>0, <3>2 DEF Stream
  <2>3. ~ runtime'[c].active /\ ~ Consumes(c)'
    BY <1>0, <1>3, <2>1 DEF Consumes
  <2> QED
    BY <2>1, <2>2, <2>3 DEF Stream
<1>7. Answered(c)'
  BY <1>0, <1>1, <1>2 DEF Channel, Answered, Answers
<1>8. OneRequest(c)' /\ Requests(c)'
  <2>1. CASE c \in AutoStart
    <3>1. to_broker'[c] = <<Frame("consume", NoTag, Boot)>> /\ boot' = boot
      BY <1>0, <1>2, <2>1, ControlShapes DEF QosApplied, Consume, Asks
    <3>2. Len(to_broker'[c]) = 1 /\ DOMAIN to_broker'[c] = {1} /\ to_broker'[c][1].is = "consume"
          /\ to_broker'[c][1].by = Boot
      BY <3>1 DEF Frame
    <3>3. OneRequest(c)'
      BY <1>1, <1>2, <3>2 DEF OneRequest, Answers
    <3>4. Requests(c)'
      BY <1>0, <1>3, <2>1, <3>1, <3>2 DEF Requests, Awaited
    <3> QED
      BY <3>3, <3>4
  <2>2. CASE c \notin AutoStart
    <3>1. to_broker'[c] = <<>>
      BY <1>2, <2>2 DEF QosApplied
    <3> QED
      BY <1>1, <1>2, <3>1 DEF OneRequest, Requests, Answers
  <2> QED
    BY <2>1, <2>2
<1> QED
  BY <1>0, <1>3, <1>6, <1>7, <1>8 DEF Channel

\* The driver reads the next frame of a consumer's channel.
LEMMA ReceiveKeeps ==
    ASSUME ControlInv, NEW c \in Consumers, Receive(c)
    PROVE  Rest'
<1> DEFINE f == Head(to_driver[c])
<1>0. ControlTypeOK /\ Channel(c) /\ c \in Channels /\ c # 0 /\ 0 \in Channels
  BY ControlNumbers DEF ControlInv
<1>1. /\ f.is # "setup" /\ f \in Back
      /\ f.is \in {"qos", "consume"} => ~ runtime[c].active
      /\ Answers(f) => Awaited(f, c)
  <2>1. f = to_driver[c][1] /\ 1 \in DOMAIN to_driver[c] /\ f \in Back
    <3>1. to_driver[c] \in Seq(Back) /\ to_driver[c] # <<>>
      BY <1>0, ChannelTypes DEF Receive
    <3> QED
      BY <3>1, TailFacts
  <2> QED
    BY <1>0, <2>1 DEF Channel, Answered
<1>2. connection' = connection
  BY DEF Receive
<1>3. \A d \in Consumers : d \in Channels
  BY ControlNumbers
<1>4. CASE f.is = "qos" /\ QosApplied(c)
  <2>1. /\ connection = "setup" /\ boot.asked /\ boot.stage = "consumers" /\ boot.index = c
        /\ UNCHANGED <<runtime, wish, call, pending_disconnect>>
    BY <1>1, <1>4 DEF Awaited, Answers, QosApplied
  <2>2. Channel(c)'
    BY <1>4, QosRead
  <2>3. to_broker'[0] = to_broker[0] /\ \A d \in Consumers : d # c => to_broker'[d] = to_broker[d]
    BY <1>0, <1>3, <1>4, ControlShapes DEF QosApplied, Consume, Asks
  <2>4. \A d, g : d # c => ~ Awaited(g, d)
    BY <2>1 DEF Awaited
  <2>5. CASE c \in AutoStart
    <3>1. boot' = boot
      BY <1>4, <2>5 DEF QosApplied
    <3> QED
      BY <2>1, <2>2, <2>3, <2>4, <3>1, ReadKeeps
  <2>6. CASE c \notin AutoStart
    <3>1. Prepared(c)
      BY <1>4, <2>6 DEF QosApplied
    <3>2. ~ runtime'[c].active /\ ~ wish'[c]
      BY <1>1, <1>4, <2>1, <2>6 DEF ControlInv, Chain
    <3> QED
      BY <2>1, <2>2, <2>3, <2>4, <3>1, <3>2, ReadKeeps
  <2> QED
    BY <2>5, <2>6
<1>5. CASE f.is = "consume" /\ Consumed(c, f)
  <2>1. /\ runtime'[c].active = TRUE /\ runtime'[c].active_tag = f.tag
        /\ \A d \in Consumers : d # c => runtime'[d] = runtime[d]
        /\ UNCHANGED <<pending_disconnect, to_broker>>
    BY <1>0, <1>5, ControlShapes DEF Consumed, Runtimes
  <2>2. Awaited(f, c)
    BY <1>1, <1>5 DEF Answers
  <2>3. CASE f.by = Boot
    <3>1. /\ connection = "setup" /\ boot.stage = "consumers" /\ boot.index = c /\ boot.asked
          /\ c \in AutoStart /\ UNCHANGED <<call, wish>>
      BY <1>5, <2>2, <2>3 DEF Awaited, Consumed, BootGoesOn
    <3>2. Prepared(c)
      BY <1>5, <2>3, <3>1 DEF Consumed, BootGoesOn, NextStep, Prepared
    <3>3. wish'[c]
      BY <3>1 DEF ControlInv, Chain
    <3>4. Channel(c)'
      BY <1>5, <2>1, <3>3, ConsumeRead
    <3>5. \A d, g : d # c => ~ Awaited(g, d)
      BY <3>1 DEF Awaited
    <3> QED
      BY <2>1, <3>1, <3>2, <3>3, <3>4, <3>5, ReadKeeps
  <2>4. CASE f.by # Boot
    <3>1. connection = "ready" /\ f.by \in Calls /\ Target[f.by] = c
      BY <2>2, <2>4 DEF Awaited
    <3>2. /\ boot' = boot /\ wish'[c] = TRUE /\ \A d \in Consumers : d # c => wish'[d] = wish[d]
          /\ \A k \in Calls : k # f.by => call'[k] = call[k]
      BY <1>0, <1>5, <2>4, <3>1, ControlShapes DEF Consumed, Says, Returns
    <3>3. Channel(c)'
      BY <1>5, <2>1, <3>2, ConsumeRead
    <3>4. \A d, g : d # c => (Awaited(g, d) => Awaited(g, d)')
      BY <1>2, <3>1, <3>2 DEF Awaited
    <3> QED
      BY <2>1, <3>1, <3>2, <3>3, <3>4, ReadKeeps
  <2> QED
    BY <2>3, <2>4
<1>6. CASE f.is = "cancel" /\ Cancelled(c, f)
  <2>1. /\ runtime'[c].active = FALSE
        /\ \A d \in Consumers : d # c => runtime'[d] = runtime[d]
        /\ UNCHANGED <<boot, pending_disconnect, to_broker>>
    BY <1>0, <1>6, ControlShapes DEF Cancelled, Runtimes
  <2>2. connection = "ready" /\ f.by \in Calls /\ Target[f.by] = c
    BY <1>1, <1>6 DEF Answers, Awaited
  <2>3. /\ wish'[c] = FALSE /\ \A d \in Consumers : d # c => wish'[d] = wish[d]
        /\ \A k \in Calls : k # f.by => call'[k] = call[k]
    BY <1>0, <1>6, <2>2, ControlShapes DEF Cancelled, Says, Returns
  <2>4. Channel(c)'
    BY <1>6, <2>1, EndRead
  <2>5. \A d, g : d # c => (Awaited(g, d) => Awaited(g, d)')
    BY <1>2, <2>1, <2>2, <2>3 DEF Awaited
  <2> QED
    BY <2>1, <2>2, <2>3, <2>4, <2>5, ReadKeeps
<1>7. CASE f.is = "deliver" /\ HandlesMessage
  <2>1. UNCHANGED <<boot, runtime, pending_disconnect, to_broker, call, wish>>
    BY <1>7 DEF HandlesMessage
  <2>2. \A d, g : Awaited(g, d) => Awaited(g, d)'
    BY <1>2, <2>1 DEF Awaited
  <2>3. Channel(c)'
    BY <1>7, <2>1, <2>2, EventRead DEF Answers
  <2> QED
    BY <2>1, <2>2, <2>3, ReadKeeps
<1>8. CASE f.is = "cancelled" /\ ChannelFails(c, FALSE)
  <2>1. UNCHANGED <<boot, runtime, to_broker, wish>> /\ pending_disconnect'
        /\ \A k \in Calls : call'[k] = call[k]
    BY <1>8 DEF ChannelFails
  <2>2. \A d, g : Awaited(g, d) => Awaited(g, d)'
    BY <1>2, <2>1 DEF Awaited
  <2>3. Channel(c)'
    BY <1>8, <2>1, <2>2, EventRead DEF Answers
  <2> QED
    BY <2>1, <2>2, <2>3, ReadKeeps
<1>9. CASE f.is = "error" /\ ChannelFails(c, TRUE)
  <2>1. UNCHANGED <<boot, runtime, to_broker, wish>> /\ pending_disconnect'
        /\ \A k \in Calls : Target[k] # c => call'[k] = call[k]
    BY <1>9 DEF ChannelFails
  <2>2. \A d, g : d # c => (Awaited(g, d) => Awaited(g, d)')
    BY <1>2, <2>1 DEF Awaited
  <2>3. Channel(c)'
    BY <1>9, <2>1, EndRead
  <2> QED
    BY <2>1, <2>2, <2>3, ReadKeeps
<1> QED
  BY <1>1, <1>4, <1>5, <1>6, <1>7, <1>8, <1>9 DEF Receive

-----------------------------------------------------------------------------
(* The theorems.                                                           *)

\* Every step keeps the invariant, if the callers take turns.
LEMMA ControlInvKept ==
    ASSUME ControlInv, TakeTurns, [ControlNext]_controlVars
    PROVE  ControlInv'
<1>1. SUFFICES Rest'
  BY ControlTypesKept DEF ControlInv, Rest
<1>2. CASE ConnectSocket
  BY <1>2, ConnectSocketKeeps
<1>3. CASE ApplyReconnectBackoff
  BY <1>3, ElsewhereKeeps DEF ApplyReconnectBackoff, driverVars, brokerVars, callVars
<1>4. CASE ConnectionLost
  BY <1>4, ElsewhereKeeps DEF ConnectionLost, brokerVars, callVars
<1>5. CASE HandleDisconnect
  BY <1>5, HandleDisconnectKeeps
<1>6. CASE Bootstrap
  BY <1>6, BootstrapKeeps
<1>7. ASSUME NEW k \in Calls, Enqueue(k)
      PROVE  Rest'
  <2>1. call[k].stage # "waiting" /\ \A l \in Calls : l # k => call'[l] = call[l]
    BY <1>7, ControlShapes DEF ControlInv, Enqueue, NoCall
  <2> QED
    BY <1>7, <2>1, ElsewhereKeeps DEF Enqueue, driverVars, brokerVars
<1>8. ASSUME NEW k \in Calls, Run(k)
      PROVE  Rest'
  BY <1>8, RunKeeps
<1>9. ASSUME NEW c \in Channels, Answer(c) \/ Refuse(c)
      PROVE  Rest'
  BY <1>9, AnswerKeeps
<1>10. ASSUME NEW c \in Channels, Receive(c)
       PROVE  Rest'
  BY <1>10, ReceiveSetupKeeps, ReceiveKeeps, ControlNumbers
<1>11. ASSUME NEW c \in Consumers, Push(c) \/ CancelConsumer(c)
       PROVE  Rest'
  BY <1>11, PushKeeps
<1>12. CASE UNCHANGED controlVars
  BY <1>12, ElsewhereKeeps DEF controlVars, driverVars, brokerVars, callVars
<1> QED
  BY <1>2, <1>3, <1>4, <1>5, <1>6, <1>7, <1>8, <1>9, <1>10, <1>11, <1>12 DEF ControlNext

LEMMA ControlInvAlways == ControlSpec /\ []TakeTurns => []ControlInv
<1>1. ControlInv /\ TakeTurns /\ [ControlNext]_controlVars => ControlInv'
  BY ControlInvKept
<1> QED
  BY <1>1, ControlInitial, PTL DEF ControlSpec

\* A channel on which only deliveries are under way tells what has settled.
LEMMA Settled ==
    ASSUME ControlInv, NEW c \in Consumers, connection = "ready", ~ pending_disconnect, Quiet(c)
    PROVE  /\ runtime[c].active = wish[c]
           /\ consuming[c] = IF wish[c] THEN {runtime[c].active_tag} ELSE {}
<1>0. ControlTypeOK /\ Stream(c) /\ c \in Channels
  BY ControlNumbers DEF ControlInv, Channel
<1>1. runtime[c].active = wish[c]
  <2>1. runtime[c].active <=> wish[c]
    BY DEF ControlInv, Chain
  <2>2. runtime[c].active \in BOOLEAN /\ wish[c] \in BOOLEAN
    BY <1>0 DEF ControlTypeOK, Runtimes
  <2> QED
    BY <2>1, <2>2
<1>2. \A i \in DOMAIN to_driver[c] : to_driver[c][i].is = "deliver"
  BY DEF Quiet
<1>3. CASE wish[c]
  <2>1. consuming[c] # {}
    BY <1>0, <1>1, <1>2, <1>3 DEF Stream, Consumes
  <2>2. \A t \in consuming[c] : t = runtime[c].active_tag
    BY <1>0, <1>1, <1>3 DEF Stream
  <2> QED
    BY <1>1, <1>3, <2>1, <2>2
<1>4. CASE ~ wish[c]
  <2>1. \A j \in 1 .. Len(to_driver[c]) + 1 - 1 : j \in DOMAIN to_driver[c]
    <3>1. to_driver[c] \in Seq(Back)
      BY <1>0, ChannelTypes
    <3> QED
      BY <3>1
  <2>2. ~ RunsAt(c, Len(to_driver[c]) + 1)
    BY <1>1, <1>2, <1>4, <2>1 DEF RunsAt
  <2>3. consuming[c] = {}
    BY <1>0, <2>2 DEF Stream
  <2> QED
    BY <1>1, <1>4, <2>3
<1> QED
  BY <1>3, <1>4

\* As long as callers of the same consumer take turns: once a ready connection
\* has settled, the driver, the callers and the broker agree about every
\* consumer, whatever the bootstrap, callers and broker have interleaved.
THEOREM DriverAndBrokerAgree == ControlSpec /\ []TakeTurns => []ControlAgrees
<1>1. ControlInv => ControlAgrees
  BY Settled DEF ControlAgrees, ControlInv
<1> QED
  BY <1>1, ControlInvAlways, PTL

\* As long as callers of the same consumer take turns, the driver handles no
\* message of a consumer once StopConsumer has returned.
THEOREM StoppedIsSilent == ControlSpec /\ []TakeTurns => NoDeliveryAfterStop
<1>1. ASSUME ControlInv, NEW c \in Consumers, to_driver[c] # <<>>, Head(to_driver[c]).is = "deliver"
      PROVE  wish[c]
  <2>1. to_driver[c] \in Seq(Back) /\ Stream(c)
    <3>1. ControlTypeOK /\ c \in Channels /\ Channel(c)
      BY <1>1, ControlNumbers DEF ControlInv
    <3> QED
      BY <3>1, ChannelTypes DEF Channel
  <2>2. 1 \in DOMAIN to_driver[c] /\ to_driver[c][1].is = "deliver"
    BY <1>1, <2>1, TailFacts
  <2>3. RunsAt(c, 1)
    BY <2>1, <2>2 DEF Stream
  <2> QED
    BY <2>1, <2>3 DEF RunsAt, Stream
<1>2. ControlInv => [\A c \in Consumers :
        to_driver[c] # <<>> /\ to_driver'[c] = Tail(to_driver[c]) /\ Head(to_driver[c]).is = "deliver"
        /\ connection' = connection
        => wish[c]]_controlVars
  BY <1>1
<1> QED
  BY <1>2, ControlInvAlways, PTL DEF NoDeliveryAfterStop

\* Callers that control a consumer of their own take turns, whatever they call.
LEMMA OwnConsumersTakeTurns ==
    (\A k, l \in Calls : Target[k] = Target[l] => k = l) /\ ControlSpec => []TakeTurns
<1>1. (\A k, l \in Calls : Target[k] = Target[l] => k = l) => TakeTurns
  BY DEF TakeTurns, Controls
<1>2. ASSUME \A k, l \in Calls : Target[k] = Target[l] => k = l
      PROVE  ControlSpec => []TakeTurns
  <2>1. TakeTurns
    BY <1>1, <1>2
  <2> QED
    BY <2>1, PTL
<1> QED
  BY <1>2
=============================================================================
