----------------------- MODULE PublisherConfirmsProofs -----------------------
(***************************************************************************)
(* Theorems about PublisherConfirms, for any number of publishes,          *)
(* connections and look-alikes.                                            *)
(***************************************************************************)
EXTENDS PublisherConfirms, TLAPS

USE PublisherConfirmsAssumption

-----------------------------------------------------------------------------
(* The inductive invariant.                                                *)

Pending   == DOMAIN pending_publish_confirms
Of(t)     == pending_publish_confirms[t].publish
Back(t)   == pending_publish_confirms[t].returned
Covers(f, t) == f.type \in {"ack", "nack"} /\ (f.tag = t \/ (f.multiple /\ t < f.tag))

\* Both sides count the same publishes.
Counts ==
    /\ ~connected => /\ wire = <<>> /\ frames = <<>>
                     /\ Pending = {} /\ DOMAIN unsettled = {}
    /\ connected => next_publish_confirm_tag = received + Len(wire) + 1
    /\ \A t \in DOMAIN unsettled : t <= received
    /\ \A t \in Pending : t < next_publish_confirm_tag

\* A publish is in one place at a time, and nowhere twice.
Once ==
    /\ \A i, j \in DOMAIN commands : commands[i] = commands[j] => i = j
    /\ \A i, j \in DOMAIN wire : wire[i] = wire[j] => i = j
    /\ \A t, u \in DOMAIN unsettled : unsettled[t] = unsettled[u] => t = u
    /\ \A i \in DOMAIN commands, j \in DOMAIN wire : commands[i] # wire[j]
    /\ \A i \in DOMAIN commands : status[commands[i]] # "new" /\ routed[commands[i]] = "unknown"
    /\ \A i \in DOMAIN wire : status[wire[i]] # "new" /\ routed[wire[i]] = "unknown"
    /\ \A t \in DOMAIN unsettled : routed[unsettled[t]] # "unknown" /\ verdict[unsettled[t]] = "none"
    /\ \A p \in Publishes : /\ verdict[p] # "none" => routed[p] # "unknown"
                            /\ routed[p] # "unknown" => status[p] # "new"

\* An acknowledgement on its way is about publishes that the broker has
\* received and settled, a returned message about one that found no queue.
FrameOrder ==
    \A i \in DOMAIN frames :
        /\ frames[i].type \in {"ack", "nack"} =>
               /\ frames[i].tag <= received
               /\ \A u \in DOMAIN unsettled : ~Covers(frames[i], u)
        /\ frames[i].type = "return" =>
               frames[i].publish \in Mandatory /\ routed[frames[i].publish] = "unroutable"

\* Of the acknowledgements that cover a tag, the first is the one that settled it.
Verdicts ==
    \A t \in Pending : verdict[Of(t)] # "none" =>
        \E i \in DOMAIN frames : /\ Covers(frames[i], t)
                                 /\ frames[i].type = verdict[Of(t)]
                                 /\ \A j \in 1 .. i - 1 : ~Covers(frames[j], t)

PendingOnce == \A t, u \in Pending : Of(t) = Of(u) => t = u

Looks(p) == \E q \in Mandatory : <<p, q>> \in Alike /\ routed[q] = "unroutable"

\* A returned message overtakes no acknowledgement of its publish.
Returns ==
    \A t \in Pending :
        /\ Back(t) => Of(t) \in Mandatory /\ Looks(Of(t))
        /\ Of(t) \in Mandatory /\ Distinct(Of(t)) /\ routed[Of(t)] = "unroutable" /\ ~Back(t) =>
               \E i \in DOMAIN frames : /\ frames[i].type = "return" /\ frames[i].publish = Of(t)
                                        /\ \A j \in 1 .. i - 1 : ~Covers(frames[j], t)

\* What only the channel and the broker know of.
Channel == Counts /\ TagsAgree /\ FrameOrder /\ Verdicts /\ PendingOnce /\ Returns

IInv == TypeOK /\ Once /\ Channel /\ ReceiptIsTrue

-----------------------------------------------------------------------------
(* Sequences.                                                              *)

LEMMA TailFacts ==
    ASSUME NEW S, NEW s \in Seq(S), s # <<>>
    PROVE  /\ Len(s) \in Nat \ {0} /\ DOMAIN s = 1 .. Len(s)
           /\ Head(s) = s[1] /\ Head(s) \in S
           /\ Tail(s) \in Seq(S) /\ Len(Tail(s)) = Len(s) - 1
           /\ DOMAIN Tail(s) = 1 .. Len(s) - 1
           /\ \A i \in 1 .. Len(s) - 1 : Tail(s)[i] = s[i + 1]
OBVIOUS

LEMMA AppendFacts ==
    ASSUME NEW S, NEW s \in Seq(S), NEW e \in S
    PROVE  /\ Len(s) \in Nat /\ DOMAIN s = 1 .. Len(s)
           /\ Append(s, e) \in Seq(S) /\ Len(Append(s, e)) = Len(s) + 1
           /\ DOMAIN Append(s, e) = 1 .. Len(s) + 1
           /\ Append(s, e)[Len(s) + 1] = e
           /\ \A i \in 1 .. Len(s) : Append(s, e)[i] = s[i]
OBVIOUS

Entries == [publish : Publishes, returned : BOOLEAN]
Frames  == [type : {"return"}, publish : Publishes]
           \cup [type : {"ack", "nack"}, tag : Tags, multiple : BOOLEAN]
Statuses == {"new", "sent", "waiting"} \cup Receipts \cup Errors

LEMMA InitInv == Init => IInv
<1> SUFFICES ASSUME Init PROVE IInv
  OBVIOUS
<1>1. Pending = {} /\ DOMAIN unsettled = {}
  BY DEF Init, Pending, NoTags
<1>2. TypeOK
  <2>1. status \in [Publishes -> {"new", "sent", "waiting"} \cup Receipts \cup Errors]
    BY DEF Init
  <2>2. commands \in Seq(Publishes) /\ wire \in Seq(Publishes) /\ frames \in Seq(Frames)
    BY DEF Init
  <2>3. connections \in Nat /\ received \in Nat /\ next_publish_confirm_tag \in Tags
    BY DEF Init, Tags
  <2>4. connected \in BOOLEAN
    BY DEF Init
  <2>5. routed \in [Publishes -> {"unknown", "routed", "unroutable"}]
    BY DEF Init
  <2>6. verdict \in [Publishes -> {"none", "ack", "nack"}]
    BY DEF Init
  <2>7. /\ DOMAIN pending_publish_confirms = {}
        /\ DOMAIN unsettled = {}
    BY <1>1 DEF Pending
  <2>8. QED BY <2>1, <2>2, <2>3, <2>4, <2>5, <2>6, <2>7 DEF TypeOK, Frames
<1>3. Once
  BY <1>1 DEF Init, Once
<1>4. Channel
  BY <1>1 DEF Init, Channel, Counts, TagsAgree, FrameOrder, Verdicts, PendingOnce, Returns, Pending
<1>5. ReceiptIsTrue
  BY DEF Init, ReceiptIsTrue
<1>6. QED BY <1>2, <1>3, <1>4, <1>5 DEF IInv

\* A pending publish without a verdict has no acknowledgement on its way.
LEMMA NotCovered ==
    ASSUME TypeOK, Channel, NEW t \in Pending, verdict[Of(t)] = "none", NEW i \in DOMAIN frames
    PROVE  ~Covers(frames[i], t)
<1>1. t > received \/ t \in DOMAIN unsettled
  BY DEF Channel, TagsAgree, Pending, Of
<1>2. t \in Nat /\ received \in Nat /\ frames[i] \in Frames
  BY DEF TypeOK, Pending, Tags, Frames
<1>3. CASE t \in DOMAIN unsettled
  BY <1>2, <1>3 DEF Channel, FrameOrder, Covers
<1>4. CASE t > received
  <2>1. ASSUME frames[i].type \in {"ack", "nack"} PROVE frames[i].tag \in Nat /\ frames[i].tag < t
    BY <1>2, <1>4, <2>1 DEF Channel, FrameOrder, Frames, Tags
  <2>2. QED BY <1>2, <2>1 DEF Covers
<1>5. QED BY <1>1, <1>3, <1>4

LEMMA PendingTypes ==
    ASSUME TypeOK
    PROVE  /\ \A t \in Pending : t \in Nat /\ Of(t) \in Publishes /\ Back(t) \in BOOLEAN
           /\ frames \in Seq(Frames) /\ received \in Nat /\ next_publish_confirm_tag \in Nat
           /\ \A t \in DOMAIN unsettled : t \in Nat /\ unsettled[t] \in Publishes
BY DEF TypeOK, Pending, Of, Back, Tags, Frames, Entries

-----------------------------------------------------------------------------
(* The callers and refused publishes: only status and commands change.     *)

LEMMA ChannelSame ==
    ASSUME Channel, UNCHANGED <<connected, driver, wire, frames, broker>>
    PROVE  Channel'
<1>1. UNCHANGED <<Pending, next_publish_confirm_tag, pending_publish_confirms, received, unsettled, routed, verdict>>
  BY DEF driver, broker, Pending
<1>2. Counts'
  BY <1>1 DEF Channel, Counts
<1>3. TagsAgree'
  BY <1>1 DEF Channel, TagsAgree, OnItsWay
<1>4. FrameOrder'
  BY <1>1 DEF Channel, FrameOrder
<1>5. Verdicts' /\ PendingOnce'
  BY <1>1 DEF Channel, Verdicts, PendingOnce, Of
<1>6. Returns'
  BY <1>1 DEF Channel, Returns, Of, Back, Looks
<1>7. QED BY <1>2, <1>3, <1>4, <1>5, <1>6 DEF Channel

LEMMA ReceiptSame ==
    ASSUME ReceiptIsTrue, status' = status, verdict' = verdict, routed' = routed
    PROVE  ReceiptIsTrue'
BY DEF ReceiptIsTrue

LEMMA CallInv ==
    ASSUME IInv, NEW p \in Publishes, Call(p)
    PROVE  IInv'
<1>1. /\ UNCHANGED <<connections, connected, next_publish_confirm_tag, pending_publish_confirms, wire, frames,
                     received, unsettled, routed, verdict>>
      /\ status[p] = "new" /\ commands' = Append(commands, p)
      /\ status' \in [Publishes -> Statuses]
      /\ status'[p] \in {"waiting", "sent"}
      /\ \A q \in Publishes \ {p} : status'[q] = status[q]
  BY DEF IInv, TypeOK, Call, driver, broker, Statuses
<1>2. commands \in Seq(Publishes)
  BY DEF IInv, TypeOK
<1>3. /\ commands' \in Seq(Publishes) /\ Len(commands) \in Nat /\ DOMAIN commands = 1 .. Len(commands)
      /\ DOMAIN commands' = 1 .. Len(commands) + 1
      /\ commands'[Len(commands) + 1] = p
      /\ \A i \in 1 .. Len(commands) : commands'[i] = commands[i] /\ commands[i] \in Publishes
  BY <1>1, <1>2, AppendFacts
<1>4. TypeOK'
  BY <1>1, <1>3 DEF IInv, TypeOK, Statuses
<1>5. Channel'
  BY <1>1, ChannelSame DEF IInv, driver, broker
<1>6. ReceiptIsTrue'
  BY <1>1 DEF IInv, ReceiptIsTrue
<1>7. \A i \in 1 .. Len(commands) : commands[i] # p
  BY <1>1, <1>3 DEF IInv, Once
<1>8. /\ \A j \in DOMAIN wire : wire[j] \in Publishes /\ wire[j] # p
      /\ routed[p] = "unknown"
  BY <1>1 DEF IInv, TypeOK, Once
<1>9. Once'
  <2>1. \A i, j \in DOMAIN commands' : commands'[i] = commands'[j] => i = j
    BY <1>3, <1>7 DEF IInv, Once
  <2>2. \A i \in DOMAIN commands', j \in DOMAIN wire : commands'[i] # wire[j]
    BY <1>3, <1>8 DEF IInv, Once
  <2>3. \A i \in DOMAIN commands' : status'[commands'[i]] # "new" /\ routed[commands'[i]] = "unknown"
    BY <1>1, <1>3, <1>7, <1>8 DEF IInv, Once
  <2>4. \A i \in DOMAIN wire : status'[wire[i]] # "new"
    BY <1>1, <1>8 DEF IInv, Once
  <2>5. \A q \in Publishes : routed[q] # "unknown" => status'[q] # "new"
    BY <1>1, <1>8 DEF IInv, Once
  <2>6. QED BY <1>1, <2>1, <2>2, <2>3, <2>4, <2>5 DEF IInv, Once
<1>10. QED BY <1>4, <1>5, <1>6, <1>9 DEF IInv

\* What Complete does to the calls.
LEMMA CompleteFacts ==
    ASSUME TypeOK, NEW S, NEW result, \A p \in S : result[p] \in Receipts \cup Errors,
           Complete(S, result)
    PROVE  /\ status' \in [Publishes -> Statuses]
           /\ \A p \in Publishes : status'[p] = "new" <=> status[p] = "new"
           /\ \A p \in Publishes : status'[p] = status[p] \/ (p \in S /\ status'[p] = result[p])
BY DEF TypeOK, Complete, Statuses, Receipts, Errors

LEMMA TimeOutInv ==
    ASSUME IInv, NEW p \in Publishes, TimeOut(p)
    PROVE  IInv'
<1>1. /\ UNCHANGED <<commands, connections, connected, next_publish_confirm_tag, pending_publish_confirms,
                     wire, frames, received, unsettled, routed, verdict>>
      /\ status' \in [Publishes -> Statuses]
      /\ status[p] = "waiting" /\ status'[p] = "Timeout"
      /\ \A q \in Publishes \ {p} : status'[q] = status[q]
  BY DEF IInv, TypeOK, TimeOut, driver, broker, Statuses, Errors
<1>2. TypeOK'
  BY <1>1 DEF IInv, TypeOK, Statuses
<1>3. Channel'
  BY <1>1, ChannelSame DEF IInv, driver, broker
<1>4. ReceiptIsTrue'
  BY <1>1 DEF IInv, ReceiptIsTrue
<1>5. \A q \in Publishes : status[q] # "new" => status'[q] # "new"
  BY <1>1
<1>6. (\A i \in DOMAIN commands : commands[i] \in Publishes) /\ (\A i \in DOMAIN wire : wire[i] \in Publishes)
  BY DEF IInv, TypeOK
<1>7. Once'
  BY <1>1, <1>5, <1>6 DEF IInv, Once
<1>8. QED BY <1>2, <1>3, <1>4, <1>7 DEF IInv

LEMMA RefusedInv ==
    ASSUME IInv, RunRefused
    PROVE  IInv'
<1>1. /\ UNCHANGED <<connections, connected, next_publish_confirm_tag, pending_publish_confirms,
                     wire, frames, received, unsettled, routed, verdict>>
      /\ commands # <<>> /\ commands' = Tail(commands)
  BY DEF RunRefused, driver, broker
<1> DEFINE error == IF connected THEN "OperationFailed" ELSE "Disconnected"
<1>2. Complete({Head(commands)}, [q \in {Head(commands)} |-> error]) /\ TypeOK
  BY DEF RunRefused, Fail, IInv
<1>3. \A q \in {Head(commands)} : [r \in {Head(commands)} |-> error][q] \in Errors
  BY DEF Errors
<1>4. /\ status' \in [Publishes -> Statuses]
      /\ \A q \in Publishes : status'[q] = "new" <=> status[q] = "new"
      /\ \A q \in Publishes : status'[q] = status[q] \/ status'[q] \in Errors
  <2> HIDE DEF error
  <2>1. QED BY <1>2, <1>3, CompleteFacts
<1>5. /\ commands' \in Seq(Publishes) /\ Len(commands) \in Nat \ {0} /\ DOMAIN commands = 1 .. Len(commands)
      /\ DOMAIN commands' = 1 .. Len(commands) - 1
      /\ \A i \in 1 .. Len(commands) - 1 : commands'[i] = commands[i + 1]
  BY <1>1, TailFacts DEF IInv, TypeOK
<1>6. TypeOK'
  BY <1>1, <1>4, <1>5 DEF IInv, TypeOK, Statuses
<1>7. Channel'
  BY <1>1, ChannelSame DEF IInv, driver, broker
<1>8. ReceiptIsTrue'
  BY <1>1, <1>4 DEF IInv, ReceiptIsTrue, Errors
<1>9. Once'
  <2>1. \A i \in 1 .. Len(commands) - 1 : i + 1 \in DOMAIN commands
    BY <1>5
  <2>2. (\A i \in DOMAIN commands : commands[i] \in Publishes) /\ (\A i \in DOMAIN wire : wire[i] \in Publishes)
    BY DEF IInv, TypeOK
  <2>3. \A i, j \in DOMAIN commands' : commands'[i] = commands'[j] => i = j
    BY <1>5, <2>1 DEF IInv, Once
  <2>4. \A i \in DOMAIN commands' : /\ status'[commands'[i]] # "new" /\ routed[commands'[i]] = "unknown"
                                    /\ \A j \in DOMAIN wire : commands'[i] # wire[j]
    <3>1. \A k \in DOMAIN commands : /\ commands[k] \in Publishes
                                     /\ status[commands[k]] # "new" /\ routed[commands[k]] = "unknown"
                                     /\ \A j \in DOMAIN wire : commands[k] # wire[j]
      BY <2>2 DEF IInv, Once
    <3>2. \A k \in DOMAIN commands : status'[commands[k]] # "new"
      BY <1>4, <3>1
    <3>3. \A i \in DOMAIN commands' : i + 1 \in DOMAIN commands /\ commands'[i] = commands[i + 1]
      BY <1>5, <2>1
    <3>4. QED BY <3>1, <3>2, <3>3
  <2>5. \A i \in DOMAIN wire : status'[wire[i]] # "new"
    BY <1>4, <2>2 DEF IInv, Once
  <2>6. \A q \in Publishes : routed[q] # "unknown" => status'[q] # "new"
    BY <1>4 DEF IInv, Once
  <2>7. QED BY <1>1, <2>3, <2>4, <2>5, <2>6 DEF IInv, Once
<1>10. QED BY <1>6, <1>7, <1>8, <1>9 DEF IInv

-----------------------------------------------------------------------------
(* A connection comes and goes.                                            *)

\* A channel without pending publishes and frames is in order.
LEMMA ChannelEmpty ==
    ASSUME Counts', Pending' = {}, frames' = <<>>
    PROVE  Channel'
BY DEF Channel, TagsAgree, FrameOrder, Verdicts, PendingOnce, Returns, Pending

LEMMA ConnectInv ==
    ASSUME IInv, Connect
    PROVE  IInv'
<1>1. /\ UNCHANGED <<status, commands, wire, frames, routed, verdict>>
      /\ connections' = connections + 1 /\ connected' = TRUE
      /\ next_publish_confirm_tag' = 1 /\ received' = 0
      /\ Pending' = {} /\ DOMAIN unsettled' = {}
      /\ wire = <<>> /\ frames = <<>>
  BY DEF IInv, Channel, Counts, Connect, Pending, NoTags
<1>2. TypeOK'
  <2>1. connected' \in BOOLEAN
    BY <1>1
  <2>2. connections' \in Nat /\ next_publish_confirm_tag' \in Tags /\ received' \in Nat
    BY <1>1 DEF IInv, TypeOK, Tags
  <2>3. /\ DOMAIN pending_publish_confirms' = {}
        /\ DOMAIN unsettled' = {}
    BY <1>1 DEF Pending
  <2>4. QED BY <1>1, <2>1, <2>2, <2>3 DEF IInv, TypeOK
<1>3. Channel'
  <2>1. Counts'
    BY <1>1 DEF Counts
  <2>2. QED BY <1>1, <2>1, ChannelEmpty
<1>4. Once'
  BY <1>1 DEF IInv, Once
<1>5. ReceiptIsTrue'
  BY <1>1 DEF IInv, ReceiptIsTrue
<1>6. QED BY <1>2, <1>3, <1>4, <1>5 DEF IInv

LEMMA DisconnectInv ==
    ASSUME IInv, HandleDisconnect
    PROVE  IInv'
<1>1. /\ UNCHANGED <<commands, connections, received, routed, verdict>>
      /\ connected' = FALSE /\ next_publish_confirm_tag' = 1
      /\ Pending' = {} /\ DOMAIN unsettled' = {}
      /\ wire' = <<>> /\ frames' = <<>>
  BY DEF HandleDisconnect, Pending, NoTags
<1> DEFINE S == {pending_publish_confirms[t].publish : t \in DOMAIN pending_publish_confirms}
<1>2. Complete(S, [q \in S |-> "Disconnected"]) /\ TypeOK
  BY DEF HandleDisconnect, Fail, IInv
<1>3. \A q \in S : [r \in S |-> "Disconnected"][q] \in Errors
  BY DEF Errors
<1>4. /\ status' \in [Publishes -> Statuses]
      /\ \A q \in Publishes : status'[q] = "new" <=> status[q] = "new"
      /\ \A q \in Publishes : status'[q] = status[q] \/ status'[q] \in Errors
  <2> HIDE DEF S
  <2>1. QED BY <1>2, <1>3, CompleteFacts
<1>5. TypeOK'
  <2>1. connected' \in BOOLEAN
    BY <1>1
  <2>2. next_publish_confirm_tag' \in Tags
    BY <1>1 DEF Tags
  <2>3. /\ DOMAIN pending_publish_confirms' = {}
        /\ DOMAIN unsettled' = {}
    BY <1>1 DEF Pending
  <2>4. wire' \in Seq(Publishes) /\ frames' \in Seq(Frames)
    BY <1>1
  <2>5. QED BY <1>1, <1>4, <2>1, <2>2, <2>3, <2>4 DEF IInv, TypeOK, Statuses, Frames
<1>6. Channel'
  <2>1. Counts'
    BY <1>1 DEF Counts
  <2>2. QED BY <1>1, <2>1, ChannelEmpty
<1>7. Once'
  <2>1. \A i \in DOMAIN commands : commands[i] \in Publishes
    BY DEF IInv, TypeOK
  <2>2. QED BY <1>1, <1>4, <2>1 DEF IInv, Once
<1>8. ReceiptIsTrue'
  BY <1>1, <1>4 DEF IInv, ReceiptIsTrue, Errors
<1>9. QED BY <1>5, <1>6, <1>7, <1>8 DEF IInv

-----------------------------------------------------------------------------
(* A publish reaches the channel.                                          *)

\* A pending publish is on its way, at the broker, or has its verdict: it is
\* nowhere else.
LEMMA PendingIsOut ==
    ASSUME TypeOK, Once, TagsAgree, NEW t \in Pending
    PROVE  \/ \E i \in DOMAIN wire : wire[i] = Of(t)
           \/ routed[Of(t)] # "unknown"
<1>1. Of(t) \in Publishes /\ t \in Nat /\ received \in Nat /\ wire \in Seq(Publishes)
  BY DEF TypeOK, Pending, Of, Tags
<1>2. CASE t > received /\ t - received <= Len(wire) /\ wire[t - received] = Of(t)
  BY <1>1, <1>2
<1>3. CASE t \in DOMAIN unsettled /\ unsettled[t] = Of(t)
  BY <1>3 DEF Once
<1>4. CASE verdict[Of(t)] # "none"
  BY <1>1, <1>4 DEF Once
<1>5. QED BY <1>2, <1>3, <1>4 DEF TagsAgree, Pending, Of

LEMMA PublishInv ==
    ASSUME IInv, RunPublish
    PROVE  IInv'
<1> DEFINE p == Head(commands)
           n == next_publish_confirm_tag
<1>0. TypeOK /\ Once /\ Channel /\ Counts /\ TagsAgree
  BY DEF IInv, Channel
<1>1. /\ UNCHANGED <<status, connections, connected, frames, received, unsettled, routed, verdict>>
      /\ commands # <<>> /\ commands' = Tail(commands) /\ connected
      /\ wire' = Append(wire, p) /\ n' = n + 1
  BY DEF RunPublish, broker
<1>2. /\ commands' \in Seq(Publishes) /\ Len(commands) \in Nat \ {0} /\ DOMAIN commands = 1 .. Len(commands)
      /\ DOMAIN commands' = 1 .. Len(commands) - 1
      /\ \A i \in 1 .. Len(commands) - 1 : commands'[i] = commands[i + 1]
      /\ p = commands[1] /\ p \in Publishes
  BY <1>0, <1>1, TailFacts DEF TypeOK
<1>3. /\ wire' \in Seq(Publishes) /\ Len(wire) \in Nat /\ DOMAIN wire = 1 .. Len(wire)
      /\ DOMAIN wire' = 1 .. Len(wire) + 1 /\ Len(wire') = Len(wire) + 1
      /\ wire'[Len(wire) + 1] = p
      /\ \A i \in 1 .. Len(wire) : wire'[i] = wire[i] /\ wire[i] \in Publishes
  BY <1>0, <1>1, <1>2, AppendFacts DEF TypeOK
<1>4. n \in Nat \ {0} /\ received \in Nat /\ n = received + Len(wire) + 1
  BY <1>0, <1>1 DEF TypeOK, Tags, Counts
<1>5. status[p] # "new" /\ routed[p] = "unknown" /\ verdict[p] = "none"
  BY <1>0, <1>2 DEF Once
<1>6. \A i \in DOMAIN wire : wire[i] # p
  BY <1>0, <1>2 DEF Once
<1>7. \A t \in Pending : t \in Nat \ {0} /\ t < n /\ Of(t) # p /\ Of(t) \in Publishes
  BY <1>0, <1>5, <1>6, PendingIsOut DEF Counts, TypeOK, Pending, Of, Tags
<1>8. /\ \A t \in Pending' \ {n} : t \in Pending /\ Of(t)' = Of(t) /\ (Back(t)' <=> Back(t))
      /\ n \in Pending' => /\ pending_publish_confirms'[n].publish = p
                           /\ ~pending_publish_confirms'[n].returned
  <2>1. CASE pending_publish_confirms' = pending_publish_confirms
    BY <1>7, <2>1 DEF Pending, Of, Back
  <2>2. CASE pending_publish_confirms' = With(pending_publish_confirms, n, [publish |-> p, returned |-> FALSE])
    <3>1. /\ \A t \in Pending' \ {n} : t \in Pending /\ pending_publish_confirms'[t] = pending_publish_confirms[t]
          /\ n \in Pending' => pending_publish_confirms'[n] = [publish |-> p, returned |-> FALSE]
      BY <2>2 DEF Pending, With
    <3>2. \A t \in Pending' \ {n} : Back(t)' <=> Back(t)
      BY <3>1, Zenon DEF Back
    <3>3. n \in Pending' => /\ pending_publish_confirms'[n].publish = p
                            /\ ~pending_publish_confirms'[n].returned
      BY <3>1
    <3>4. QED BY <3>1, <3>2, <3>3 DEF Of
  <2>3. QED BY <2>1, <2>2 DEF RunPublish
<1> HIDE DEF p, n
<1>9. TypeOK'
  <2>1. CASE pending_publish_confirms' = pending_publish_confirms
    BY <1>0, <1>1, <1>2, <1>3, <1>4, <2>1 DEF TypeOK, Tags, n
  <2>2. CASE pending_publish_confirms' = With(pending_publish_confirms, n, [publish |-> p, returned |-> FALSE])
    <3>1. DOMAIN pending_publish_confirms' \subseteq Tags
      BY <1>0, <1>4, <2>2 DEF TypeOK, With, Tags
    <3>2. \A t \in DOMAIN pending_publish_confirms' :
              pending_publish_confirms'[t] \in [publish : Publishes, returned : BOOLEAN]
      BY <1>0, <1>2, <2>2 DEF TypeOK, With
    <3>3. n' \in Tags
      BY <1>1, <1>4 DEF Tags
    <3>4. QED BY <1>0, <1>1, <1>2, <1>3, <3>1, <3>2, <3>3 DEF TypeOK, n
  <2>3. QED BY <2>1, <2>2 DEF RunPublish, p, n
<1>10. Once'
  <2>1. \A i \in DOMAIN commands' : i + 1 \in DOMAIN commands /\ commands'[i] = commands[i + 1] /\ i + 1 # 1
    BY <1>2
  <2>2. \A i, j \in DOMAIN commands' : commands'[i] = commands'[j] => i = j
    BY <1>0, <1>2, <2>1 DEF Once
  <2>3. \A i \in DOMAIN commands' : commands'[i] # p
    BY <1>0, <1>2, <2>1 DEF Once
  <2>4. \A i \in DOMAIN wire' : wire'[i] = p \/ (i \in DOMAIN wire /\ wire'[i] = wire[i])
    BY <1>3
  <2>5. \A i, j \in DOMAIN wire' : wire'[i] = wire'[j] => i = j
    BY <1>0, <1>3, <1>6 DEF Once
  <2>6. \A i \in DOMAIN commands', j \in DOMAIN wire' : commands'[i] # wire'[j]
    BY <1>0, <2>1, <2>3, <2>4 DEF Once
  <2>7. \A i \in DOMAIN commands' : status[commands'[i]] # "new" /\ routed[commands'[i]] = "unknown"
    BY <1>0, <2>1 DEF Once
  <2>8. \A i \in DOMAIN wire' : status[wire'[i]] # "new" /\ routed[wire'[i]] = "unknown"
    BY <1>0, <1>5, <2>4 DEF Once
  <2>9. QED BY <1>0, <1>1, <2>2, <2>5, <2>6, <2>7, <2>8 DEF Once
<1>11. Counts'
  <2>1. connected' /\ n' = received' + Len(wire') + 1
    BY <1>1, <1>3, <1>4
  <2>2. \A t \in Pending' : t < n'
    BY <1>1, <1>4, <1>7, <1>8
  <2>3. QED BY <1>0, <1>1, <2>1, <2>2 DEF Counts, n
<1>12. TagsAgree'
  <2>1. ASSUME NEW t \in Pending', t # n
        PROVE  \/ t > received /\ t - received <= Len(wire') /\ wire'[t - received] = Of(t)'
               \/ t \in DOMAIN unsettled /\ unsettled[t] = Of(t)'
               \/ OnItsWay(t) /\ verdict[Of(t)'] # "none"
    <3>1. t \in Pending /\ Of(t)' = Of(t) /\ t \in Nat /\ received \in Nat
      BY <1>4, <1>7, <1>8, <2>1
    <3>2. CASE t > received /\ t - received <= Len(wire) /\ wire[t - received] = Of(t)
      BY <1>3, <3>1, <3>2
    <3>3. QED BY <1>0, <3>1, <3>2 DEF TagsAgree, Pending, Of
  <2>2. n \in Pending' => n > received /\ n - received <= Len(wire') /\ wire'[n - received] = pending_publish_confirms'[n].publish
    BY <1>3, <1>4, <1>8
  <2>3. \A t : OnItsWay(t)' <=> OnItsWay(t)
    BY <1>1 DEF OnItsWay
  <2>4. SUFFICES ASSUME NEW t \in Pending'
                 PROVE  \/ t > received /\ t - received <= Len(wire') /\ wire'[t - received] = Of(t)'
                        \/ t \in DOMAIN unsettled /\ unsettled[t] = Of(t)'
                        \/ OnItsWay(t) /\ verdict[Of(t)'] # "none"
    BY <1>1, <2>3 DEF TagsAgree, Pending, Of
  <2>5. QED BY <2>1, <2>2 DEF Of
<1>13. FrameOrder'
  BY <1>0, <1>1 DEF Channel, FrameOrder
<1>14. Verdicts'
  BY <1>0, <1>1, <1>5, <1>8 DEF Channel, Verdicts, Pending, Of
<1>15. PendingOnce'
  BY <1>0, <1>7, <1>8 DEF Channel, PendingOnce, Pending, Of
<1>16. Returns'
  <2>1. \A q : Looks(q)' <=> Looks(q)
    BY <1>1 DEF Looks
  <2>2. ASSUME NEW t \in Pending', t # n PROVE t \in Pending /\ Of(t)' = Of(t) /\ (Back(t)' <=> Back(t))
    BY <1>8, <2>2
  <2>3. QED BY <1>0, <1>1, <1>5, <1>8, <2>1, <2>2 DEF Channel, Returns, Pending, Of, Back
<1>17. ReceiptIsTrue'
  BY <1>1 DEF IInv, ReceiptIsTrue
<1>18. QED BY <1>9, <1>10, <1>11, <1>12, <1>13, <1>14, <1>15, <1>16, <1>17 DEF IInv, Channel

-----------------------------------------------------------------------------
(* A frame is read.                                                        *)

LEMMA FramesTail ==
    ASSUME TypeOK, frames # <<>>, frames' = Tail(frames)
    PROVE  /\ frames' \in Seq(Frames) /\ Len(frames) \in Nat \ {0} /\ DOMAIN frames = 1 .. Len(frames)
           /\ DOMAIN frames' = 1 .. Len(frames) - 1
           /\ \A i \in 1 .. Len(frames) - 1 : frames'[i] = frames[i + 1] /\ i + 1 \in DOMAIN frames
           /\ \A i \in DOMAIN frames \ {1} : i - 1 \in DOMAIN frames' /\ frames'[i - 1] = frames[i]
           /\ \A i \in DOMAIN frames : frames[i] \in Frames
           /\ Head(frames) = frames[1] /\ 1 \in DOMAIN frames
<1>1. frames \in Seq(Frames)
  BY DEF TypeOK, Frames
<1>2. /\ frames' \in Seq(Frames) /\ Len(frames) \in Nat \ {0} /\ DOMAIN frames = 1 .. Len(frames)
      /\ DOMAIN frames' = 1 .. Len(frames) - 1 /\ Head(frames) = frames[1]
      /\ \A i \in 1 .. Len(frames) - 1 : frames'[i] = frames[i + 1]
  BY <1>1, TailFacts
<1>3. \A i \in DOMAIN frames : frames[i] \in Frames
  BY <1>1
<1>4. \A i \in DOMAIN frames \ {1} : i - 1 \in 1 .. Len(frames) - 1 /\ (i - 1) + 1 = i
  BY <1>2
<1>5. \A i \in 1 .. Len(frames) - 1 : i + 1 \in DOMAIN frames
  BY <1>2
<1>6. 1 \in DOMAIN frames
  BY <1>2
<1>7. QED BY <1>2, <1>3, <1>4, <1>5, <1>6

\* What is still on its way stays in front of the same acknowledgements, as long
\* as the frame that was read is not the one looked for.
LEMMA StillOnItsWay ==
    ASSUME TypeOK, frames # <<>>, frames' = Tail(frames), NEW t, NEW i \in DOMAIN frames, i # 1,
           \A j \in 1 .. i - 1 : ~Covers(frames[j], t)
    PROVE  /\ i - 1 \in DOMAIN frames' /\ frames'[i - 1] = frames[i]
           /\ \A j \in 1 .. (i - 1) - 1 : ~Covers(frames'[j], t)
<1>1. i - 1 \in DOMAIN frames' /\ frames'[i - 1] = frames[i]
  BY FramesTail
<1>2. ASSUME NEW j \in 1 .. (i - 1) - 1 PROVE ~Covers(frames'[j], t)
  <2>1. j \in 1 .. Len(frames) - 1 /\ j + 1 \in 1 .. i - 1
    BY <1>1, FramesTail
  <2>2. frames'[j] = frames[j + 1]
    BY <2>1, FramesTail
  <2>3. ~Covers(frames[j + 1], t)
    BY <2>1
  <2>4. QED BY <2>2, <2>3
<1>3. QED BY <1>1, <1>2

LEMMA FrameOrderTail ==
    ASSUME TypeOK, FrameOrder, frames # <<>>, frames' = Tail(frames), UNCHANGED <<received, unsettled, routed>>
    PROVE  FrameOrder'
<1>1. \A i \in DOMAIN frames' : i + 1 \in DOMAIN frames /\ frames'[i] = frames[i + 1]
  BY FramesTail
<1>2. QED BY <1>1 DEF FrameOrder, Covers

\* The verdict a pending publish has is the one it is completed with.
LEMMA CompletedByVerdict ==
    ASSUME IInv, frames # <<>>, NEW t \in Pending, Covers(Head(frames), t)
    PROVE  /\ verdict[Of(t)] = Head(frames).type
           /\ Back(t) => Of(t) \in Mandatory /\ Looks(Of(t))
           /\ Of(t) \in Mandatory /\ Distinct(Of(t)) /\ ~Back(t) => routed[Of(t)] = "routed"
<1>0. TypeOK /\ Once /\ Channel /\ Of(t) \in Publishes
  BY DEF IInv, TypeOK, Pending, Of
<1>1. /\ frames \in Seq(Frames) /\ 1 \in DOMAIN frames /\ Head(frames) = frames[1]
      /\ DOMAIN frames = 1 .. Len(frames) /\ Len(frames) \in Nat
  <2>1. frames \in Seq(Frames)
    BY <1>0 DEF TypeOK, Frames
  <2>2. /\ Len(frames) \in Nat \ {0} /\ DOMAIN frames = 1 .. Len(frames) /\ Head(frames) = frames[1]
    BY <2>1, TailFacts
  <2>3. QED BY <2>1, <2>2
<1>2. verdict[Of(t)] # "none"
  BY <1>0, <1>1, NotCovered
<1>3. PICK i \in DOMAIN frames : /\ frames[i].type = verdict[Of(t)]
                                 /\ \A j \in 1 .. i - 1 : ~Covers(frames[j], t)
  BY <1>0, <1>2 DEF Channel, Verdicts
<1>4. i = 1
  <2>1. ASSUME i # 1 PROVE FALSE
    <3>1. 1 \in 1 .. i - 1
      BY <1>1, <2>1
    <3>2. QED BY <1>1, <1>3, <3>1
  <2>2. QED BY <2>1
<1>5. verdict[Of(t)] = Head(frames).type
  BY <1>1, <1>3, <1>4
<1>6. Back(t) => Of(t) \in Mandatory /\ Looks(Of(t))
  BY <1>0 DEF Channel, Returns
<1>7. ASSUME Of(t) \in Mandatory, Distinct(Of(t)), ~Back(t), routed[Of(t)] = "unroutable" PROVE FALSE
  <2>1. PICK k \in DOMAIN frames : /\ frames[k].type = "return"
                                   /\ \A j \in 1 .. k - 1 : ~Covers(frames[j], t)
    BY <1>0, <1>7 DEF Channel, Returns
  <2>2. k # 1
    BY <1>1, <2>1 DEF Covers
  <2>3. 1 \in 1 .. k - 1
    BY <1>1, <2>2
  <2>4. QED BY <1>1, <2>1, <2>3
<1>8. routed[Of(t)] \in {"routed", "unroutable"}
  BY <1>0, <1>2 DEF Once, TypeOK
<1>9. QED BY <1>5, <1>6, <1>7, <1>8

LEMMA CompleteInv ==
    ASSUME IInv, CompletePublishConfirm
    PROVE  IInv'
<1> DEFINE frame == Head(frames)
           tags  == Completed(frame)
           S     == {pending_publish_confirms[t].publish : t \in tags}
           receipt == [p \in S |-> Receipt(
                           pending_publish_confirms[
                               CHOOSE t \in tags : pending_publish_confirms[t].publish = p], frame)]
<1>0. TypeOK /\ Once /\ Channel
  BY DEF IInv
<1>1. /\ UNCHANGED <<commands, connections, connected, next_publish_confirm_tag, wire,
                     received, unsettled, routed, verdict>>
      /\ frames # <<>> /\ frames' = Tail(frames) /\ frame.type \in {"ack", "nack"}
      /\ Complete(S, receipt)
      /\ pending_publish_confirms' = Without(pending_publish_confirms, tags)
  BY DEF CompletePublishConfirm, broker
<1>2. \A t \in Pending : t \in tags <=> Covers(frame, t)
  BY <1>1 DEF Completed, Covers, Pending
<1>3. tags \subseteq Pending
  BY DEF Completed, Pending
<1>4. ASSUME NEW p \in S
      PROVE  \E t \in Pending : Of(t) = p /\ Covers(frame, t)
                                /\ receipt[p] = IF Back(t) THEN "Returned"
                                                ELSE IF frame.type = "nack" THEN "BrokerRejected"
                                                                            ELSE "BrokerAccepted"
  <2> DEFINE t == CHOOSE u \in tags : pending_publish_confirms[u].publish = p
  <2>1. t \in tags /\ pending_publish_confirms[t].publish = p
    <3>1. \E u \in tags : pending_publish_confirms[u].publish = p
      BY <1>4
    <3> HIDE DEF tags
    <3>2. QED BY <3>1
  <2>2. receipt[p] = Receipt(pending_publish_confirms[t], frame)
    BY <1>4
  <2> HIDE DEF t, tags, receipt, frame
  <2>3. t \in Pending /\ Of(t) = p /\ Covers(frame, t)
    BY <1>2, <1>3, <2>1 DEF Of
  <2>4. QED BY <2>2, <2>3 DEF Receipt, Back
<1>5. \A p \in S : receipt[p] \in Receipts \cup Errors
  <2> HIDE DEF S, receipt
  <2>1. QED BY <1>4 DEF Receipts
<1>6. /\ status' \in [Publishes -> Statuses]
      /\ \A p \in Publishes : status'[p] = "new" <=> status[p] = "new"
      /\ \A p \in Publishes : status'[p] = status[p] \/ (p \in S /\ status'[p] = receipt[p])
  <2> HIDE DEF S, receipt
  <2>1. QED BY <1>0, <1>1, <1>5, CompleteFacts
<1>7. \A t \in Pending' : /\ t \in Pending /\ ~Covers(frame, t)
                          /\ pending_publish_confirms'[t] = pending_publish_confirms[t]
  <2> HIDE DEF tags, frame
  <2>1. QED BY <1>1, <1>2 DEF Without, Pending
<1> HIDE DEF S, receipt, tags
<1>8. \A t \in Pending' : t \in Pending /\ Of(t)' = Of(t) /\ (Back(t)' <=> Back(t))
  <2>1. \A t \in Pending' : Back(t)' <=> Back(t)
    BY <1>7, Zenon DEF Back
  <2>2. QED BY <1>7, <2>1 DEF Of
<1>9. frame = frames[1] /\ \A t \in Pending' : ~Covers(frames[1], t)
  BY <1>0, <1>1, <1>7, FramesTail
<1>10. TypeOK'
  <2>1. DOMAIN pending_publish_confirms' \subseteq Tags
    BY <1>0, <1>8 DEF TypeOK, Pending
  <2>2. \A t \in DOMAIN pending_publish_confirms' :
            pending_publish_confirms'[t] \in [publish : Publishes, returned : BOOLEAN]
    BY <1>0, <1>7 DEF TypeOK, Pending
  <2>3. frames' \in Seq(Frames)
    BY <1>0, <1>1, FramesTail
  <2>4. QED BY <1>0, <1>1, <1>6, <2>1, <2>2, <2>3 DEF TypeOK, Statuses, Frames
<1>11. Once'
  <2>1. (\A i \in DOMAIN commands : commands[i] \in Publishes) /\ (\A i \in DOMAIN wire : wire[i] \in Publishes)
    BY <1>0 DEF TypeOK
  <2>2. QED BY <1>0, <1>1, <1>6, <2>1 DEF Once
<1>12. Counts'
  <2>1. ~connected => frames = <<>>
    BY <1>0 DEF Channel, Counts
  <2>2. connected
    BY <1>1, <2>1
  <2>3. QED BY <1>0, <1>1, <1>8, <2>2 DEF Channel, Counts
<1>13. \A t \in Pending, i \in DOMAIN frames : Covers(frames[i], t) /\ t \in Pending' =>
           i - 1 \in DOMAIN frames' /\ frames'[i - 1] = frames[i]
  BY <1>0, <1>1, <1>9, FramesTail
<1>14. TagsAgree'
  <2> SUFFICES ASSUME NEW t \in Pending'
               PROVE  \/ t > received /\ t - received <= Len(wire) /\ wire[t - received] = Of(t)
                      \/ t \in DOMAIN unsettled /\ unsettled[t] = Of(t)
                      \/ OnItsWay(t)' /\ verdict[Of(t)] # "none"
    BY <1>1, <1>8 DEF TagsAgree, Pending, Of
  <2>1. t \in Pending
    BY <1>8
  <2>2. OnItsWay(t) => OnItsWay(t)'
    BY <1>13, <2>1 DEF OnItsWay, Covers
  <2>3. QED BY <1>0, <2>1, <2>2 DEF Channel, TagsAgree, Pending, Of
<1>15. FrameOrder'
  BY <1>0, <1>1, FrameOrderTail DEF Channel
<1>16. Verdicts'
  <2> SUFFICES ASSUME NEW t \in Pending', verdict[Of(t)] # "none"
               PROVE  \E i \in DOMAIN frames' : /\ Covers(frames'[i], t)
                                                /\ frames'[i].type = verdict[Of(t)]
                                                /\ \A j \in 1 .. i - 1 : ~Covers(frames'[j], t)
    BY <1>1, <1>8 DEF Verdicts, Pending, Of, Covers
  <2>1. PICK i \in DOMAIN frames : /\ Covers(frames[i], t)
                                   /\ frames[i].type = verdict[Of(t)]
                                   /\ \A j \in 1 .. i - 1 : ~Covers(frames[j], t)
    BY <1>0, <1>8 DEF Channel, Verdicts
  <2>2. i # 1
    BY <1>9, <2>1
  <2>3. QED BY <1>0, <1>1, <2>1, <2>2, StillOnItsWay
<1>17. PendingOnce'
  BY <1>0, <1>8 DEF Channel, PendingOnce, Pending, Of
<1>18. Returns'
  <2>1. \A q : Looks(q)' <=> Looks(q)
    BY <1>1 DEF Looks
  <2>2. ASSUME NEW t \in Pending', Of(t) \in Mandatory, Distinct(Of(t)), routed[Of(t)] = "unroutable", ~Back(t)
        PROVE  \E i \in DOMAIN frames' : /\ frames'[i].type = "return" /\ frames'[i].publish = Of(t)
                                         /\ \A j \in 1 .. i - 1 : ~Covers(frames'[j], t)
    <3>1. PICK i \in DOMAIN frames : /\ frames[i].type = "return" /\ frames[i].publish = Of(t)
                                     /\ \A j \in 1 .. i - 1 : ~Covers(frames[j], t)
      BY <1>0, <1>8, <2>2 DEF Channel, Returns
    <3>2. i # 1
      BY <1>1, <1>9, <3>1
    <3>3. QED BY <1>0, <1>1, <3>1, <3>2, StillOnItsWay
  <2>3. ASSUME NEW t \in Pending', Back(t) PROVE Of(t) \in Mandatory /\ Looks(Of(t))
    BY <1>0, <1>8, <2>3 DEF Channel, Returns
  <2>4. QED BY <1>1, <1>8, <2>1, <2>2, <2>3 DEF Returns, Pending, Of, Back, Covers
<1>19. ReceiptIsTrue'
  <2> SUFFICES ASSUME NEW p \in Publishes, status'[p] # status[p]
               PROVE  /\ status'[p] = "BrokerAccepted" => verdict[p] = "ack"
                      /\ status'[p] = "BrokerRejected" => verdict[p] = "nack"
                      /\ status'[p] = "Returned" => p \in Mandatory /\ verdict[p] # "none" /\ Looks(p)
                      /\ status'[p] = "BrokerAccepted" /\ p \in Mandatory /\ Distinct(p) => routed[p] = "routed"
    BY <1>1 DEF IInv, ReceiptIsTrue, Looks
  <2>1. p \in S /\ status'[p] = receipt[p]
    BY <1>6
  <2>2. PICK t \in Pending : Of(t) = p /\ Covers(frame, t)
                             /\ receipt[p] = IF Back(t) THEN "Returned"
                                             ELSE IF frame.type = "nack" THEN "BrokerRejected"
                                                                         ELSE "BrokerAccepted"
    BY <1>4, <2>1
  <2>3. /\ verdict[p] = frame.type
        /\ Back(t) => p \in Mandatory /\ Looks(p)
        /\ p \in Mandatory /\ Distinct(p) /\ ~Back(t) => routed[p] = "routed"
    BY <1>1, <2>2, CompletedByVerdict
  <2>4. CASE Back(t)
    BY <1>1, <2>1, <2>2, <2>3, <2>4
  <2>5. CASE ~Back(t)
    BY <1>1, <2>1, <2>2, <2>3, <2>5
  <2>6. QED BY <2>4, <2>5
<1>20. QED BY <1>10, <1>11, <1>12, <1>14, <1>15, <1>16, <1>17, <1>18, <1>19 DEF IInv, Channel

LEMMA ReturnedInv ==
    ASSUME IInv, HandleReturnedMessage
    PROVE  IInv'
<1>0. TypeOK /\ Once /\ Channel
  BY DEF IInv
<1>1. /\ UNCHANGED <<status, commands, connections, connected, next_publish_confirm_tag, wire,
                     received, unsettled, routed, verdict>>
      /\ frames # <<>> /\ frames' = Tail(frames) /\ Head(frames).type = "return"
  BY DEF HandleReturnedMessage, broker
<1>2. Head(frames) = frames[1] /\ 1 \in DOMAIN frames /\ \A t : ~Covers(frames[1], t)
  BY <1>0, <1>1, FramesTail DEF Covers
<1> DEFINE q == Head(frames).publish
<1>3. q \in Mandatory /\ routed[q] = "unroutable"
  BY <1>0, <1>1, <1>2 DEF Channel, FrameOrder
<1>4a. PICK T \in SUBSET Matches(q) :
           /\ (\A t, u \in Matches(q) : t = u) => T = Matches(q)
           /\ Pending' = Pending
           /\ \A t \in Pending : /\ Of(t)' = Of(t)
                                 /\ Back(t)' = IF t \in T THEN TRUE ELSE Back(t)
  <2>1. CASE Matches(q) = {} /\ UNCHANGED pending_publish_confirms
    <3>1. \A t \in Pending : pending_publish_confirms'[t] = pending_publish_confirms[t]
      BY <2>1
    <3>2. \A t \in Pending : Back(t)' = Back(t)
      BY <3>1, Zenon DEF Back
    <3>3. Pending' = Pending /\ \A t \in Pending : Of(t)' = Of(t)
      BY <2>1, <3>1 DEF Pending, Of
    <3>4. {} \in SUBSET Matches(q) /\ Matches(q) = {} /\ \A t : t \notin {}
      BY <2>1
    <3>5. QED BY <3>2, <3>3, <3>4, Zenon
  <2>2. ASSUME NEW t \in Matches(q),
               pending_publish_confirms' = [pending_publish_confirms EXCEPT ![t].returned = TRUE]
        PROVE  \E T \in SUBSET Matches(q) :
                   /\ (\A v, u \in Matches(q) : v = u) => T = Matches(q)
                   /\ Pending' = Pending
                   /\ \A u \in Pending : /\ Of(u)' = Of(u)
                                         /\ Back(u)' = IF u \in T THEN TRUE ELSE Back(u)
    <3>1. t \in Pending /\ \A u \in Pending : pending_publish_confirms[u] \in Entries
      BY <1>0, <2>2 DEF Matches, Pending, TypeOK, Entries
    <3>2. Pending' = Pending
      BY <2>2 DEF Pending
    <3>3. \A u \in Pending \ {t} : pending_publish_confirms'[u] = pending_publish_confirms[u]
      BY <2>2 DEF Pending
    <3>4. pending_publish_confirms'[t] = [pending_publish_confirms[t] EXCEPT !.returned = TRUE]
      BY <2>2, <3>1 DEF Pending
    <3>5. pending_publish_confirms'[t].publish = pending_publish_confirms[t].publish
      BY <3>1, <3>4 DEF Entries
    <3>6. \A u \in Pending : Of(u)' = Of(u)
      BY <3>3, <3>5 DEF Of
    <3>7. \A u \in Pending : u \notin {t} => Back(u)' = Back(u)
      BY <3>3, Zenon DEF Back
    <3>8. Back(t)' = TRUE
      BY <3>1, <3>4 DEF Back, Entries
    <3>9. \A u \in Pending : Back(u)' = IF u \in {t} THEN TRUE ELSE Back(u)
      BY <3>7, <3>8, Zenon
    <3>10. {t} \in SUBSET Matches(q) /\ ((\A v, u \in Matches(q) : v = u) => {t} = Matches(q))
      BY <2>2
    <3>11. QED BY <3>2, <3>6, <3>9, <3>10, Zenon
  <2>3. QED BY <2>1, <2>2, Zenon DEF HandleReturnedMessage
<1>4. Pending' = Pending /\ \A t \in Pending : Of(t)' = Of(t)
  BY <1>4a, Zenon
<1>4b. \A t \in Pending : Back(t)' => Back(t) \/ t \in Matches(q)
  BY <1>4a, Zenon
<1>4c. \A t \in Pending : ~Back(t)' => ~Back(t) /\ t \notin T
  BY <1>4a, Zenon
<1>5. TypeOK'
  <2>1. \A t \in DOMAIN pending_publish_confirms' :
            pending_publish_confirms'[t] \in [publish : Publishes, returned : BOOLEAN]
    <3>1. CASE UNCHANGED pending_publish_confirms
      BY <1>0, <3>1 DEF TypeOK
    <3>2. ASSUME NEW t \in Matches(q),
                 pending_publish_confirms' = [pending_publish_confirms EXCEPT ![t].returned = TRUE]
          PROVE  \A u \in DOMAIN pending_publish_confirms' :
                     pending_publish_confirms'[u] \in [publish : Publishes, returned : BOOLEAN]
      BY <1>0, <3>2 DEF TypeOK, Matches
    <3>3. QED BY <3>1, <3>2 DEF HandleReturnedMessage
  <2>2. frames' \in Seq(Frames)
    BY <1>0, <1>1, FramesTail
  <2>3. DOMAIN pending_publish_confirms' \subseteq Tags
    BY <1>0, <1>4 DEF TypeOK, Pending
  <2>4. QED BY <1>0, <1>1, <2>1, <2>2, <2>3 DEF TypeOK, Frames
<1>6. Once'
  BY <1>0, <1>1 DEF Once
<1>7. Counts'
  <2>1. connected
    BY <1>0, <1>1 DEF Channel, Counts
  <2>2. QED BY <1>0, <1>1, <1>4, <2>1 DEF Channel, Counts
<1>8. TagsAgree'
  <2> SUFFICES ASSUME NEW t \in Pending
               PROVE  \/ t > received /\ t - received <= Len(wire) /\ wire[t - received] = Of(t)
                      \/ t \in DOMAIN unsettled /\ unsettled[t] = Of(t)
                      \/ OnItsWay(t)' /\ verdict[Of(t)] # "none"
    BY <1>1, <1>4 DEF TagsAgree, Pending, Of
  <2>1. \A i \in DOMAIN frames : Covers(frames[i], t) => i - 1 \in DOMAIN frames' /\ frames'[i - 1] = frames[i]
    BY <1>0, <1>1, <1>2, FramesTail
  <2>2. OnItsWay(t) => OnItsWay(t)'
    BY <2>1 DEF OnItsWay, Covers
  <2>3. QED BY <1>0, <2>2 DEF Channel, TagsAgree, Pending, Of
<1>9. FrameOrder'
  BY <1>0, <1>1, FrameOrderTail DEF Channel
<1>10. Verdicts'
  <2> SUFFICES ASSUME NEW t \in Pending, verdict[Of(t)] # "none"
               PROVE  \E i \in DOMAIN frames' : /\ Covers(frames'[i], t)
                                                /\ frames'[i].type = verdict[Of(t)]
                                                /\ \A j \in 1 .. i - 1 : ~Covers(frames'[j], t)
    BY <1>1, <1>4 DEF Verdicts
  <2>1. PICK i \in DOMAIN frames : /\ Covers(frames[i], t)
                                   /\ frames[i].type = verdict[Of(t)]
                                   /\ \A j \in 1 .. i - 1 : ~Covers(frames[j], t)
    BY <1>0 DEF Channel, Verdicts
  <2>2. i # 1
    BY <1>2, <2>1
  <2>3. QED BY <1>0, <1>1, <2>1, <2>2, StillOnItsWay
<1>11. PendingOnce'
  BY <1>0, <1>4 DEF Channel, PendingOnce, Pending, Of
<1>12. Returns'
  <2>1. \A p : Looks(p)' <=> Looks(p)
    BY <1>1 DEF Looks
  <2>2. ASSUME NEW t \in Pending, Of(t) \in Mandatory, Distinct(Of(t)), routed[Of(t)] = "unroutable", ~Back(t)'
        PROVE  \E i \in DOMAIN frames' : /\ frames'[i].type = "return" /\ frames'[i].publish = Of(t)
                                         /\ \A j \in 1 .. i - 1 : ~Covers(frames'[j], t)
    <3>1. ~Back(t)
      BY <1>4c, <2>2
    <3>2. PICK i \in DOMAIN frames : /\ frames[i].type = "return" /\ frames[i].publish = Of(t)
                                     /\ \A j \in 1 .. i - 1 : ~Covers(frames[j], t)
      BY <1>0, <2>2, <3>1 DEF Channel, Returns
    <3>3. ASSUME i = 1 PROVE FALSE
      <4>1. q = Of(t)
        BY <1>2, <3>2, <3>3
      <4>2. \A u \in Matches(q) : u \in Pending /\ Of(u) \in Publishes /\ <<Of(u), q>> \in Alike
        BY <1>0 DEF Matches, Pending, Of, TypeOK
      <4>3. \A u \in Matches(q) : Of(u) = q
        BY <2>2, <4>1, <4>2 DEF Distinct
      <4>4. \A u \in Matches(q) : u = t
        BY <1>0, <4>1, <4>2, <4>3 DEF Channel, PendingOnce
      <4>5. t \in Matches(q)
        <5>1. <<Of(t), q>> \in Alike
          BY <1>3, <4>1 DEF PublisherConfirmsAssumption
        <5>2. QED BY <2>2, <3>1, <5>1 DEF Matches, Pending, Of, Back
      <4>6. T = Matches(q)
        BY <1>4a, <4>4, Zenon
      <4>7. QED BY <1>4c, <2>2, <4>5, <4>6
    <3>4. QED BY <1>0, <1>1, <3>2, <3>3, StillOnItsWay
  <2>3. ASSUME NEW t \in Pending, Back(t)' PROVE Of(t) \in Mandatory /\ Looks(Of(t))
    <3>1. CASE Back(t)
      BY <1>0, <3>1 DEF Channel, Returns
    <3>2. CASE t \in Matches(q)
      BY <1>3, <3>2 DEF Matches, Looks, Of
    <3>3. QED BY <1>4b, <2>3, <3>1, <3>2
  <2>4. QED BY <1>1, <1>4, <2>1, <2>2, <2>3 DEF Returns, Covers
<1>13. ReceiptIsTrue'
  <2>1. status' = status /\ verdict' = verdict /\ routed' = routed
    BY <1>1
  <2>2. QED BY <2>1, ReceiptSame DEF IInv
<1>14. QED BY <1>5, <1>6, <1>7, <1>8, <1>9, <1>10, <1>11, <1>12, <1>13 DEF IInv, Channel

-----------------------------------------------------------------------------
(* The broker.                                                             *)

\* Frames that are added at the end disturb none of those before them.
FramesGrow ==
    /\ frames' \in Seq(Frames) /\ DOMAIN frames \subseteq DOMAIN frames'
    /\ \A i \in DOMAIN frames : frames'[i] = frames[i] /\ \A j \in 1 .. i - 1 : j \in DOMAIN frames

LEMMA FramesAppend ==
    ASSUME TypeOK, NEW f \in Frames, frames' = Append(frames, f)
    PROVE  /\ FramesGrow /\ Len(frames) \in Nat /\ DOMAIN frames = 1 .. Len(frames)
           /\ DOMAIN frames' = 1 .. Len(frames) + 1 /\ frames'[Len(frames) + 1] = f
<1>1. frames \in Seq(Frames)
  BY DEF TypeOK, Frames
<1>2. QED BY <1>1, AppendFacts DEF FramesGrow

LEMMA FramesStay ==
    ASSUME TypeOK, UNCHANGED frames
    PROVE  FramesGrow
<1>1. frames \in Seq(Frames)
  BY DEF TypeOK, Frames
<1>2. QED BY <1>1 DEF FramesGrow

\* A frame found before every acknowledgement of t is still found there.
LEMMA StillFirst ==
    ASSUME FramesGrow, NEW t, NEW i \in DOMAIN frames, \A j \in 1 .. i - 1 : ~Covers(frames[j], t)
    PROVE  /\ i \in DOMAIN frames' /\ frames'[i] = frames[i]
           /\ \A j \in 1 .. i - 1 : ~Covers(frames'[j], t)
BY DEF FramesGrow

LEMMA ReceiveInv ==
    ASSUME IInv, BrokerReceive
    PROVE  IInv'
<1> DEFINE p == Head(wire)
           back == [type |-> "return", publish |-> Head(wire)]
<1>0. TypeOK /\ Once /\ Channel /\ Counts /\ TagsAgree
  BY DEF IInv, Channel
<1>1. /\ UNCHANGED <<status, commands, connections, connected, next_publish_confirm_tag,
                     pending_publish_confirms, verdict>>
      /\ wire # <<>> /\ wire' = Tail(wire)
      /\ received' = received + 1
      /\ unsettled' = With(unsettled, received + 1, p)
  BY DEF BrokerReceive, driver
<1>2. /\ wire' \in Seq(Publishes) /\ Len(wire) \in Nat \ {0} /\ DOMAIN wire = 1 .. Len(wire)
      /\ DOMAIN wire' = 1 .. Len(wire) - 1 /\ Len(wire') = Len(wire) - 1
      /\ \A i \in 1 .. Len(wire) - 1 : wire'[i] = wire[i + 1] /\ i + 1 \in DOMAIN wire
      /\ p = wire[1] /\ p \in Publishes /\ 1 \in DOMAIN wire
  <2>1. wire \in Seq(Publishes)
    BY <1>0 DEF TypeOK
  <2>2. /\ wire' \in Seq(Publishes) /\ Len(wire) \in Nat \ {0} /\ DOMAIN wire = 1 .. Len(wire)
        /\ DOMAIN wire' = 1 .. Len(wire) - 1 /\ Len(wire') = Len(wire) - 1
        /\ \A i \in 1 .. Len(wire) - 1 : wire'[i] = wire[i + 1]
        /\ p = wire[1] /\ p \in Publishes
    BY <1>1, <2>1, TailFacts
  <2>3. QED BY <2>2
<1>3. received \in Nat /\ (\A t \in DOMAIN unsettled : t \in Nat \ {0} /\ t <= received /\ unsettled[t] \in Publishes)
  BY <1>0 DEF TypeOK, Counts, Tags
<1>4. /\ status[p] # "new" /\ routed[p] = "unknown" /\ verdict[p] = "none"
      /\ \A t \in DOMAIN unsettled : unsettled[t] # p
      /\ \A i \in DOMAIN commands : commands[i] # p
  BY <1>0, <1>2 DEF Once
<1>5. /\ DOMAIN unsettled' = DOMAIN unsettled \cup {received + 1}
      /\ unsettled'[received + 1] = p
      /\ \A t \in DOMAIN unsettled : t # received + 1 /\ unsettled'[t] = unsettled[t]
  BY <1>1, <1>3 DEF With
<1>6. /\ routed' \in [Publishes -> {"unknown", "routed", "unroutable"}]
      /\ routed'[p] # "unknown"
      /\ \A q \in Publishes \ {p} : routed'[q] = routed[q]
      /\ \/ routed'[p] = "routed" /\ UNCHANGED frames
         \/ routed'[p] = "unroutable" /\ p \in Mandatory /\ frames' = Append(frames, back)
         \/ routed'[p] = "unroutable" /\ p \notin Mandatory /\ UNCHANGED frames
  BY <1>0, <1>2 DEF BrokerReceive, TypeOK
<1>7. back \in Frames
  BY <1>2 DEF Frames
<1>8. /\ FramesGrow
      /\ \A i \in DOMAIN frames' \ DOMAIN frames :
             frames'[i].type = "return" /\ frames'[i].publish = p /\ p \in Mandatory /\ routed'[p] = "unroutable"
  <2>1. CASE UNCHANGED frames
    BY <1>0, <2>1, FramesStay
  <2>2. CASE routed'[p] = "unroutable" /\ p \in Mandatory /\ frames' = Append(frames, back)
    <3> HIDE DEF p
    <3>1. DOMAIN frames' \ DOMAIN frames = {Len(frames) + 1} /\ frames'[Len(frames) + 1] = back /\ FramesGrow
      BY <1>0, <1>7, <2>2, FramesAppend
    <3>2. back.type = "return" /\ back.publish = p
      BY DEF p
    <3>3. QED BY <2>2, <3>1, <3>2
  <2>3. QED BY <1>6, <2>1, <2>2
<1> HIDE DEF p, back
<1>9. \A t \in Pending : t \in Nat \ {0} /\ Of(t) \in Publishes
  BY <1>0 DEF TypeOK, Pending, Of, Tags
<1>10. TypeOK'
  <2>1. frames' \in Seq(Frames)
    BY <1>8 DEF FramesGrow
  <2>2. received' \in Nat
    BY <1>1, <1>3
  <2>3. DOMAIN unsettled' \subseteq Tags /\ \A t \in DOMAIN unsettled' : unsettled'[t] \in Publishes
    BY <1>2, <1>3, <1>5 DEF Tags
  <2>4. QED BY <1>0, <1>1, <1>2, <1>6, <2>1, <2>2, <2>3 DEF TypeOK, Frames
<1>11. Once'
  <2>1. \A i \in DOMAIN wire' : i + 1 \in DOMAIN wire /\ wire'[i] = wire[i + 1] /\ i + 1 # 1 /\ wire'[i] \in Publishes
    BY <1>2
  <2>2. \A i \in DOMAIN wire' : wire'[i] # p
    BY <1>0, <1>2, <2>1 DEF Once
  <2>3. \A i \in DOMAIN wire' : status[wire'[i]] # "new" /\ routed'[wire'[i]] = "unknown"
    BY <1>0, <1>6, <2>1, <2>2 DEF Once
  <2>4. \A i, j \in DOMAIN wire' : wire'[i] = wire'[j] => i = j
    BY <1>0, <1>2, <2>1 DEF Once
  <2>5. \A i \in DOMAIN commands, j \in DOMAIN wire' : commands[i] # wire'[j]
    BY <1>0, <2>1 DEF Once
  <2>6. \A i \in DOMAIN commands : commands[i] \in Publishes
    BY <1>0 DEF TypeOK
  <2>7. \A i \in DOMAIN commands : status[commands[i]] # "new" /\ routed'[commands[i]] = "unknown"
    BY <1>0, <1>4, <1>6, <2>6 DEF Once
  <2>8. \A t, u \in DOMAIN unsettled' : unsettled'[t] = unsettled'[u] => t = u
    BY <1>0, <1>4, <1>5 DEF Once
  <2>9. \A t \in DOMAIN unsettled' : routed'[unsettled'[t]] # "unknown" /\ verdict[unsettled'[t]] = "none"
    <3>1. \A t \in DOMAIN unsettled : routed'[unsettled[t]] # "unknown" /\ verdict[unsettled[t]] = "none"
      BY <1>0, <1>3, <1>4, <1>6 DEF Once
    <3>2. QED BY <1>4, <1>5, <1>6, <3>1
  <2>10. \A q \in Publishes : /\ verdict[q] # "none" => routed'[q] # "unknown"
                              /\ routed'[q] # "unknown" => status[q] # "new"
    BY <1>0, <1>4, <1>6 DEF Once
  <2>11. QED BY <1>0, <1>1, <2>3, <2>4, <2>5, <2>7, <2>8, <2>9, <2>10 DEF Once
<1>12. Counts'
  <2>1. connected
    BY <1>0, <1>1 DEF Counts
  <2>2. next_publish_confirm_tag' = received' + Len(wire') + 1
    BY <1>0, <1>1, <1>2, <1>3, <2>1 DEF Counts
  <2>3. \A t \in DOMAIN unsettled' : t <= received'
    BY <1>1, <1>3, <1>5
  <2>4. QED BY <1>0, <1>1, <2>1, <2>2, <2>3 DEF Counts, Pending
<1>13. TagsAgree'
  <2> SUFFICES ASSUME NEW t \in Pending
               PROVE  \/ t > received' /\ t - received' <= Len(wire') /\ wire'[t - received'] = Of(t)
                      \/ t \in DOMAIN unsettled' /\ unsettled'[t] = Of(t)
                      \/ OnItsWay(t)' /\ verdict[Of(t)] # "none"
    BY <1>1 DEF TagsAgree, Pending, Of
  <2>1. CASE t > received /\ t - received <= Len(wire) /\ wire[t - received] = Of(t)
    <3>1. CASE t = received + 1
      BY <1>2, <1>3, <1>5, <2>1, <3>1
    <3>2. CASE t # received + 1
      <4>1. t > received' /\ t - received' \in 1 .. Len(wire) - 1 /\ (t - received') + 1 = t - received
        BY <1>1, <1>2, <1>3, <1>9, <2>1, <3>2
      <4>2. wire'[t - received'] = Of(t)
        BY <1>2, <2>1, <4>1
      <4>3. QED BY <1>2, <4>1, <4>2
    <3>3. QED BY <3>1, <3>2
  <2>2. CASE t \in DOMAIN unsettled /\ unsettled[t] = Of(t)
    BY <1>5, <2>2
  <2>3. CASE OnItsWay(t) /\ verdict[Of(t)] # "none"
    BY <1>8, <2>3 DEF OnItsWay, FramesGrow
  <2>4. QED BY <1>0, <2>1, <2>2, <2>3 DEF TagsAgree, Pending, Of
<1>14. FrameOrder'
  <2>1. ASSUME NEW i \in DOMAIN frames
        PROVE  /\ frames[i].type \in {"ack", "nack"} =>
                      /\ frames[i].tag <= received'
                      /\ \A u \in DOMAIN unsettled' : ~Covers(frames[i], u)
               /\ frames[i].type = "return" =>
                      frames[i].publish \in Mandatory /\ routed'[frames[i].publish] = "unroutable"
    <3>1. ASSUME frames[i].type \in {"ack", "nack"}
          PROVE  frames[i].tag <= received' /\ \A u \in DOMAIN unsettled' : ~Covers(frames[i], u)
      <4>1. frames[i].tag \in Nat /\ frames[i].tag <= received
        <5>1. frames[i] \in Frames
          BY <1>0 DEF TypeOK, Frames
        <5>2. QED BY <1>0, <3>1, <5>1 DEF Channel, FrameOrder, Frames, Tags
      <4>2. frames[i].tag <= received' /\ frames[i].tag # received + 1 /\ ~(received + 1 < frames[i].tag)
        BY <1>1, <1>3, <4>1
      <4>3. ~Covers(frames[i], received + 1)
        BY <4>2 DEF Covers
      <4>4. \A u \in DOMAIN unsettled : ~Covers(frames[i], u)
        BY <1>0, <3>1 DEF Channel, FrameOrder
      <4>5. QED BY <1>5, <4>2, <4>3, <4>4
    <3>2. ASSUME frames[i].type = "return"
          PROVE  frames[i].publish \in Mandatory /\ routed'[frames[i].publish] = "unroutable"
      <4>1. frames[i].publish \in Mandatory /\ routed[frames[i].publish] = "unroutable"
        BY <1>0, <3>2 DEF Channel, FrameOrder
      <4>2. QED BY <1>4, <1>6, <4>1
    <3>3. QED BY <3>1, <3>2
  <2>2. \A i \in DOMAIN frames' : i \notin DOMAIN frames => ~(frames'[i].type \in {"ack", "nack"})
    BY <1>8
  <2>3. \A i \in DOMAIN frames : frames'[i] = frames[i]
    BY <1>8 DEF FramesGrow
  <2>4. QED BY <1>8, <2>1, <2>2, <2>3 DEF FrameOrder, Covers
<1>15. Verdicts'
  <2> SUFFICES ASSUME NEW t \in Pending, verdict[Of(t)] # "none"
               PROVE  \E i \in DOMAIN frames' : /\ Covers(frames'[i], t)
                                                /\ frames'[i].type = verdict[Of(t)]
                                                /\ \A j \in 1 .. i - 1 : ~Covers(frames'[j], t)
    BY <1>1 DEF Verdicts, Pending, Of, Covers
  <2>1. PICK i \in DOMAIN frames : /\ Covers(frames[i], t)
                                   /\ frames[i].type = verdict[Of(t)]
                                   /\ \A j \in 1 .. i - 1 : ~Covers(frames[j], t)
    BY <1>0 DEF Channel, Verdicts
  <2>2. QED BY <1>8, <2>1, StillFirst
<1>16. PendingOnce'
  BY <1>0, <1>1 DEF Channel, PendingOnce, Pending, Of
<1>17. \A q : Looks(q) => Looks(q)'
  BY <1>4, <1>6 DEF Looks
<1>18. Returns'
  <2>1. ASSUME NEW t \in Pending, Of(t) \in Mandatory, Distinct(Of(t)), routed'[Of(t)] = "unroutable", ~Back(t)
        PROVE  \E i \in DOMAIN frames' : /\ frames'[i].type = "return" /\ frames'[i].publish = Of(t)
                                         /\ \A j \in 1 .. i - 1 : ~Covers(frames'[j], t)
    <3>1. CASE Of(t) = p
      <4>1. p \in Mandatory /\ frames' = Append(frames, back)
        BY <1>6, <2>1, <3>1
      <4>2. /\ FramesGrow /\ Len(frames) \in Nat /\ DOMAIN frames = 1 .. Len(frames)
            /\ DOMAIN frames' = 1 .. Len(frames) + 1 /\ frames'[Len(frames) + 1] = back
        BY <1>0, <1>7, <4>1, FramesAppend
      <4>3. back.type = "return" /\ back.publish = Of(t)
        BY <3>1 DEF back, p
      <4>4. \A j \in 1 .. (Len(frames) + 1) - 1 : j \in DOMAIN frames /\ frames'[j] = frames[j]
        BY <4>2 DEF FramesGrow
      <4>5. \A j \in 1 .. (Len(frames) + 1) - 1 : ~Covers(frames'[j], t)
        BY <1>0, <1>4, <3>1, <4>4, NotCovered
      <4>6. Len(frames) + 1 \in DOMAIN frames'
        BY <4>2
      <4>7. QED BY <4>2, <4>3, <4>5, <4>6
    <3>2. CASE Of(t) # p
      <4>1. routed[Of(t)] = "unroutable"
        BY <1>6, <1>9, <2>1, <3>2
      <4>2. PICK i \in DOMAIN frames : /\ frames[i].type = "return" /\ frames[i].publish = Of(t)
                                       /\ \A j \in 1 .. i - 1 : ~Covers(frames[j], t)
        BY <1>0, <2>1, <4>1 DEF Channel, Returns
      <4>3. QED BY <1>8, <4>2, StillFirst
    <3>3. QED BY <3>1, <3>2
  <2>2. ASSUME NEW t \in Pending, Back(t) PROVE Of(t) \in Mandatory /\ Looks(Of(t))'
    <3>1. Of(t) \in Mandatory /\ Looks(Of(t))
      BY <1>0, <2>2 DEF Channel, Returns
    <3>2. \E r \in Mandatory : <<Of(t), r>> \in Alike /\ routed'[r] = "unroutable"
      BY <1>4, <1>6, <3>1 DEF Looks
    <3>3. Of(t)' = Of(t)
      BY <1>1 DEF Of
    <3>4. QED BY <3>1, <3>2, <3>3 DEF Looks
  <2>3. Pending' = Pending /\ \A t \in Pending : Of(t)' = Of(t)
    BY <1>1 DEF Pending, Of
  <2>4. \A t \in Pending : Back(t)' <=> Back(t)
    BY <1>1, Zenon DEF Back
  <2>5. QED BY <2>1, <2>2, <2>3, <2>4 DEF Returns, Covers
<1>19. ReceiptIsTrue'
  <2>1. \A q \in Publishes : routed[q] # "unknown" => routed'[q] = routed[q]
    BY <1>4, <1>6
  <2>2. \A q \in Mandatory : q \in Publishes
    BY DEF PublisherConfirmsAssumption
  <2>3. \A q \in Publishes : (\E r \in Mandatory : <<q, r>> \in Alike /\ routed[r] = "unroutable") =>
                                 \E r \in Mandatory : <<q, r>> \in Alike /\ routed'[r] = "unroutable"
    BY <2>1, <2>2
  <2>4. \A q \in Publishes : status[q] = "BrokerAccepted" /\ q \in Mandatory /\ Distinct(q) => routed'[q] = "routed"
    BY <2>1 DEF IInv, ReceiptIsTrue
  <2>5. QED BY <1>1, <2>3, <2>4 DEF IInv, ReceiptIsTrue
<1>20. QED BY <1>10, <1>11, <1>12, <1>13, <1>14, <1>15, <1>16, <1>18, <1>19 DEF IInv, Channel

LEMMA SettleInv ==
    ASSUME IInv, NEW t \in DOMAIN unsettled, NEW type \in {"ack", "nack"}, NEW multiple \in BOOLEAN,
           BrokerSettle(t, type, multiple)
    PROVE  IInv'
<1> DEFINE tags == {u \in DOMAIN unsettled : u = t \/ (multiple /\ u < t)}
           f == [type |-> type, tag |-> t, multiple |-> multiple]
<1>0. TypeOK /\ Once /\ Channel /\ Counts /\ TagsAgree
  BY DEF IInv, Channel
<1>1. /\ UNCHANGED <<status, commands, connections, connected, next_publish_confirm_tag,
                     pending_publish_confirms, wire, received, routed>>
      /\ verdict' = [p \in Publishes |-> IF \E u \in tags : unsettled[u] = p THEN type ELSE verdict[p]]
      /\ unsettled' = Without(unsettled, tags)
      /\ frames' = Append(frames, f)
  BY DEF BrokerSettle, driver
<1>2. \A u \in DOMAIN unsettled : u \in Tags /\ u <= received /\ unsettled[u] \in Publishes
  BY <1>0 DEF TypeOK, Counts
<1>3. f \in Frames
  BY <1>2 DEF Frames
<1>4. \A u : Covers(f, u) <=> u = t \/ (multiple /\ u < t)
  BY DEF Covers
<1>5. \A u \in DOMAIN unsettled : u \in tags <=> Covers(f, u)
  BY <1>4
<1>6. f.type = type /\ f.tag = t
  OBVIOUS
<1> HIDE DEF f
<1>7. /\ FramesGrow /\ Len(frames) \in Nat /\ DOMAIN frames = 1 .. Len(frames)
      /\ DOMAIN frames' = 1 .. Len(frames) + 1 /\ frames'[Len(frames) + 1] = f
  BY <1>0, <1>1, <1>3, FramesAppend
<1>8. /\ DOMAIN unsettled' = DOMAIN unsettled \ tags
      /\ \A u \in DOMAIN unsettled' : u \in DOMAIN unsettled /\ unsettled'[u] = unsettled[u]
  BY <1>1 DEF Without
<1>9. /\ verdict' \in [Publishes -> {"none", "ack", "nack"}]
      /\ \A u \in tags : verdict'[unsettled[u]] = type /\ verdict[unsettled[u]] = "none"
      /\ \A p \in Publishes : \/ verdict'[p] = verdict[p]
                              \/ \E u \in tags : unsettled[u] = p /\ verdict[p] = "none"
      /\ \A p \in Publishes : verdict[p] # "none" => verdict'[p] = verdict[p]
      /\ \A u \in DOMAIN unsettled' : verdict'[unsettled[u]] = "none"
  <2>1. verdict' \in [Publishes -> {"none", "ack", "nack"}]
    BY <1>0, <1>1 DEF TypeOK
  <2>2. \A u \in DOMAIN unsettled : verdict[unsettled[u]] = "none"
    BY <1>0 DEF Once
  <2>3. \A u \in tags : verdict'[unsettled[u]] = type
    BY <1>1, <1>2
  <2>4. \A p \in Publishes : (\E u \in tags : unsettled[u] = p) \/ verdict'[p] = verdict[p]
    BY <1>1
  <2>5. \A u \in DOMAIN unsettled' : ~\E w \in tags : unsettled[w] = unsettled[u]
    BY <1>0, <1>8 DEF Once
  <2>6. \A u \in DOMAIN unsettled' : verdict'[unsettled[u]] = "none"
    BY <1>2, <1>8, <2>2, <2>4, <2>5
  <2> HIDE DEF tags
  <2>7. tags \subseteq DOMAIN unsettled
    BY DEF tags
  <2>8. QED BY <2>1, <2>2, <2>3, <2>4, <2>6, <2>7
<1>10. tags \subseteq DOMAIN unsettled
  OBVIOUS
<1> HIDE DEF tags
<1>11. TypeOK'
  <2>1. frames' \in Seq(Frames)
    BY <1>7 DEF FramesGrow
  <2>2. DOMAIN unsettled' \subseteq Tags /\ \A u \in DOMAIN unsettled' : unsettled'[u] \in Publishes
    BY <1>2, <1>8
  <2>3. QED BY <1>0, <1>1, <1>9, <2>1, <2>2 DEF TypeOK, Frames
<1>12. Once'
  <2>1. \A u, w \in DOMAIN unsettled' : unsettled'[u] = unsettled'[w] => u = w
    BY <1>0, <1>8 DEF Once
  <2>2. \A u \in DOMAIN unsettled' : routed[unsettled'[u]] # "unknown" /\ verdict'[unsettled'[u]] = "none"
    BY <1>0, <1>8, <1>9 DEF Once
  <2>3. \A p \in Publishes : verdict'[p] # "none" => routed[p] # "unknown"
    BY <1>0, <1>9, <1>10 DEF Once
  <2>4. \A p \in Publishes : routed[p] # "unknown" => status[p] # "new"
    BY <1>0 DEF Once
  <2>5. QED BY <1>0, <1>1, <2>1, <2>2, <2>3, <2>4 DEF Once
<1>13. Counts'
  <2>1. connected
    BY <1>0 DEF Counts
  <2>2. QED BY <1>0, <1>1, <1>2, <1>8, <2>1 DEF Counts, Pending
<1>14. TagsAgree'
  <2> SUFFICES ASSUME NEW u \in Pending
               PROVE  \/ u > received /\ u - received <= Len(wire) /\ wire[u - received] = Of(u)
                      \/ u \in DOMAIN unsettled' /\ unsettled'[u] = Of(u)
                      \/ OnItsWay(u)' /\ verdict'[Of(u)] # "none"
    BY <1>1 DEF TagsAgree, Pending, Of
  <2>1. CASE u \in DOMAIN unsettled /\ unsettled[u] = Of(u)
    <3>1. CASE u \in tags
      <4>1. Covers(f, u) /\ Len(frames) + 1 \in DOMAIN frames'
        BY <1>5, <1>7, <2>1, <3>1
      <4>2. OnItsWay(u)'
        BY <1>7, <4>1 DEF OnItsWay, Covers
      <4>3. verdict'[Of(u)] # "none"
        BY <1>9, <2>1, <3>1
      <4>4. QED BY <4>2, <4>3
    <3>2. CASE u \notin tags
      BY <1>8, <2>1, <3>2
    <3>3. QED BY <3>1, <3>2
  <2>2. CASE OnItsWay(u) /\ verdict[Of(u)] # "none"
    <3>1. OnItsWay(u)'
      BY <1>7, <2>2 DEF OnItsWay, FramesGrow
    <3>2. Of(u) \in Publishes
      BY <1>0 DEF TypeOK, Pending, Of
    <3>3. QED BY <1>9, <2>2, <3>1, <3>2
  <2>3. QED BY <1>0, <2>1, <2>2 DEF TagsAgree, Pending, Of
<1>15. FrameOrder'
  <2>1. \A i \in DOMAIN frames : frames'[i] = frames[i]
    BY <1>7 DEF FramesGrow
  <2>2. \A i \in DOMAIN frames' : i \notin DOMAIN frames => frames'[i] = f
    BY <1>7
  <2>3. f.tag <= received /\ \A u \in DOMAIN unsettled' : ~Covers(f, u)
    BY <1>2, <1>5, <1>6, <1>8
  <2>4. \A i \in DOMAIN frames :
            /\ frames[i].type \in {"ack", "nack"} =>
                   /\ frames[i].tag <= received
                   /\ \A u \in DOMAIN unsettled' : ~Covers(frames[i], u)
            /\ frames[i].type = "return" =>
                   frames[i].publish \in Mandatory /\ routed[frames[i].publish] = "unroutable"
    BY <1>0, <1>8 DEF Channel, FrameOrder
  <2>5. f.type # "return"
    BY <1>6
  <2>6. QED BY <1>1, <2>1, <2>2, <2>3, <2>4, <2>5 DEF FrameOrder, Covers
<1>16. Verdicts'
  <2>a. Pending' = Pending /\ \A u \in Pending : Of(u)' = Of(u)
    BY <1>1 DEF Pending, Of
  <2> SUFFICES ASSUME NEW u \in Pending, verdict'[Of(u)] # "none"
               PROVE  \E i \in DOMAIN frames' : /\ Covers(frames'[i], u)
                                                /\ frames'[i].type = verdict'[Of(u)]
                                                /\ \A j \in 1 .. i - 1 : ~Covers(frames'[j], u)
    BY <2>a DEF Verdicts
  <2>0. Of(u) \in Publishes
    BY <1>0 DEF TypeOK, Pending, Of
  <2>1. CASE verdict[Of(u)] # "none"
    <3>1. PICK i \in DOMAIN frames : /\ Covers(frames[i], u)
                                     /\ frames[i].type = verdict[Of(u)]
                                     /\ \A j \in 1 .. i - 1 : ~Covers(frames[j], u)
      BY <1>0, <2>1 DEF Channel, Verdicts
    <3>2. verdict'[Of(u)] = verdict[Of(u)]
      BY <1>9, <2>0, <2>1
    <3>3. QED BY <1>7, <3>1, <3>2, StillFirst
  <2>2. CASE verdict[Of(u)] = "none"
    <3>1. PICK w \in tags : unsettled[w] = Of(u)
      BY <1>9, <2>0, <2>2
    <3>2. routed[Of(u)] # "unknown"
      BY <1>0, <1>10, <3>1 DEF Once
    <3>3. u \in DOMAIN unsettled /\ unsettled[u] = Of(u)
      <4>1. ASSUME u > received, u - received <= Len(wire), wire[u - received] = Of(u) PROVE FALSE
        <5>1. u \in Nat /\ received \in Nat /\ wire \in Seq(Publishes)
          BY <1>0 DEF TypeOK, Pending, Tags
        <5>2. u - received \in DOMAIN wire
          BY <4>1, <5>1
        <5>3. QED BY <1>0, <3>2, <4>1, <5>2 DEF Once
      <4>2. QED BY <1>0, <2>2, <4>1 DEF TagsAgree, Pending, Of
    <3>4. u = w
      BY <1>0, <1>10, <3>1, <3>3 DEF Once
    <3>5. Covers(f, u) /\ Len(frames) + 1 \in DOMAIN frames' /\ f.type = verdict'[Of(u)]
      BY <1>5, <1>6, <1>7, <1>9, <1>10, <3>1, <3>4
    <3>6. \A j \in 1 .. (Len(frames) + 1) - 1 : j \in DOMAIN frames /\ frames'[j] = frames[j]
      BY <1>7 DEF FramesGrow
    <3>7. \A j \in 1 .. (Len(frames) + 1) - 1 : ~Covers(frames'[j], u)
      BY <1>0, <2>2, <3>6, NotCovered
    <3>8. QED BY <1>7, <3>5, <3>7
  <2>3. QED BY <2>1, <2>2
<1>17. PendingOnce'
  BY <1>0, <1>1 DEF Channel, PendingOnce, Pending, Of
<1>18. Returns'
  <2>1. ASSUME NEW u \in Pending, Of(u) \in Mandatory, Distinct(Of(u)), routed[Of(u)] = "unroutable", ~Back(u)
        PROVE  \E i \in DOMAIN frames' : /\ frames'[i].type = "return" /\ frames'[i].publish = Of(u)
                                         /\ \A j \in 1 .. i - 1 : ~Covers(frames'[j], u)
    <3>1. PICK i \in DOMAIN frames : /\ frames[i].type = "return" /\ frames[i].publish = Of(u)
                                     /\ \A j \in 1 .. i - 1 : ~Covers(frames[j], u)
      BY <1>0, <2>1 DEF Channel, Returns
    <3>2. QED BY <1>7, <3>1, StillFirst
  <2>2. \A u \in Pending : Back(u) => Of(u) \in Mandatory /\ Looks(Of(u))
    BY <1>0 DEF Channel, Returns
  <2>3. \A q : Looks(q)' <=> Looks(q)
    BY <1>1 DEF Looks
  <2>4. Pending' = Pending /\ \A u \in Pending : Of(u)' = Of(u)
    BY <1>1 DEF Pending, Of
  <2>5. \A u \in Pending : Back(u)' <=> Back(u)
    BY <1>1, Zenon DEF Back
  <2>6. QED BY <1>1, <2>1, <2>2, <2>3, <2>4, <2>5 DEF Returns, Covers
<1>19. ReceiptIsTrue'
  <2>1. \A p \in Publishes :
            /\ status[p] = "BrokerAccepted" => verdict'[p] = "ack"
            /\ status[p] = "BrokerRejected" => verdict'[p] = "nack"
            /\ status[p] = "Returned" => verdict'[p] # "none"
    BY <1>9 DEF IInv, ReceiptIsTrue
  <2>2. \A p \in Publishes :
            /\ status[p] = "Returned" =>
                   p \in Mandatory /\ \E q \in Mandatory : <<p, q>> \in Alike /\ routed[q] = "unroutable"
            /\ status[p] = "BrokerAccepted" /\ p \in Mandatory /\ Distinct(p) => routed[p] = "routed"
    BY DEF IInv, ReceiptIsTrue
  <2>3. status' = status /\ routed' = routed
    BY <1>1
  <2>4. QED BY <2>1, <2>2, <2>3 DEF ReceiptIsTrue
<1>20. QED BY <1>11, <1>12, <1>13, <1>14, <1>15, <1>16, <1>17, <1>18, <1>19 DEF IInv, Channel

-----------------------------------------------------------------------------
(* The theorems.                                                           *)

LEMMA NextInv == IInv /\ [Next]_vars => IInv'
<1> SUFFICES ASSUME IInv, [Next]_vars PROVE IInv'
  OBVIOUS
<1>1. ASSUME NEW p \in Publishes, Caller(p) PROVE IInv'
  BY <1>1, CallInv, TimeOutInv DEF Caller
<1>2. CASE Driver
  BY <1>2, ConnectInv, RefusedInv, PublishInv, CompleteInv, ReturnedInv DEF Driver
<1>3. CASE HandleDisconnect
  BY <1>3, DisconnectInv
<1>4. CASE BrokerReceive
  BY <1>4, ReceiveInv
<1>5. CASE BrokerAnswers
  BY <1>5, SettleInv DEF BrokerAnswers
<1>6. CASE UNCHANGED vars
  <2>1. UNCHANGED <<status, commands, connections, connected, driver, wire, frames, broker>>
    BY <1>6 DEF vars
  <2>2. UNCHANGED <<next_publish_confirm_tag, pending_publish_confirms, received, unsettled, routed, verdict>>
    BY <2>1 DEF driver, broker
  <2>3. Channel'
    BY <2>1, ChannelSame DEF IInv
  <2>4. TypeOK'
    BY <2>1, <2>2 DEF IInv, TypeOK
  <2>5. Once' /\ ReceiptIsTrue'
    BY <2>1, <2>2 DEF IInv, Once, ReceiptIsTrue
  <2>6. QED BY <2>3, <2>4, <2>5 DEF IInv
<1>7. QED BY <1>1, <1>2, <1>3, <1>4, <1>5, <1>6 DEF Next

LEMMA Inductive == Spec => []IInv
BY InitInv, NextInv, PTL DEF Spec

\* The tags the driver counts for itself name the publishes the broker knows by
\* them, over any number of connections, refused and plain publishes.
THEOREM CountsAgree == Spec => []ConfirmsAgree
<1>1. IInv => ConfirmsAgree
  BY DEF IInv, Channel, ConfirmsAgree
<1>2. QED BY <1>1, Inductive, PTL

\* CompletePublishConfirm and MarkReturnedPublish give every publish the receipt the
\* broker meant for it; one with a look-alike may only trade the returned message.
THEOREM ReceiptsAreTrue == Spec => []ReceiptIsTrue
<1>1. IInv => ReceiptIsTrue
  BY DEF IInv
<1>2. QED BY <1>1, Inductive, PTL
=============================================================================
