-------------------------- MODULE PublisherConfirms --------------------------
(***************************************************************************)
(* PublishConfirmed from the driver's side: the tags the driver counts for *)
(* itself, pending_publish_confirms_, and what it makes of the broker's    *)
(* acknowledgements and returned messages.  The broker never names a       *)
(* publish: both sides count the publishes of a channel, and a returned    *)
(* message is found by comparing contents.  The command queue, bootstrap   *)
(* and shutdown are the business of ConnectionDriver; here the connection  *)
(* is either down or fully built.                                          *)
(***************************************************************************)
EXTENDS Naturals, Sequences, FiniteSets

CONSTANTS
    Publishes,          \* publish invocations, each made at most once
    Confirmed,          \* those made through PublishConfirmed; the others are plain
    Mandatory,          \* those with request.mandatory or options.require_routable
    Alike,              \* <<p, q>>: pending p passes for the returned message of q
    MaxConnections      \* bound: how often the connection is built

\* A message passes for itself: the broker returns it unchanged.
ASSUME PublisherConfirmsAssumption ==
    /\ Confirmed \subseteq Publishes
    /\ Mandatory \subseteq Publishes
    /\ Alike \subseteq Publishes \X Publishes
    /\ \A p \in Publishes : <<p, p>> \in Alike
    /\ MaxConnections \in Nat

VARIABLES
    status,             \* status[p]: where the call is, or its result
    commands,           \* publishes in the command queue
    connections,        \* how often the connection was built
    connected,          \* IsReadyLocked, with publisher_confirms_ready_
    next_publish_confirm_tag,
    pending_publish_confirms,   \* tag -> the publish, and whether it was returned
    wire,               \* publishes on their way to the broker
    frames,             \* the broker's answers on their way to the driver
    received,           \* publishes the broker has counted on this channel
    unsettled,          \* tag -> publish the broker has not answered yet
    routed,             \* routed[p]: whether the broker found a queue
    verdict             \* verdict[p]: the broker's answer

driver == <<next_publish_confirm_tag, pending_publish_confirms>>
broker == <<received, unsettled, routed, verdict>>
vars   == <<status, commands, connections, connected, driver, wire, frames, broker>>

-----------------------------------------------------------------------------
Receipts == {"BrokerAccepted", "BrokerRejected", "Returned"}
Errors   == {"Disconnected", "OperationFailed", "Timeout"}

NoTags == [t \in {} |-> 0]

\* The function f with the tag t added or overwritten, and without the tags T.
With(f, t, value) == [u \in DOMAIN f \cup {t} |-> IF u = t THEN value ELSE f[u]]
Without(f, T)     == [u \in DOMAIN f \ T |-> f[u]]

Init ==
    /\ status = [p \in Publishes |-> "new"]
    /\ commands = <<>>
    /\ connections = 0
    /\ connected = FALSE
    /\ next_publish_confirm_tag = 1
    /\ pending_publish_confirms = NoTags
    /\ wire = <<>>
    /\ frames = <<>>
    /\ received = 0
    /\ unsettled = NoTags
    /\ routed = [p \in Publishes |-> "unknown"]
    /\ verdict = [p \in Publishes |-> "none"]

-----------------------------------------------------------------------------
(* The callers.                                                            *)

\* The caller of a confirmed publish waits for its receipt.
Call(p) ==
    /\ status[p] = "new"
    /\ status' = [status EXCEPT ![p] = IF p \in Confirmed THEN "waiting" ELSE "sent"]
    /\ commands' = Append(commands, p)
    /\ UNCHANGED <<connections, connected, driver, wire, frames, broker>>

\* options.timeout_ms has passed.  The publish itself is not withdrawn.
TimeOut(p) ==
    /\ status[p] = "waiting"
    /\ status' = [status EXCEPT ![p] = "Timeout"]
    /\ UNCHANGED <<commands, connections, connected, driver, wire, frames, broker>>

-----------------------------------------------------------------------------
(* The driver thread.                                                      *)

\* CompletePendingPublishResult: only a caller that still waits is answered.
Complete(S, result) ==
    status' = [p \in Publishes |-> IF p \in S /\ status[p] = "waiting" THEN result[p] ELSE status[p]]

Fail(S, error) == Complete(S, [p \in S |-> error])

\* ConnectSocket and confirmSelect: a new channel, and tags from 1 again.
Connect ==
    /\ ~connected
    /\ connections < MaxConnections
    /\ connections' = connections + 1
    /\ connected' = TRUE
    /\ next_publish_confirm_tag' = 1
    /\ pending_publish_confirms' = NoTags
    /\ received' = 0
    /\ unsettled' = NoTags
    /\ UNCHANGED <<status, commands, wire, frames, routed, verdict>>

\* A publish that comes too late, has no AMQP form, or that the channel refuses.
RunRefused ==
    /\ commands # <<>>
    /\ Fail({Head(commands)}, IF connected THEN "OperationFailed" ELSE "Disconnected")
    /\ commands' = Tail(commands)
    /\ UNCHANGED <<connections, connected, driver, wire, frames, broker>>

\* Mutant: a plain publish is not counted.
RunPublishUncounted ==
    /\ commands # <<>>
    /\ connected
    /\ commands' = Tail(commands)
    /\ wire' = Append(wire, Head(commands))
    /\ LET p == Head(commands) IN
       IF p \in Confirmed
       THEN /\ pending_publish_confirms' = With(pending_publish_confirms, next_publish_confirm_tag,
                                                [publish |-> p, returned |-> FALSE])
            /\ next_publish_confirm_tag' = next_publish_confirm_tag + 1
       ELSE UNCHANGED driver
    /\ UNCHANGED <<status, connections, connected, frames, broker>>

\* The channel takes the publish; the broker will count it, whether anybody
\* waits for a confirm or not.
RunPublish ==
    /\ commands # <<>>
    /\ connected
    /\ commands' = Tail(commands)
    /\ wire' = Append(wire, Head(commands))
    /\ next_publish_confirm_tag' = next_publish_confirm_tag + 1
    /\ pending_publish_confirms' =
          IF Head(commands) \in Confirmed
          THEN With(pending_publish_confirms, next_publish_confirm_tag,
                    [publish |-> Head(commands), returned |-> FALSE])
          ELSE pending_publish_confirms
    /\ UNCHANGED <<status, connections, connected, frames, broker>>

\* Mutant: an acknowledgement of several tags leaves out the one it names.
CompletedShort(frame) ==
    {t \in DOMAIN pending_publish_confirms : IF frame.multiple THEN t < frame.tag ELSE t = frame.tag}

\* The tags an acknowledgement stands for.
Completed(frame) ==
    {t \in DOMAIN pending_publish_confirms : t = frame.tag \/ (frame.multiple /\ t < frame.tag)}

Receipt(entry, frame) ==
    IF entry.returned THEN "Returned"
    ELSE IF frame.type = "nack" THEN "BrokerRejected" ELSE "BrokerAccepted"

CompletePublishConfirm ==
    /\ frames # <<>>
    /\ Head(frames).type \in {"ack", "nack"}
    /\ LET frame == Head(frames)
           tags  == Completed(frame)
           S     == {pending_publish_confirms[t].publish : t \in tags}
           receipt == [p \in S |-> Receipt(
                           pending_publish_confirms[
                               CHOOSE t \in tags : pending_publish_confirms[t].publish = p], frame)]
       IN  /\ Complete(S, receipt)
           /\ pending_publish_confirms' = Without(pending_publish_confirms, tags)
    /\ frames' = Tail(frames)
    /\ UNCHANGED <<commands, connections, connected, next_publish_confirm_tag, wire, broker>>

\* Mutant: the first mandatory publish takes any returned message.
MatchesAny(q) ==
    {t \in DOMAIN pending_publish_confirms :
        /\ ~pending_publish_confirms[t].returned
        /\ pending_publish_confirms[t].publish \in Mandatory}

\* The pending publishes that pass for the returned message of q.
Matches(q) ==
    {t \in DOMAIN pending_publish_confirms :
        /\ ~pending_publish_confirms[t].returned
        /\ pending_publish_confirms[t].publish \in Mandatory
        /\ <<pending_publish_confirms[t].publish, q>> \in Alike}

\* MarkReturnedPublish takes the lowest tag; with no match there is a warning.
HandleReturnedMessage ==
    /\ frames # <<>>
    /\ Head(frames).type = "return"
    /\ LET tags == Matches(Head(frames).publish) IN
       \/ /\ tags = {}
          /\ UNCHANGED pending_publish_confirms
       \/ \E t \in tags :
              /\ \A u \in tags : t <= u
              /\ pending_publish_confirms' = [pending_publish_confirms EXCEPT ![t].returned = TRUE]
    /\ frames' = Tail(frames)
    /\ UNCHANGED <<status, commands, connections, connected, next_publish_confirm_tag, wire, broker>>

\* HandleDisconnect with FailPendingPublishes.  What was on its way in either
\* direction is gone; what the broker had received stays received.
HandleDisconnect ==
    /\ connected
    /\ connected' = FALSE
    /\ Fail({pending_publish_confirms[t].publish : t \in DOMAIN pending_publish_confirms}, "Disconnected")
    /\ pending_publish_confirms' = NoTags
    /\ wire' = <<>>
    /\ frames' = <<>>
    /\ unsettled' = NoTags
    /\ next_publish_confirm_tag' = 1
    /\ UNCHANGED <<commands, connections, received, routed, verdict>>

-----------------------------------------------------------------------------
(* The broker.                                                             *)

\* It counts the publishes, finds a queue or none (bindings come and go), and
\* sends a mandatory message back at once if there is none.
BrokerReceive ==
    /\ wire # <<>>
    /\ received' = received + 1
    /\ unsettled' = With(unsettled, received + 1, Head(wire))
    /\ \/ /\ routed' = [routed EXCEPT ![Head(wire)] = "routed"]
          /\ UNCHANGED frames
       \/ /\ routed' = [routed EXCEPT ![Head(wire)] = "unroutable"]
          /\ frames' = IF Head(wire) \in Mandatory
                       THEN Append(frames, [type |-> "return", publish |-> Head(wire)])
                       ELSE frames
    /\ wire' = Tail(wire)
    /\ UNCHANGED <<status, commands, connections, connected, driver, verdict>>

\* It answers in any order, and may answer several publishes at a time.
BrokerSettle(t, type, multiple) ==
    /\ t \in DOMAIN unsettled
    /\ LET tags == {u \in DOMAIN unsettled : u = t \/ (multiple /\ u < t)} IN
       /\ verdict' = [p \in Publishes |-> IF \E u \in tags : unsettled[u] = p THEN type ELSE verdict[p]]
       /\ unsettled' = Without(unsettled, tags)
    /\ frames' = Append(frames, [type |-> type, tag |-> t, multiple |-> multiple])
    /\ UNCHANGED <<status, commands, connections, connected, driver, wire, received, routed>>

-----------------------------------------------------------------------------
Caller(p) == Call(p) \/ TimeOut(p)

Driver == Connect \/ RunRefused \/ RunPublish \/ CompletePublishConfirm \/ HandleReturnedMessage

BrokerAnswers == \E t \in DOMAIN unsettled, type \in {"ack", "nack"}, multiple \in BOOLEAN :
                     BrokerSettle(t, type, multiple)

Next == (\E p \in Publishes : Caller(p)) \/ Driver \/ HandleDisconnect \/ BrokerReceive \/ BrokerAnswers

Spec == Init /\ [][Next]_vars

\* The driver thread runs its commands and reads its socket; the broker takes
\* what it is sent and answers it.  Nobody has to give up waiting.
FairSpec ==
    /\ Spec
    /\ WF_vars(RunRefused \/ RunPublish)
    /\ WF_vars(CompletePublishConfirm \/ HandleReturnedMessage)
    /\ WF_vars(BrokerReceive)
    /\ WF_vars(BrokerAnswers)

-----------------------------------------------------------------------------
(* Properties.                                                             *)

Tags == Nat \ {0}

\* Every variable holds a value of its type.
TypeOK ==
    /\ status \in [Publishes -> {"new", "sent", "waiting"} \cup Receipts \cup Errors]
    /\ commands \in Seq(Publishes)
    /\ connections \in Nat
    /\ connected \in BOOLEAN
    /\ next_publish_confirm_tag \in Tags
    /\ DOMAIN pending_publish_confirms \subseteq Tags
    /\ \A t \in DOMAIN pending_publish_confirms :
           pending_publish_confirms[t] \in [publish : Publishes, returned : BOOLEAN]
    /\ wire \in Seq(Publishes)
    /\ frames \in Seq([type : {"return"}, publish : Publishes]
                      \cup [type : {"ack", "nack"}, tag : Tags, multiple : BOOLEAN])
    /\ received \in Nat
    /\ DOMAIN unsettled \subseteq Tags
    /\ \A t \in DOMAIN unsettled : unsettled[t] \in Publishes
    /\ routed \in [Publishes -> {"unknown", "routed", "unroutable"}]
    /\ verdict \in [Publishes -> {"none", "ack", "nack"}]

\* An acknowledgement that will complete the tag t is on its way.
OnItsWay(t) ==
    \E i \in DOMAIN frames :
        /\ frames[i].type \in {"ack", "nack"}
        /\ frames[i].tag = t \/ (frames[i].multiple /\ t < frames[i].tag)

\* The two counts agree: a pending confirm is the publish the broker knows by
\* that tag, will know by it, or has already answered.  It holds because plain
\* publishes are counted too, refused ones are not, and a new channel starts
\* over on both sides.
TagsAgree ==
    \A t \in DOMAIN pending_publish_confirms :
        LET p == pending_publish_confirms[t].publish IN
        \/ t > received /\ t - received <= Len(wire) /\ wire[t - received] = p
        \/ t \in DOMAIN unsettled /\ unsettled[t] = p
        \/ OnItsWay(t) /\ verdict[p] # "none"

\* The part of the state the receipts are read from is in order.
ConfirmsAgree == TypeOK /\ TagsAgree

\* No other message passes for this one.
Distinct(p) == \A q \in Publishes \ {p} : <<p, q>> \notin Alike /\ <<q, p>> \notin Alike

\* The receipt says what the broker said about this very publish.  Types.h:100
\* says of the receipt Returned: the message was published as mandatory, and the
\* broker could not route it to a queue; for a publish with a look-alike all
\* that is left of this, and of the converse, is that one of them was returned.
ReceiptIsTrue ==
    \A p \in Publishes :
        /\ status[p] = "BrokerAccepted" => verdict[p] = "ack"
        /\ status[p] = "BrokerRejected" => verdict[p] = "nack"
        /\ status[p] = "Returned" =>
               /\ p \in Mandatory /\ verdict[p] # "none"
               /\ \E q \in Mandatory : <<p, q>> \in Alike /\ routed[q] = "unroutable"
        /\ status[p] = "BrokerAccepted" /\ p \in Mandatory /\ Distinct(p) => routed[p] = "routed"

\* A confirmed publish gets its receipt or its error, even with an infinite
\* timeout.
EveryPublishSettles ==
    \A p \in Confirmed : status[p] = "waiting" ~> status[p] # "waiting"
=============================================================================
