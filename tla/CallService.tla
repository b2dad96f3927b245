---------------------------- MODULE CallService ----------------------------
(***************************************************************************)
(* What the AMQP connection driver promises to the threads that call it,   *)
(* whatever happens to the connection: a call is answered once, and        *)
(* nothing is left unanswered by a service that has been shut down.        *)
(* ConnectionDriver is shown to implement this specification.              *)
(***************************************************************************)

CONSTANT Calls          \* the invocations of the service's operations

VARIABLES
    phase,              \* "closed", "open" (accepting calls) or "closing"
    asked,              \* calls whose caller is blocked on the answer
    answered            \* calls that have returned to their caller

vars == <<phase, asked, answered>>

TypeOK ==
    /\ phase \in {"closed", "open", "closing"}
    /\ asked \subseteq Calls
    /\ answered \subseteq Calls
    /\ asked \cap answered = {}

Init ==
    /\ phase = "closed"
    /\ asked = {}
    /\ answered = {}

-----------------------------------------------------------------------------
Open ==
    /\ phase = "closed"
    /\ phase' = "open"
    /\ UNCHANGED <<asked, answered>>

\* A call that blocks its caller is only taken by an open service ...
Ask(c) ==
    /\ phase = "open"
    /\ c \notin asked \cup answered
    /\ asked' = asked \cup {c}
    /\ UNCHANGED <<phase, answered>>

\* ... while a refusal, or a call that waits for nothing, returns at once.
Return(c) ==
    /\ c \notin asked \cup answered
    /\ answered' = answered \cup {c}
    /\ UNCHANGED <<phase, asked>>

\* One step may release several callers: a lost connection does.
Answer(S) ==
    /\ S \subseteq asked
    /\ S # {}
    /\ asked' = asked \ S
    /\ answered' = answered \cup S
    /\ UNCHANGED phase

Close ==
    /\ phase = "open"
    /\ phase' = "closing"
    /\ UNCHANGED <<asked, answered>>

\* Shutting down completes only when nobody is blocked any more.
Finish ==
    /\ phase = "closing"
    /\ asked = {}
    /\ phase' = "closed"
    /\ UNCHANGED <<asked, answered>>

Next ==
    \/ Open \/ Close \/ Finish
    \/ \E c \in Calls : Ask(c) \/ Return(c)
    \/ \E S \in SUBSET Calls : Answer(S)

SafeSpec == Init /\ [][Next]_vars

\* A shutdown that has begun completes.
Spec == SafeSpec /\ (phase = "closing" ~> phase = "closed")
=============================================================================
