------------------------- MODULE MCConnectionDriver -------------------------
(* Instances of ConnectionDriver for TLC.                                  *)
EXTENDS ConnectionDriver, TLC

CONSTANTS c1, c2, c3

TwoCalls == {c1, c2}

\* Every operation, or those that the caller waits for.
AllOperations == Kinds
Waits         == Blocking

\* With everything that a configuration can switch on, or with nothing.
UsualConfig == {[reconnect |-> TRUE, confirms |-> TRUE]}
BothConfigs == UsualConfig \cup {[reconnect |-> FALSE, confirms |-> FALSE]}

\* Calls are interchangeable as far as safety is concerned.
Symmetry == Permutations({c1, c2, c3})
=============================================================================
