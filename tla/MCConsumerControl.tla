------------------------- MODULE MCConsumerControl -------------------------
(* An instance of ConsumerControl for TLC: three consumers, one that starts *)
(* by itself with a prefetch window, one that is only prepared and one that *)
(* starts by itself without a window; the first two are controlled.         *)
EXTENDS ConsumerControl

CONSTANTS k1, k2

TwoCalls == {k1, k2}
OwnConsumers == [k \in TwoCalls |-> IF k = k1 THEN 1 ELSE 2]
Auto == {1, 3}
Qos == {1}
=============================================================================
