------------------------- MODULE MCConsumerDelivery -------------------------
(* Instances of ConsumerDelivery for TLC.                                  *)
EXTENDS ConsumerDelivery

CONSTANTS m1, m2, m3

TwoMessages == {m1, m2}
GoodAndBad  == {m1, m3}
OneMalformed == {m3}
NoneMalformed == {}
=============================================================================
