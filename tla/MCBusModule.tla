---------------------------- MODULE MCBusModule ----------------------------
(* An instance of BusModule for TLC.                                       *)
EXTENDS BusModule

CONSTANTS w1, w2, o1

OneThread == {w1}
TwoThreads == {w1, w2}
OneObserver == {o1}
=============================================================================
