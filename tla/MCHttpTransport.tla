---------------------------- MODULE MCHttpTransport ----------------------------
(* Instances of HttpTransport for TLC.                                     *)
EXTENDS HttpTransport

CONSTANTS r1, r2, model

TwoRequests == {r1, r2}
OneRoute    == {model}
AnyRole     == {"client", "server", "both"}
=============================================================================
