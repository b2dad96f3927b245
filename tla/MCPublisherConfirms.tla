------------------------ MODULE MCPublisherConfirms ------------------------
(* Instances of PublisherConfirms for TLC: p3 is a plain publish.          *)
EXTENDS PublisherConfirms

CONSTANTS p1, p2, p3

ThreePublishes == {p1, p2, p3}
MCConfirmed    == {p1, p2}
MCMandatory    == {p1, p3}

\* No two messages look alike.
ThreeDifferent == {<<p, p>> : p \in ThreePublishes}
=============================================================================
