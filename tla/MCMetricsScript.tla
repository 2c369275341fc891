--------------------------- MODULE MCMetricsScript ---------------------------
(* Groups of up to two members: two are enough for the first-member read.  *)
EXTENDS MetricsScript

CONSTANTS r1, r2

MCRes == {r1, r2}

MCMaxMembers == 2
=============================================================================
