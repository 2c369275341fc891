--------------------------- MODULE MCStatusScript ---------------------------
(* Groups of up to two members: two are enough for the last-member leak.   *)
EXTENDS StatusScript

CONSTANTS r1, r2

MCRes == {r1, r2}

MCMaxMembers == 2
=============================================================================
