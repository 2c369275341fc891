---------------------------- MODULE MCAvailScan ----------------------------
(* Three resources, so that agents and non-agents interleave in the query  *)
(* result and the compaction moves an agent over a non-agent.              *)
EXTENDS AvailScan

CONSTANTS r1, r2, r3

MCIds == {r1, r2, r3}

MCMaxFound == 3
=============================================================================
