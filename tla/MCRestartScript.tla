--------------------------- MODULE MCRestartScript ---------------------------
(* A group of up to three members, so that a member of the wrong type can   *)
(* come after members that were already restarted; and the refinement of  *)
(* the script to the abstract restart of a group (RestartAbstract).         *)
EXTENDS RestartScript

CONSTANTS r1, r2, r3

MCRes == {r1, r2, r3}

MCMaxMembers == 3

\* The script's program counter translated to the abstract run's phase.
RestartPhase ==
    CASE pc \in {"args", "lookup", "find"}       -> "lookup"
      [] pc \in {"loop", "shutdown", "start"}    -> "running"
      [] pc = "done"                             -> "done"
      [] thrown = "usage" /\ groupDefined        -> "rejected"
      [] OTHER                                   -> "failed"

Abs == INSTANCE RestartAbstract
         WITH phase <- RestartPhase,
              members <- resources,
              k <- i,
              down <- shutdownCalled \ startCalled,
              restarted <- startCalled

(***************************************************************************)
(* restart.js implements "restart the group": members are restarted in     *)
(* list order, each shut down and then started before the next is looked  *)
(* at, only JBossAS servers are touched, the run stops at the first other  *)
(* member, and no failure (caught or not) leaves the script ended with a   *)
(* server it shut down and never started.  The steps that only test or    *)
(* type-check are stutters of the abstract run.                            *)
(***************************************************************************)
ImplementsRestart == Abs!Spec
=============================================================================
