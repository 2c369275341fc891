--------------------------- MODULE AddMemberScript ---------------------------
(***************************************************************************)
(* The CLI sample addMember.js (groupControl/scripts): look up the group   *)
(* by name and the resource by name and type, and add the resource to the *)
(* group when exactly one resource matches.  The management server's      *)
(* answers are nondeterministic; `added` records addResourcesToGroup.      *)
(***************************************************************************)
EXTENDS Integers

CONSTANT Res   \* resources the resource query can return

VARIABLES
    pc,           \* where the script is
    groupDefined, \* the global `group` has been assigned
    thrown,       \* the uncaught exception that ended the script, or "none"
    added         \* resources added to the group (server side)

vars == <<pc, groupDefined, thrown, added>>

\* What a findXByCriteria query can return: null, or a list of a size.
QueryResults == {"null", "size 0", "size 1", "size 2"}

Init ==
    /\ pc = "args"
    /\ groupDefined = FALSE
    /\ thrown = "none"
    /\ added = {}

\* if( args.length < 3 ) usage();
CheckArgs ==
    /\ pc = "args"
    /\ \/ pc' = "aborted" /\ thrown' = "usage"
       \/ pc' = "lookup" /\ UNCHANGED thrown
    /\ UNCHANGED <<groupDefined, added>>

\* Only a result of exactly one group assigns `group`.
LookupGroup ==
    /\ pc = "lookup"
    /\ \E groups \in QueryResults : groupDefined' = (groups = "size 1")
    /\ pc' = "resource"
    /\ UNCHANGED <<thrown, added>>

(***************************************************************************)
(* The resource query and its branches: several matches are listed, none  *)
(* is reported, and a single match r is added with                         *)
(* addResourcesToGroup(group.id, [resource.id]), whose argument group.id   *)
(* throws a ReferenceError before the call when `group` was never set.     *)
(***************************************************************************)
AddResource ==
    /\ pc = "resource"
    /\ \E result \in QueryResults :
          IF result = "size 1"
          THEN \E r \in Res :
                 IF groupDefined
                 THEN /\ added' = added \cup {r}
                      /\ pc' = "done"
                      /\ UNCHANGED thrown
                 ELSE /\ pc' = "aborted"
                      /\ thrown' = "ReferenceError"
                      /\ UNCHANGED added
          ELSE pc' = "done" /\ UNCHANGED <<thrown, added>>
    /\ UNCHANGED groupDefined

Next == CheckArgs \/ LookupGroup \/ AddResource

Spec == Init /\ [][Next]_vars

-----------------------------------------------------------------------------
(***************************************************************************)
(* The group is looked up before it is used: "Found more than one group."  *)
(* is only printed, no group prints nothing, and the script goes on to     *)
(* announce "Trying to add it." and read group.id.                         *)
(***************************************************************************)
GroupFoundBeforeUse == thrown # "ReferenceError"

=============================================================================
