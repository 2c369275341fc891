---------------------------- MODULE StatusScript ----------------------------
(***************************************************************************)
(* The CLI sample status.js (groupControl/scripts): look up the group,     *)
(* list its explicit members, then read and print the availability of the *)
(* server held in `resource`, a var of the listing loop read after it: the *)
(* last member listed, or undefined when the group is empty.  The          *)
(* management server's answers are nondeterministic.                       *)
(***************************************************************************)
EXTENDS Integers, Sequences

CONSTANTS
    Res,        \* resources that can be members of the group
    MaxMembers, \* bound on the number of members the query returns
    Undefined   \* the value of a declared var never assigned

VARIABLES
    pc,           \* where the script is
    groupDefined, \* the global `group` has been assigned
    resources,    \* the member list returned by findResourcesByCriteria
    i,            \* loop index
    resource,     \* the loop's var, hoisted to the script's scope
    thrown,       \* the uncaught exception that ended the script, or "none"
    listed,       \* members printed as "found" (history)
    reported      \* members whose availability was printed (history)

vars == <<pc, groupDefined, resources, i, resource, thrown, listed, reported>>

Members ==
    UNION {{s \in [1..n -> Res] : \A x, y \in 1..n : x # y => s[x] # s[y]}
           : n \in 0..MaxMembers}

GroupResults == {"null", "size 0", "size 1", "size 2"}

Ended == pc \in {"done", "aborted"}

Init ==
    /\ pc = "args"
    /\ groupDefined = FALSE
    /\ resources = << >>
    /\ i = 0
    /\ resource = Undefined
    /\ thrown = "none"
    /\ listed = {}
    /\ reported = {}

\* if( args.length < 1 ) usage();
CheckArgs ==
    /\ pc = "args"
    /\ \/ pc' = "aborted" /\ thrown' = "usage"
       \/ pc' = "lookup" /\ UNCHANGED thrown
    /\ UNCHANGED <<groupDefined, resources, i, resource, listed, reported>>

\* Only a result of exactly one group assigns `group`.
LookupGroup ==
    /\ pc = "lookup"
    /\ \E groups \in GroupResults : groupDefined' = (groups = "size 1")
    /\ pc' = "find"
    /\ UNCHANGED <<resources, i, resource, thrown, listed, reported>>

\* addFilterExplicitGroupIds(group.id), then findResourcesByCriteria.
FindResources ==
    /\ pc = "find"
    /\ IF groupDefined
       THEN /\ \E found \in Members : resources' = found
            /\ pc' = "loop"
            /\ UNCHANGED thrown
       ELSE /\ pc' = "aborted"
            /\ thrown' = "ReferenceError"
            /\ UNCHANGED resources
    /\ UNCHANGED <<groupDefined, i, resource, listed, reported>>

\* for( i =0; i < resources.size(); ++i) { resource = ...; println(...) }
ListMember ==
    /\ pc = "loop"
    /\ i < Len(resources)
    /\ resource' = resources[i + 1]
    /\ listed' = listed \cup {resources[i + 1]}
    /\ i' = i + 1
    /\ UNCHANGED <<pc, groupDefined, resources, thrown, reported>>

ListDone ==
    /\ pc = "loop"
    /\ i >= Len(resources)
    /\ pc' = "status"
    /\ UNCHANGED <<groupDefined, resources, i, resource, thrown, listed, reported>>

\* ProxyFactory.getResource(resource.id) and the availability printout;
\* reading .id of undefined throws a TypeError.
ReportStatus ==
    /\ pc = "status"
    /\ IF resource = Undefined
       THEN /\ pc' = "aborted"
            /\ thrown' = "TypeError"
            /\ UNCHANGED reported
       ELSE /\ pc' = "done"
            /\ reported' = reported \cup {resource}
            /\ UNCHANGED thrown
    /\ UNCHANGED <<groupDefined, resources, i, resource, listed>>

Next ==
    \/ CheckArgs
    \/ LookupGroup
    \/ FindResources
    \/ ListMember
    \/ ListDone
    \/ ReportStatus

Spec == Init /\ [][Next]_vars

-----------------------------------------------------------------------------
(* What the script is for ("Usage: status groupName") and does not do.     *)

(***************************************************************************)
(* "Usage: status groupName": once the group is found, the script reports  *)
(* the availability of each of its members.  The printout after the loop   *)
(* reads the loop's `resource`: the last member only, and a TypeError on   *)
(* .id of undefined when the group has no explicit member.                 *)
(***************************************************************************)
StatusOfEveryMember ==
    (Ended /\ groupDefined) =>
        /\ pc = "done"
        /\ reported = {resources[j] : j \in DOMAIN resources}

=============================================================================
