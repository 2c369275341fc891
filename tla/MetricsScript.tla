---------------------------- MODULE MetricsScript ----------------------------
(***************************************************************************)
(* The CLI sample metrics.js (groupControl/scripts): look up the group,    *)
(* the "JBossAS Server" resource type, the measurement definitions with    *)
(* the given display name for that type, and the group's members, then     *)
(* read live data of the first definition on the first member and print   *)
(* it when it is not null.  The management server's answers are            *)
(* nondeterministic; `read` records findLiveData.                          *)
(***************************************************************************)
EXTENDS Integers, Sequences

CONSTANTS
    Res,        \* resources that can be members of the group
    MaxMembers  \* bound on the number of members the query returns

VARIABLES
    pc,           \* where the script is
    groupDefined, \* the global `group` has been assigned
    resources,    \* the member list returned by findResourcesByCriteria
    thrown,       \* the uncaught exception that ended the script, or "none"
    read          \* members whose live metric data was read (history)

vars == <<pc, groupDefined, resources, thrown, read>>

Members ==
    UNION {{s \in [1..n -> Res] : \A x, y \in 1..n : x # y => s[x] # s[y]}
           : n \in 0..MaxMembers}

GroupResults == {"null", "size 0", "size 1", "size 2"}

Init ==
    /\ pc = "args"
    /\ groupDefined = FALSE
    /\ resources = << >>
    /\ thrown = "none"
    /\ read = {}

Abort(e) == pc' = "aborted" /\ thrown' = e

\* if( args.length < 2 ) usage();
CheckArgs ==
    /\ pc = "args"
    /\ \/ Abort("usage")
       \/ pc' = "lookup" /\ UNCHANGED thrown
    /\ UNCHANGED <<groupDefined, resources, read>>

\* Only a result of exactly one group assigns `group`.
LookupGroup ==
    /\ pc = "lookup"
    /\ \E groups \in GroupResults : groupDefined' = (groups = "size 1")
    /\ pc' = "query"
    /\ UNCHANGED <<resources, thrown, read>>

(***************************************************************************)
(* From group.id to findLiveData: group.id throws when `group` is unset;   *)
(* rt.id throws when the resource type is not found (null); get(0) throws  *)
(* on an empty definition list or an empty member list.                    *)
(***************************************************************************)
ReadMetric ==
    /\ pc = "query"
    /\ IF ~groupDefined
       THEN Abort("ReferenceError") /\ UNCHANGED <<resources, read>>
       ELSE \E typeFound, defFound \in BOOLEAN, found \in Members :
              CASE ~typeFound -> Abort("TypeError") /\ UNCHANGED <<resources, read>>
                [] ~defFound \/ found = << >> ->
                     /\ resources' = found
                     /\ Abort("IndexOutOfBounds")
                     /\ UNCHANGED read
                [] OTHER ->
                     /\ resources' = found
                     /\ read' = {found[1]}
                     /\ pc' = "done"
                     /\ UNCHANGED thrown
    /\ UNCHANGED groupDefined

Next == CheckArgs \/ LookupGroup \/ ReadMetric

Spec == Init /\ [][Next]_vars

-----------------------------------------------------------------------------
(***************************************************************************)
(* "Usage: metrics groupName metricName": the metric is read for the       *)
(* group, that is for every member of it; the script reads it for         *)
(* resources.get(0) alone.                                                 *)
(***************************************************************************)
MetricOfEveryMember ==
    pc = "done" => read = {resources[j] : j \in DOMAIN resources}

=============================================================================
