---------------------------- MODULE RestartScript ----------------------------
(***************************************************************************)
(* The CLI sample restart.js (groupControl/scripts): look up the resource  *)
(* group named by args[0], find its explicit members, and for each member  *)
(* in turn check that it is a "JBossAS Server", then call shutdown() and   *)
(* start() on its proxy, each in its own try/catch.                        *)
(*                                                                         *)
(* The management server is the environment: how many groups the criteria *)
(* query returns, the member list, the members' types, and whether each    *)
(* shutdown/start call returns or throws are nondeterministic.  Which      *)
(* calls were made is recorded; the servers' own state is not modelled, as *)
(* a call that throws may or may not have taken effect.                    *)
(***************************************************************************)
EXTENDS Integers, Sequences

CONSTANTS
    Res,       \* resources that can be members of the group
    MaxMembers \* bound on the number of members the query returns

VARIABLES
    isJBoss,        \* resource.resourceType.name == "JBossAS Server", per resource
    pc,             \* where the script is
    groupDefined,   \* the global `group` has been assigned
    resources,      \* the member list returned by findResourcesByCriteria
    i,              \* loop index
    thrown,         \* the uncaught exception that ended the script, or "none"
    shutdownCalled, \* resources shutdown() was called on (history)
    startCalled     \* resources start() was called on (history)

vars == <<isJBoss, pc, groupDefined, resources, i, thrown,
          shutdownCalled, startCalled>>

Members ==
    UNION {{s \in [1..n -> Res] : \A x, y \in 1..n : x # y => s[x] # s[y]}
           : n \in 0..MaxMembers}

\* What findResourceGroupsByCriteria can return: null, or a list of a size.
GroupResults == {"null", "size 0", "size 1", "size 2"}

Ended == pc \in {"done", "aborted"}

Init ==
    /\ isJBoss \in [Res -> BOOLEAN]
    /\ pc = "args"
    /\ groupDefined = FALSE
    /\ resources = << >>
    /\ i = 0
    /\ thrown = "none"
    /\ shutdownCalled = {}
    /\ startCalled = {}

\* usage() prints and throws "Illegal arguments".
usage ==
    /\ pc' = "aborted"
    /\ thrown' = "usage"

\* if( args.length < 1 ) usage();
CheckArgs ==
    /\ pc = "args"
    /\ \/ usage
       \/ pc' = "lookup" /\ UNCHANGED thrown
    /\ UNCHANGED <<isJBoss, groupDefined, resources, i,
                   shutdownCalled, startCalled>>

\* Only a result of exactly one group assigns `group`; the others print or
\* do nothing and go on.
LookupGroup ==
    /\ pc = "lookup"
    /\ \E groups \in GroupResults : groupDefined' = (groups = "size 1")
    /\ pc' = "find"
    /\ UNCHANGED <<isJBoss, resources, i, thrown,
                   shutdownCalled, startCalled>>

\* criteria.addFilterExplicitGroupIds(group.id): reading an unassigned
\* global throws a ReferenceError.
FindResources ==
    /\ pc = "find"
    /\ IF groupDefined
       THEN /\ \E found \in Members : resources' = found
            /\ pc' = "loop"
            /\ UNCHANGED thrown
       ELSE /\ pc' = "aborted"
            /\ thrown' = "ReferenceError"
            /\ UNCHANGED resources
    /\ UNCHANGED <<isJBoss, groupDefined, i,
                   shutdownCalled, startCalled>>

\* Variant that drops the type check.
LoopHeadNoTypeCheck ==
    /\ pc = "loop"
    /\ IF i >= Len(resources)
       THEN pc' = "done" /\ UNCHANGED thrown
       ELSE \/ pc' = "shutdown" /\ UNCHANGED thrown
            \/ pc' = "aborted" /\ thrown' = "getResource"
    /\ UNCHANGED <<isJBoss, groupDefined, resources, i,
                   shutdownCalled, startCalled>>

(***************************************************************************)
(* The loop test, the type check of resources.get(i), and                  *)
(* ProxyFactory.getResource(resource.id), which is outside any try: a      *)
(* remote failure there ends the script between two members.               *)
(***************************************************************************)
LoopHead ==
    /\ pc = "loop"
    /\ IF i >= Len(resources)
       THEN pc' = "done" /\ UNCHANGED thrown
       ELSE IF isJBoss[resources[i + 1]]
            THEN \/ pc' = "shutdown" /\ UNCHANGED thrown
                 \/ pc' = "aborted" /\ thrown' = "getResource"
            ELSE usage
    /\ UNCHANGED <<isJBoss, groupDefined, resources, i,
                   shutdownCalled, startCalled>>

\* try { server.shutdown() } catch( ex ) { println(...) }: returning or
\* throwing, the script goes on to start().
Shutdown ==
    /\ pc = "shutdown"
    /\ shutdownCalled' = shutdownCalled \cup {resources[i + 1]}
    /\ pc' = "start"
    /\ UNCHANGED <<isJBoss, groupDefined, resources, i, thrown, startCalled>>

\* try { server.start() } catch( ex ) { println(...) }, then ++i.
Start ==
    /\ pc = "start"
    /\ startCalled' = startCalled \cup {resources[i + 1]}
    /\ i' = i + 1
    /\ pc' = "loop"
    /\ UNCHANGED <<isJBoss, groupDefined, resources, thrown, shutdownCalled>>

Next ==
    \/ CheckArgs
    \/ LookupGroup
    \/ FindResources
    \/ LoopHead
    \/ Shutdown
    \/ Start

\* The script runs to completion once started: the CLI executes it without
\* waiting on the user, and every remote call returns or throws.
Spec == Init /\ [][Next]_vars /\ WF_vars(Next)

-----------------------------------------------------------------------------
TypeOK ==
    /\ isJBoss \in [Res -> BOOLEAN]
    /\ pc \in {"args", "lookup", "find", "loop", "shutdown", "start",
               "done", "aborted"}
    /\ groupDefined \in BOOLEAN
    /\ resources \in Members
    /\ i \in 0..MaxMembers
    /\ thrown \in {"none", "usage", "ReferenceError", "getResource", "shutdown"}
    /\ shutdownCalled \subseteq Res /\ startCalled \subseteq Res

-----------------------------------------------------------------------------
(* What the script's own messages say and the code does not keep.          *)

(***************************************************************************)
(* "Resource not of required type. Exiting!": a group that is not all      *)
(* JBossAS servers is rejected without restarting any of it (deploy.js     *)
(* checks every member before acting).  restart.js checks each member only *)
(* when it reaches it, after restarting the members before it.             *)
(***************************************************************************)
RejectedGroupUntouched ==
    (Ended /\ thrown = "usage") => shutdownCalled = {}

=============================================================================
