--------------------------- MODULE RestartAbstract ---------------------------
(***************************************************************************)
(* What restart.js is for ("Usage: restart groupName"), with no program    *)
(* counter and no remote calls: once the group's members are known, they   *)
(* are restarted one at a time in list order, a member being taken down    *)
(* and brought back before the next is touched.  The run ends when every   *)
(* member is restarted, is rejected at the first member that is not a      *)
(* JBossAS server, or fails; it never fails or stops while a server it     *)
(* took down is still down.                                                *)
(***************************************************************************)
EXTENDS Integers, Sequences

CONSTANTS
    Res,        \* resources that can be members of the group
    MaxMembers  \* bound on the number of members

VARIABLES
    isJBoss,    \* which resources are JBossAS servers
    phase,      \* "lookup", "running", "done", "rejected" or "failed"
    members,    \* the group's members, in order
    k,          \* how many members have been restarted
    down,       \* the member taken down and not yet brought back, if any
    restarted   \* members restarted

avars == <<isJBoss, phase, members, k, down, restarted>>

MemberLists ==
    UNION {{s \in [1..n -> Res] : \A x, y \in 1..n : x # y => s[x] # s[y]}
           : n \in 0..MaxMembers}

\* The next member to restart, if any.
NextMember == IF k < Len(members) THEN {members[k + 1]} ELSE {}

Init ==
    /\ isJBoss \in [Res -> BOOLEAN]
    /\ phase = "lookup"
    /\ members = << >>
    /\ k = 0
    /\ down = {}
    /\ restarted = {}

Found ==
    /\ phase = "lookup"
    /\ phase' = "running"
    /\ members' \in MemberLists
    /\ UNCHANGED <<isJBoss, k, down, restarted>>

TakeDown ==
    /\ phase = "running"
    /\ down = {}
    /\ \E m \in NextMember : isJBoss[m] /\ down' = {m}
    /\ UNCHANGED <<isJBoss, phase, members, k, restarted>>

BringBack ==
    /\ phase = "running"
    /\ down # {}
    /\ down = NextMember
    /\ restarted' = restarted \cup down
    /\ down' = {}
    /\ k' = k + 1
    /\ UNCHANGED <<isJBoss, phase, members>>

Finish ==
    /\ phase = "running"
    /\ down = {}
    /\ k = Len(members)
    /\ phase' = "done"
    /\ UNCHANGED <<isJBoss, members, k, down, restarted>>

Reject ==
    /\ phase = "running"
    /\ down = {}
    /\ \E m \in NextMember : ~isJBoss[m]
    /\ phase' = "rejected"
    /\ UNCHANGED <<isJBoss, members, k, down, restarted>>

Fail ==
    /\ phase \in {"lookup", "running"}
    /\ down = {}
    /\ phase' = "failed"
    /\ UNCHANGED <<isJBoss, members, k, down, restarted>>

ANext == Found \/ TakeDown \/ BringBack \/ Finish \/ Reject \/ Fail

Spec == Init /\ [][ANext]_avars /\ WF_avars(ANext)

=============================================================================
