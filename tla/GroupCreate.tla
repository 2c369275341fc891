----------------------------- MODULE GroupCreate -----------------------------
(***************************************************************************)
(* The CLI sample group.js (groupControl/scripts): build a ResourceGroup   *)
(* from `resType`, name it, create it on the server, and only then look up *)
(* the "JBossAS 5 Server" resource type into `resType`.  `var resType` is  *)
(* hoisted, so it is undefined when the group is built.  How the Java      *)
(* constructor takes an undefined argument is the bridge's business: it    *)
(* either throws or builds a group with no resource type.                  *)
(***************************************************************************)
EXTENDS Integers

CONSTANTS
    JBossAS5,   \* the resource type getResourceTypeByNameAndPlugin returns
    NoType,     \* a group built without a resource type (a mixed group)
    Undefined   \* the value of a declared var never assigned

VARIABLES
    pc,       \* where the script is
    resType,  \* the script's var resType
    rgType,   \* the resource type of the group built at line 9
    created   \* the type of the group createResourceGroup created, or NoType

vars == <<pc, resType, rgType, created>>

Init ==
    /\ pc = "args"
    /\ resType = Undefined
    /\ rgType = NoType
    /\ created = Undefined

\* if( args.length < 1 ) usage();
CheckArgs ==
    /\ pc = "args"
    /\ pc' \in {"aborted", "build"}
    /\ UNCHANGED <<resType, rgType, created>>

\* new ResourceGroup(resType), then setRecursive, setDescription, setName.
Build ==
    /\ pc = "build"
    /\ \/ pc' = "aborted" /\ UNCHANGED rgType
       \/ pc' = "create" /\ rgType' = IF resType = Undefined THEN NoType ELSE resType
    /\ UNCHANGED <<resType, created>>

\* rg = ResourceGroupManager.createResourceGroup(rg)
Create ==
    /\ pc = "create"
    /\ created' = rgType
    /\ pc' = "type"
    /\ UNCHANGED <<resType, rgType>>

\* resType = getResourceTypeByNameAndPlugin("JBossAS 5 Server", "JBossAS5")
LookupType ==
    /\ pc = "type"
    /\ resType' = JBossAS5
    /\ pc' = "done"
    /\ UNCHANGED <<rgType, created>>

Next == CheckArgs \/ Build \/ Create \/ LookupType

Spec == Init /\ [][Next]_vars

-----------------------------------------------------------------------------
(***************************************************************************)
(* The script looks up the JBossAS 5 Server type to make the group a      *)
(* compatible group of that type: a group it creates has that type.       *)
(***************************************************************************)
CreatedGroupIsCompatible ==
    created # Undefined => created = JBossAS5

=============================================================================
