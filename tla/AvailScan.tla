----------------------------- MODULE AvailScan -----------------------------
(***************************************************************************)
(* The CLI sample avail.js (groupControl/scripts): it queries the          *)
(* resources matching the "RHQ Agent" criteria, keeps in place those whose *)
(* resource type id is the RHQ Agent type's id (a compaction loop over the *)
(* array with a write index idx), and then schedules an                    *)
(* executeAvailabilityScan operation on every element of the array.        *)
(*                                                                         *)
(* Indices are 0-based as in the script; element j of s is s[j+1].         *)
(***************************************************************************)
EXTENDS Integers, Sequences

CONSTANTS
    Ids,       \* resource ids the criteria query can return
    MaxFound   \* bound on the length of the query result

VARIABLES
    isAgent,    \* resources[i].resourceType.id == resType.id, per resource
    found,      \* the query result as it came back (for the properties)
    resources,  \* the script's array, compacted in place
    pc,         \* "filter", "scan" or "done"
    i,          \* index of the filter loop
    idx,        \* write index of the filter loop
    a,          \* index of the scan loop
    scheduled   \* resources an availability scan was scheduled on, in order

vars == <<isAgent, found, resources, pc, i, idx, a, scheduled>>

\* Query results: sequences of distinct ids of length at most MaxFound.
Results ==
    UNION {{s \in [1..n -> Ids] : \A x, y \in 1..n : x # y => s[x] # s[y]}
           : n \in 0..MaxFound}

Init ==
    /\ isAgent \in [Ids -> BOOLEAN]
    /\ found \in Results
    /\ resources = found
    /\ pc = "filter"
    /\ i = 0
    /\ idx = 0
    /\ a = 0
    /\ scheduled = << >>

\* Variant of the filter step that forgets to advance the write index.
FilterStepNoAdvance ==
    /\ pc = "filter"
    /\ i < Len(resources)
    /\ IF isAgent[resources[i + 1]]
       THEN resources' = [resources EXCEPT ![idx + 1] = resources[i + 1]]
       ELSE UNCHANGED resources
    /\ i' = i + 1
    /\ UNCHANGED <<isAgent, found, pc, idx, a, scheduled>>

\* One iteration of `for (i in resources)`: keep resources[i] if an agent.
FilterStep ==
    /\ pc = "filter"
    /\ i < Len(resources)
    /\ IF isAgent[resources[i + 1]]
       THEN /\ resources' = [resources EXCEPT ![idx + 1] = resources[i + 1]]
            /\ idx' = idx + 1
       ELSE UNCHANGED <<resources, idx>>
    /\ i' = i + 1
    /\ UNCHANGED <<isAgent, found, pc, a, scheduled>>

FilterDone ==
    /\ pc = "filter"
    /\ i >= Len(resources)
    /\ pc' = "scan"
    /\ UNCHANGED <<isAgent, found, resources, i, idx, a, scheduled>>

\* Variant of the scan step whose loop stops one element short.
ScanStepShort ==
    /\ pc = "scan"
    /\ a + 1 < Len(resources)
    /\ scheduled' = Append(scheduled, resources[a + 1])
    /\ a' = a + 1
    /\ UNCHANGED <<isAgent, found, resources, pc, i, idx>>

\* One iteration of `for (a in resources)`: scheduleResourceOperation.
ScanStep ==
    /\ pc = "scan"
    /\ a < Len(resources)
    /\ scheduled' = Append(scheduled, resources[a + 1])
    /\ a' = a + 1
    /\ UNCHANGED <<isAgent, found, resources, pc, i, idx>>

ScanDone ==
    /\ pc = "scan"
    /\ a >= Len(resources)
    /\ pc' = "done"
    /\ UNCHANGED <<isAgent, found, resources, i, idx, a, scheduled>>

Next == FilterStep \/ FilterDone \/ ScanStep \/ ScanDone

(***************************************************************************)
(* The CLI runs the script on one thread until it ends: some step is       *)
(* enabled in every state before "done", and the interpreter takes it.     *)
(***************************************************************************)
Spec == Init /\ [][Next]_vars /\ WF_vars(Next)

-----------------------------------------------------------------------------
TypeOK ==
    /\ isAgent \in [Ids -> BOOLEAN]
    /\ found \in Results
    /\ resources \in Seq(Ids)
    /\ pc \in {"filter", "scan", "done"}
    /\ {i, idx, a} \subseteq 0..MaxFound
    /\ scheduled \in Seq(Ids)

\* Reference definition: the agents of the query result, in query order.
Agents(s) == SelectSeq(s, LAMBDA r : isAgent[r])

(***************************************************************************)
(* The filter loop reads and writes the same array: once it has looked at  *)
(* i elements, the first idx elements are exactly the agents among the     *)
(* first i elements of the query result, in order, and the rest of the     *)
(* array is untouched.                                                     *)
(***************************************************************************)
CompactedPrefixIsFilter ==
    pc = "filter" =>
        /\ SubSeq(resources, 1, idx) = Agents(SubSeq(found, 1, i))
        /\ SubSeq(resources, i + 1, Len(resources))
               = SubSeq(found, i + 1, Len(found))

(***************************************************************************)
(* What the script announces ("Scanning all RHQ Agent instances") and its  *)
(* filter is for: the scans scheduled are exactly the agents found, each   *)
(* once.  The array is never truncated to idx, so the scan loop also       *)
(* visits the stale tail.                                                  *)
(***************************************************************************)
ScansExactlyTheAgents ==
    pc = "done" => scheduled = Agents(found)

(***************************************************************************)
(* Whatever the compaction does to the array, the script eventually has    *)
(* scheduled an availability scan on every agent the query returned: the   *)
(* filter loop must move each agent into the prefix the scan loop visits   *)
(* before a later write overwrites it, and both loops must end.            *)
(***************************************************************************)
EveryAgentScanned ==
    <>(\A j \in DOMAIN found :
          isAgent[found[j]] => \E k \in DOMAIN scheduled : scheduled[k] = found[j])

=============================================================================
