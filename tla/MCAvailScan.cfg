CONSTANTS
    r1 = r1
    r2 = r2
    r3 = r3
    Ids <- MCIds
    MaxFound <- MCMaxFound

SPECIFICATION Spec

\* The script ends after its scan loop.
CHECK_DEADLOCK FALSE

INVARIANT CompactedPrefixIsFilter
PROPERTY EveryAgentScanned
