CONSTANTS
    r1 = r1
    r2 = r2
    Res <- MCRes
    MaxMembers <- MCMaxMembers

SPECIFICATION Spec

\* The script ends after its printout or on an uncaught exception.
CHECK_DEADLOCK FALSE

INVARIANT MetricOfEveryMember
