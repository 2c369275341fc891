CONSTANTS
    r1 = r1
    r2 = r2
    r3 = r3
    Res <- MCRes
    MaxMembers <- MCMaxMembers

SPECIFICATION Spec

\* The script ends after its loop or on an uncaught exception.
CHECK_DEADLOCK FALSE

INVARIANT RejectedGroupUntouched
