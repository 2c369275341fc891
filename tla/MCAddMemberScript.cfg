CONSTANTS
    Res = {r1, r2}

SPECIFICATION Spec

\* The script ends after adding, or on an uncaught exception.
CHECK_DEADLOCK FALSE

INVARIANT GroupFoundBeforeUse
