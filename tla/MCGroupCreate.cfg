CONSTANTS
    JBossAS5 = JBossAS5
    NoType = NoType
    Undefined = Undefined

SPECIFICATION Spec

\* The script ends after its last statement or on an uncaught exception.
CHECK_DEADLOCK FALSE

INVARIANT CreatedGroupIsCompatible
