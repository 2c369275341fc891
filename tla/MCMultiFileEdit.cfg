CONSTANTS
    p1 = p1
    p2 = p2
    p3 = p3
    DevNull = DevNull
    None = None
    Paths <- MCPaths
    MaxVersion <- MCMaxVersion

SPECIFICATION Spec

SYMMETRY Symmetry

INVARIANT TypeOK
INVARIANT TextareaShowsCurrent
INVARIANT UnsavedWarningArmed
INVARIANT IndicatorsMatchDirty
INVARIANT RowHighlight
INVARIANT CleanMeansPristine
INVARIANT ReadOnlyStaysClean
