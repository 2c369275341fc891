CONSTANTS
    p1 = p1
    p2 = p2
    p3 = p3
    DevNull = DevNull
    None = None
    Paths <- MCRefPaths
    MaxVersion <- MCMaxVersion
    MCResetSelects = FALSE

SPECIFICATION Spec

PROPERTY ImplementsEditor
