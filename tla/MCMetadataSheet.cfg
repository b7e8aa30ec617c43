SPECIFICATION Spec
CONSTANTS
    Nil = Nil
    Requests <- MCRequests
    StaticText = 2
    maxExcelizeColumnWidth = 4
INVARIANTS
    TypeOK
    NilIsComplete
    WidthFits
PROPERTIES
    NoCellRewritten
