SPECIFICATION Spec
CONSTANTS
    Csvs <- MCCsvs
    RowCounts <- MCRowCounts
    smallEnoughForFullFormat = 2
    maxSettableColumnWidths = 2
    maxExcelizeColumnWidth = 11
    TotalRows = 3
    TotalColumns = 3
INVARIANTS
    TypeOK
    NilHasEveryRow
    OnlyTooLargeFails
    TextsFit
