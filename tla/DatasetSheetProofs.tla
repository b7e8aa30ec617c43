--------------------------- MODULE DatasetSheetProofs ---------------------------
(***************************************************************************)
(* The properties of DatasetSheet hold for files of any rows and cells,    *)
(* any row count of the event, and any limits.                             *)
(***************************************************************************)
EXTENDS DatasetSheet, TLAPS

\* The rows so far are all in the stream writer or all in the sheet.
RowsInv ==
    /\ outputRow <= Len(csv) + 1
    /\ doLargeSheet => /\ streamed = 1..(outputRow - 1)
                       /\ pc = "rows" => rows = {}
    /\ ~doLargeSheet => rows = 1..(outputRow - 1)
    /\ pc = "nil" => outputRow = Len(csv) + 1 /\ rows = 1..Len(csv)

\* Each cell so far has been measured.
MeasuredInv ==
    ~doLargeSheet =>
        \A r \in 1..(outputRow - 1), c \in Column :
            c <= Len(csv[r]) => columnWidths[c] >= colStrLength(csv[r][c])

\* The widths that are set are those measured.
SetInv ==
    pc = "nil" /\ ~doLargeSheet =>
        \A c \in Column : columnWidths[c] # columNotSet => setWidths[c] = width(c)

IInv == TypeOK /\ RowsInv /\ MeasuredInv /\ SetInv /\ OnlyTooLargeFails

-----------------------------------------------------------------------------
\* A row of the file is a row of cells, and each length is a number.
LEMMA RowCells ==
    ASSUME TypeOK, NEW r \in 1..Len(csv)
    PROVE  /\ csv[r] \in Seq(Cell)
           /\ Len(csv[r]) \in Nat
           /\ \A c \in 1..Len(csv[r]) : colStrLength(csv[r][c]) \in Nat
<1>1. csv \in Seq(Seq(Cell))
    BY CsvAssumption DEF TypeOK
<1>2. csv[r] \in Seq(Cell)
    BY <1>1
<1>3. \A c \in 1..Len(csv[r]) : csv[r][c] \in Cell
    BY <1>2
<1>4. Len(csv[r]) \in Nat
    BY <1>2
<1>5. ASSUME NEW c \in 1..Len(csv[r])
      PROVE  colStrLength(csv[r][c]) \in Nat
    BY <1>3 DEF Cell, colStrLength
<1> QED
    BY <1>2, <1>4, <1>5

LEMMA FileLength ==
    ASSUME TypeOK
    PROVE  Len(csv) \in Nat
BY CsvAssumption DEF TypeOK

\* The new width of a column is no smaller than the old one, nor than its cell.
LEMMA Widest ==
    ASSUME TypeOK, NEW r \in 1..Len(csv), NEW c \in Column
    PROVE  /\ widest(c, csv[r]) \in Nat \cup {columNotSet}
           /\ widest(c, csv[r]) >= columnWidths[c]
           /\ c <= Len(csv[r]) => widest(c, csv[r]) >= colStrLength(csv[r][c])
<1>1. c \in Nat \ {0} /\ columnWidths[c] \in Nat \cup {-1}
    BY LimitAssumption DEF TypeOK, Column, columNotSet
<1>2. CASE c <= Len(csv[r])
    <2>1. colStrLength(csv[r][c]) \in Nat
        BY <1>1, <1>2, RowCells
    <2> QED
        BY <1>1, <1>2, <2>1 DEF widest, columNotSet
<1>3. CASE ~(c <= Len(csv[r]))
    BY <1>1, <1>3 DEF widest, columNotSet
<1> QED
    BY <1>2, <1>3

\* The initial states satisfy the invariant.
LEMMA InitIInv == Init => IInv
<1> SUFFICES ASSUME Init PROVE IInv
    OBVIOUS
<1>1. TypeOK
    BY DEF Init, TypeOK, firstRow
<1>2. RowsInv /\ MeasuredInv
    BY <1>1, FileLength DEF Init, RowsInv, MeasuredInv, firstRow
<1>3. SetInv /\ OnlyTooLargeFails
    BY DEF Init, SetInv, OnlyTooLargeFails
<1> QED
    BY <1>1, <1>2, <1>3 DEF IInv

\* So does the sheet with one more row.
LEMMA PlaceRowStep ==
    ASSUME IInv, PlaceRow
    PROVE  IInv'
<1>0. /\ TypeOK /\ RowsInv /\ MeasuredInv
      /\ Len(csv) \in Nat /\ outputRow \in 1..Len(csv)
      /\ UNCHANGED <<csv, rowCount, setWidths>>
      /\ doLargeSheet' = doLargeSheet
      /\ pc = "rows"
    BY FileLength DEF IInv, TypeOK, PlaceRow, inputs, doLargeSheet
<1>1. TypeOK' => MeasuredInv'
    <2>1. CASE doLargeSheet
        BY <1>0, <2>1 DEF MeasuredInv
    <2>2. CASE ~doLargeSheet
        <3>1. outputRow' \in {outputRow, outputRow + 1}
            BY DEF PlaceRow
        <3>2. columnWidths' = [c \in Column |-> widest(c, csv[outputRow])]
            BY <2>2 DEF PlaceRow
        <3> SUFFICES ASSUME NEW r \in 1..outputRow, NEW c \in Column, c <= Len(csv[r])
                     PROVE  columnWidths'[c] >= colStrLength(csv[r][c])
            BY <1>0, <3>1 DEF MeasuredInv
        <3>3. columnWidths'[c] = widest(c, csv[outputRow])
            BY <3>2
        <3>4. CASE r = outputRow
            BY <1>0, <3>3, <3>4, Widest
        <3>5. CASE r # outputRow
            <4>1. r \in 1..(outputRow - 1) /\ r \in 1..Len(csv) /\ c \in 1..Len(csv[r])
                BY <1>0, <3>5, RowCells, LimitAssumption DEF Column
            <4>2. columnWidths[c] >= colStrLength(csv[r][c])
                BY <1>0, <2>2, <4>1 DEF MeasuredInv
            <4>3. columnWidths[c] \in Int /\ colStrLength(csv[r][c]) \in Nat
                BY <1>0, <4>1, RowCells DEF TypeOK, columNotSet
            <4>4. /\ widest(c, csv[outputRow]) \in Int
                  /\ widest(c, csv[outputRow]) >= columnWidths[c]
                BY <1>0, Widest DEF columNotSet
            <4> QED
                BY <3>3, <4>2, <4>3, <4>4
        <3> QED
            BY <3>4, <3>5
    <2> QED
        BY <2>1, <2>2
<1>2. columnWidths' \in [Column -> Nat \cup {columNotSet}]
    <2>1. \A c \in Column : widest(c, csv[outputRow]) \in Nat \cup {columNotSet}
        BY <1>0, Widest
    <2> QED
        BY <1>0, <2>1 DEF PlaceRow, TypeOK
<1>3. CASE refused(outputRow) /\ pc' = "error"
    <2>1. UNCHANGED <<outputRow, streamed, rows>>
        BY <1>0, <1>3 DEF PlaceRow
    <2>2. TypeOK'
        BY <1>0, <1>2, <1>3, <2>1 DEF TypeOK
    <2>3. RowsInv'
        BY <1>0, <1>3, <2>1 DEF RowsInv
    <2>4. SetInv'
        BY <1>3 DEF SetInv
    <2>5. OnlyTooLargeFails'
        BY <1>0, <1>3, LimitAssumption DEF OnlyTooLargeFails, refused
    <2> QED
        BY <1>1, <2>2, <2>3, <2>4, <2>5 DEF IInv
<1>4. CASE ~refused(outputRow)
    <2>1. outputRow' = outputRow + 1 /\ pc' = "rows"
        BY <1>0, <1>4 DEF PlaceRow
    <2>2. SetInv' /\ OnlyTooLargeFails'
        BY <2>1 DEF SetInv, OnlyTooLargeFails
    <2>3. TypeOK' /\ RowsInv'
        <3>1. CASE doLargeSheet
            <4>1. streamed' = streamed \cup {outputRow} /\ UNCHANGED rows
                BY <1>4, <3>1 DEF PlaceRow
            <4> QED
                BY <1>0, <1>2, <2>1, <3>1, <4>1 DEF TypeOK, RowsInv
        <3>2. CASE ~doLargeSheet
            <4>1. rows' = rows \cup {outputRow} /\ UNCHANGED streamed
                BY <1>4, <3>2 DEF PlaceRow
            <4> QED
                BY <1>0, <1>2, <2>1, <3>2, <4>1 DEF TypeOK, RowsInv
        <3> QED
            BY <3>1, <3>2
    <2> QED
        BY <1>1, <2>2, <2>3 DEF IInv
<1> QED
    BY <1>3, <1>4 DEF PlaceRow

\* So does the end of a sheet: excelize takes every width that is set.
LEMMA EndStep ==
    ASSUME IInv, Flush \/ SetColWidths
    PROVE  IInv'
<1>0. /\ TypeOK /\ RowsInv /\ MeasuredInv
      /\ Len(csv) \in Nat
      /\ UNCHANGED <<csv, rowCount, outputRow, streamed, columnWidths>>
      /\ doLargeSheet' = doLargeSheet
      /\ outputRow = Len(csv) + 1
    <2>1. /\ TypeOK /\ RowsInv /\ MeasuredInv /\ Len(csv) \in Nat
          /\ UNCHANGED <<csv, rowCount, outputRow, streamed, columnWidths>>
          /\ outputRow > Len(csv)
        BY FileLength DEF IInv, Flush, SetColWidths, inputs
    <2> QED
        BY <2>1 DEF doLargeSheet, TypeOK, RowsInv
<1>1. MeasuredInv'
    BY <1>0 DEF MeasuredInv
<1>2. CASE Flush
    <2>1. doLargeSheet /\ pc = "rows" /\ pc' = "nil" /\ rows' = rows \cup streamed
          /\ UNCHANGED setWidths
        BY <1>2 DEF Flush, flushed
    <2>2. TypeOK'
        BY <1>0, <2>1 DEF TypeOK
    <2>3. RowsInv'
        BY <1>0, <2>1 DEF RowsInv
    <2>4. SetInv' /\ OnlyTooLargeFails'
        BY <1>0, <2>1 DEF SetInv, OnlyTooLargeFails
    <2> QED
        BY <1>1, <2>2, <2>3, <2>4 DEF IInv
<1>3. CASE SetColWidths
    <2>1. \A c \in measured : width(c) \in Nat /\ width(c) <= maxExcelizeColumnWidth
        BY <1>0, LimitAssumption DEF measured, width, TypeOK, columNotSet
    <2>2. /\ ~doLargeSheet /\ pc' = "nil" /\ UNCHANGED rows
          /\ setWidths' = [c \in Column |-> IF c \in measured THEN width(c) ELSE columNotSet]
        BY <1>3, <2>1 DEF SetColWidths
    <2>3. TypeOK'
        <3>1. setWidths' \in [Column -> Nat \cup {columNotSet}]
            BY <2>1, <2>2
        <3> QED
            BY <1>0, <2>2, <3>1 DEF TypeOK
    <2>4. RowsInv'
        BY <1>0, <2>2 DEF RowsInv
    <2>5. SetInv' /\ OnlyTooLargeFails'
        BY <1>0, <2>2 DEF SetInv, OnlyTooLargeFails, measured, width
    <2> QED
        BY <1>1, <2>3, <2>4, <2>5 DEF IInv
<1> QED
    BY <1>2, <1>3

LEMMA Invariance == Spec => []IInv
<1>1. ASSUME IInv, Returned \/ UNCHANGED vars
      PROVE  IInv'
    BY <1>1
    DEF Returned, vars, inputs, IInv, TypeOK, RowsInv, MeasuredInv, SetInv, width,
        doLargeSheet, OnlyTooLargeFails
<1>2. IInv /\ [Next]_vars => IInv'
    BY <1>1, PlaceRowStep, EndStep DEF Next
<1> QED
    BY InitIInv, <1>2, PTL DEF Spec

-----------------------------------------------------------------------------
\* Every variable of DatasetSheet keeps its type.
THEOREM TypeCorrect == Spec => []TypeOK
<1>1. IInv => TypeOK
    BY DEF IInv
<1> QED
    BY Invariance, <1>1, PTL

\* A sheet without error has every row, whatever the event says of their number.
THEOREM NilHasEveryRowHolds == Spec => []NilHasEveryRow
<1>1. IInv => NilHasEveryRow
    BY DEF IInv, RowsInv, NilHasEveryRow
<1> QED
    BY Invariance, <1>1, PTL

\* Only more rows or columns than Excel has make a sheet fail, no length of a cell.
THEOREM OnlyTooLargeFailsHolds == Spec => []OnlyTooLargeFails
<1>1. IInv => OnlyTooLargeFails
    BY DEF IInv
<1> QED
    BY Invariance, <1>1, PTL

\* The columns of a small sheet fit their texts and the %f form of their
\* numbers, up to the maximum width.
THEOREM TextsFitHolds == Spec => []TextsFit
<1>1. ASSUME IInv, pc = "nil", ~doLargeSheet,
             NEW r \in 1..Len(csv), NEW c \in Column, c <= Len(csv[r])
      PROVE  \/ setWidths[c] > colStrLength(csv[r][c])
             \/ setWidths[c] = maxExcelizeColumnWidth
    <2>1. r \in 1..(outputRow - 1) /\ c \in 1..Len(csv[r])
        BY <1>1, FileLength, RowCells, LimitAssumption DEF IInv, RowsInv, Column
    <2>2. colStrLength(csv[r][c]) \in Nat /\ columnWidths[c] \in Int
        BY <1>1, <2>1, RowCells DEF IInv, TypeOK, columNotSet
    <2>3. columnWidths[c] >= colStrLength(csv[r][c])
        BY <1>1, <2>1 DEF IInv, MeasuredInv
    <2>4. setWidths[c] = width(c)
        BY <1>1, <2>2, <2>3 DEF IInv, SetInv, columNotSet
    <2> QED
        BY <2>2, <2>3, <2>4, LimitAssumption DEF width
<1>2. IInv => TextsFit
    BY <1>1 DEF TextsFit, colStrLength
<1> QED
    BY Invariance, <1>2, PTL

=============================================================================
