----------------------------- MODULE DatasetSheet -----------------------------
(***************************************************************************)
(* The two ways Handle fills the dataset sheet (handler.go:116-129,        *)
(* 202-207, 249-258, 340-396, 409-434): a small file cell by cell, with    *)
(* the columns as wide as their contents, a large one through excelize's   *)
(* stream writer, whose rows are in the workbook once it is flushed.  The  *)
(* row count that chooses is the event's; the rows are the file's.         *)
(*                                                                         *)
(* The download, and every other failure of excelize, are CsvStream's:     *)
(* here rows arrive, and excelize refuses what is over its limits.  A row  *)
(* that it refuses half way is counted as none: the sheet is given up.     *)
(***************************************************************************)
EXTENDS Integers, Sequences

CONSTANTS
    Csvs,                     \* what the file may hold: sequences of rows of cells
    RowCounts,                \* what the event may say of it
    smallEnoughForFullFormat,
    maxSettableColumnWidths,
    maxExcelizeColumnWidth,   \* excelize refuses a wider column
    TotalRows,                \* excelize refuses a row after this one
    TotalColumns              \* and a row with more cells

\* What ParseFloat takes for a number is also known by the length of its %f form,
\* which may be longer than the text (1) or shorter (0.123456789, 1e-9, Infinity).
Cell == [length : Nat, isNumber : BOOLEAN, floatLength : Nat]

ASSUME CsvAssumption == Csvs \subseteq Seq(Seq(Cell)) /\ RowCounts \subseteq Int
ASSUME LimitAssumption ==
    /\ smallEnoughForFullFormat \in Nat /\ TotalRows \in Nat /\ TotalColumns \in Nat
    /\ maxSettableColumnWidths \in Nat /\ maxExcelizeColumnWidth \in Nat \ {0}

columNotSet == -1

VARIABLES
    csv, rowCount,  \* the file and the event
    pc,
    outputRow,
    streamed,       \* rows in the stream writer
    rows,           \* rows in the sheet
    columnWidths,   \* columnWidths[c]: longest colStr so far of column c, or columNotSet
    setWidths       \* setWidths[c]: width set for column c, or columNotSet

inputs == <<csv, rowCount>>
vars == <<inputs, pc, outputRow, streamed, rows, columnWidths, setWidths>>

Column == 1..maxSettableColumnWidths

\* Mutant: rows counted from zero.
RowZero == 0

firstRow == 1

Init ==
    /\ csv \in Csvs
    /\ rowCount \in RowCounts
    /\ pc = "rows"
    /\ outputRow = firstRow
    /\ streamed = {}
    /\ rows = {}
    /\ columnWidths = [c \in Column |-> columNotSet]
    /\ setWidths = [c \in Column |-> columNotSet]

doLargeSheet == ~(rowCount <= smallEnoughForFullFormat)

\* colStr is the %f form of a number, and else the text.
colStrLength(cell) == IF cell.isNumber THEN cell.floatLength ELSE cell.length

\* Mutant: the width of the last row.
lastWidth(c, row) == IF c <= Len(row) THEN colStrLength(row[c]) ELSE columnWidths[c]

widest(c, row) ==
    IF c <= Len(row) /\ colStrLength(row[c]) > columnWidths[c]
    THEN colStrLength(row[c]) ELSE columnWidths[c]

\* excelize has no such row, or not so many columns.
refused(row) == row > TotalRows \/ Len(csv[row]) > TotalColumns

\* The next row, measured, and placed unless excelize refuses it.
PlaceRow ==
    /\ pc = "rows" /\ outputRow <= Len(csv)
    /\ columnWidths' = IF doLargeSheet THEN columnWidths
                       ELSE [c \in Column |-> widest(c, csv[outputRow])]
    /\ \/ /\ refused(outputRow)
          /\ pc' = "error"
          /\ UNCHANGED <<outputRow, streamed, rows>>
       \/ /\ ~refused(outputRow)
          /\ outputRow' = outputRow + 1
          /\ IF doLargeSheet THEN streamed' = streamed \cup {outputRow} /\ UNCHANGED rows
                             ELSE rows' = rows \cup {outputRow} /\ UNCHANGED streamed
          /\ UNCHANGED pc
    /\ UNCHANGED <<inputs, setWidths>>

\* Mutant: the stream writer is not flushed.
NoFlush == rows

flushed == rows \cup streamed

Flush ==
    /\ pc = "rows" /\ outputRow > Len(csv)
    /\ doLargeSheet
    /\ rows' = flushed
    /\ pc' = "nil"
    /\ UNCHANGED <<inputs, outputRow, streamed, columnWidths, setWidths>>

\* Mutant: the space between columns comes on top of the cap.
SpaceAfterCap(c) == 1 + (IF columnWidths[c] > maxExcelizeColumnWidth
                         THEN maxExcelizeColumnWidth ELSE columnWidths[c])

\* One more for the space between columns; a column without a cell is left alone.
width(c) == IF columnWidths[c] + 1 > maxExcelizeColumnWidth
            THEN maxExcelizeColumnWidth ELSE columnWidths[c] + 1

measured == {c \in Column : columnWidths[c] # columNotSet}

\* excelize refuses a width over its maximum.
SetColWidths ==
    /\ pc = "rows" /\ outputRow > Len(csv)
    /\ ~doLargeSheet
    /\ IF \A c \in measured : width(c) <= maxExcelizeColumnWidth
       THEN /\ setWidths' = [c \in Column |-> IF c \in measured THEN width(c) ELSE columNotSet]
            /\ pc' = "nil"
       ELSE pc' = "error" /\ UNCHANGED setWidths
    /\ UNCHANGED <<inputs, outputRow, streamed, rows, columnWidths>>

Returned == pc \in {"nil", "error"} /\ UNCHANGED vars

Next == PlaceRow \/ Flush \/ SetColWidths \/ Returned

Spec == Init /\ [][Next]_vars

-----------------------------------------------------------------------------
\* Properties.

\* Every variable has its type; what is measured of a column is a length or none.
TypeOK ==
    /\ csv \in Csvs /\ rowCount \in RowCounts
    /\ pc \in {"rows", "nil", "error"}
    /\ outputRow \in Nat \ {0}
    /\ streamed \in SUBSET Nat /\ rows \in SUBSET Nat
    /\ columnWidths \in [Column -> Nat \cup {columNotSet}]
    /\ setWidths \in [Column -> Nat \cup {columNotSet}]

\* Whatever the event says of the number of rows, zero, less or too much, a sheet
\* without error has every row of the file (handler.go:118, 167, 409-411).
NilHasEveryRow == pc = "nil" => rows = 1..Len(csv)

\* Only a file that is longer or wider than an Excel sheet fails: no length of a
\* cell does, and no column after the last that is measured (handler.go:360, 422-425).
OnlyTooLargeFails ==
    pc = "error" => \/ Len(csv) > TotalRows
                    \/ \E r \in 1..Len(csv) : Len(csv[r]) > TotalColumns

\* In a small sheet each column whose width can be set is wider than each of its
\* texts and than the %f form of each of its numbers, or as wide as excelize lets
\* it be, whatever the order of its rows and their lengths (handler.go:340-366,
\* 417-434).
TextsFit ==
    pc = "nil" /\ ~doLargeSheet =>
        \A r \in 1..Len(csv), c \in Column : c <= Len(csv[r]) =>
            LET cell == csv[r][c]
            IN  \/ setWidths[c] > IF cell.isNumber THEN cell.floatLength ELSE cell.length
                \/ setWidths[c] = maxExcelizeColumnWidth
=============================================================================
