------------------------------ MODULE MCCsvStream ------------------------------
(***************************************************************************)
(* Small instances of CsvStream for TLC: every file of at most MaxRows     *)
(* rows of every kind, so that a file spans several chunks.                *)
(***************************************************************************)
EXTENDS CsvStream

CONSTANT MaxRows     \* bound: the rows of a CSV file

MCFiles == UNION {[1..n -> RowKind] : n \in 0..MaxRows}
=============================================================================
