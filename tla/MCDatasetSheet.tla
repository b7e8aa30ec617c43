---------------------------- MODULE MCDatasetSheet ----------------------------
(***************************************************************************)
(* Small instances of DatasetSheet for TLC: rows of different lengths, one *)
(* longer than the settable columns and one longer than a sheet, with      *)
(* texts at and over the maximum width, numbers longer and shorter in      *)
(* their %f form, and files one row longer than a sheet.                   *)
(***************************************************************************)
EXTENDS DatasetSheet

text(length) == [length |-> length, isNumber |-> FALSE, floatLength |-> 0]

number(length, floatLength) ==
    [length |-> length, isNumber |-> TRUE, floatLength |-> floatLength]

\* 1 is 1.000000, 123 is 123.000000 and 0.123456789 is 0.123457.
MCRows == {<<text(0)>>, <<text(4), number(1, 8)>>, <<number(3, 10), text(9)>>,
           <<number(11, 8), text(11), text(12)>>, <<text(10), text(1), text(1), text(1)>>}

MCCsvs == UNION {[1..n -> MCRows] : n \in 0..4}
MCRowCounts == {-1, 0, 2, 3}
=============================================================================
