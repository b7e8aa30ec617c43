----------------------------- MODULE MCXlsxCreate -----------------------------
(***************************************************************************)
(* Small instances of XlsxCreate for TLC: two instances of the service, a  *)
(* dataset job and a filter job on the same dataset version.               *)
(***************************************************************************)
EXTENDS XlsxCreate, TLC

CONSTANTS w1, w2, dataset, filtered, unnamed, oversized

MCName == {"v1", "f1-v1"}
MCInstance == {"i1", ""}
MCFilterOutput == {"f1", ""}

\* An event of cantabular-csv-created as the upstream exporter fills it in.
csvCreated(rows, name, extension, output) ==
    [decodes |-> TRUE, instanceID |-> "i1", version |-> "v1", rowCount |-> rows,
     fileName |-> [base |-> name, ext |-> extension], filterOutputID |-> output]

\* The dataset job's file is named after the version, the filter jobs' are not;
\* all write their key under the version's path.  The workbook of unnamed takes
\* the place of its source.
MCEvent ==
    [m \in Message |->
        CASE m = dataset   -> csvCreated(1, "v1", "csv", "")
          [] m = filtered  -> csvCreated(1, "f1-v1", "csv", "f1")
          [] m = unnamed   -> csvCreated(1, "f1-v1", "", "f1")
          [] m = oversized -> csvCreated(MaxAllowedRowCount + 1, "v1", "csv", "")]

Workers == Permutations({w1, w2})
=============================================================================
