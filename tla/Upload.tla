--------------------------------- MODULE Upload ---------------------------------
(***************************************************************************)
(* What SaveExcelStructureToExcelFile promises: the workbook is put in the *)
(* bucket whole and in one step, after its key unless it is published, and *)
(* nil is returned only when it has been put.                              *)
(* XlsxUpload implements it; the steps WriteKey and UploadXLSXFile of      *)
(* XlsxCreate rely on it.                                                  *)
(***************************************************************************)
VARIABLES
    isPublished,
    state,      \* running, or returned with nil or error
    key,        \* is the key in the vault?
    object      \* what the bucket has: none, or the whole workbook

vars == <<isPublished, state, key, object>>

Init ==
    /\ isPublished \in BOOLEAN
    /\ state = "running"
    /\ key = FALSE
    /\ object = "none"

PutKey ==
    /\ state = "running" /\ ~isPublished /\ object = "none"
    /\ key' = TRUE
    /\ UNCHANGED <<isPublished, state, object>>

PutObject ==
    /\ state = "running" /\ (isPublished \/ key)
    /\ object' = "whole"
    /\ UNCHANGED <<isPublished, state, key>>

Return ==
    /\ state = "running"
    /\ state' \in IF object = "whole" THEN {"nil", "error"} ELSE {"error"}
    /\ UNCHANGED <<isPublished, key, object>>

Next == PutKey \/ PutObject \/ Return

Spec == Init /\ [][Next]_vars
=============================================================================
