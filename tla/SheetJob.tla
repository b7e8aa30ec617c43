-------------------------------- MODULE SheetJob --------------------------------
(***************************************************************************)
(* What GetCSVtoExcelStructure promises to the worker that calls it, job   *)
(* after job: it returns, with an error or with every row of the file, and *)
(* only if the context has ended perhaps with less.  CsvStream implements  *)
(* it; the step GetCSVtoExcelStructure of XlsxCreate relies on it.         *)
(***************************************************************************)
EXTENDS Naturals, SheetRows

CONSTANT Jobs        \* how many jobs there are

VARIABLES
    job,        \* the job the worker is in, or has ended last
    state,      \* idle, busy, or returned with nil or error
    ctxDone,    \* has the job's context ended?
    sheet       \* the rows a return with nil left in the sheet; else none

vars == <<job, state, ctxDone, sheet>>

Init == job = 0 /\ state = "idle" /\ ctxDone = FALSE /\ sheet = "none"

Start ==
    /\ state = "idle" /\ job < Jobs
    /\ job' = job + 1
    /\ state' = "busy"
    /\ ctxDone' = FALSE
    /\ UNCHANGED sheet

Return ==
    /\ state = "busy"
    /\ \/ state' = "nil" /\ sheet' \in RowsReturned(ctxDone)
       \/ state' = "error" /\ UNCHANGED sheet
    /\ UNCHANGED <<job, ctxDone>>

End ==
    /\ state \in {"nil", "error"}
    /\ state' = "idle"
    /\ sheet' = "none"
    /\ UNCHANGED <<job, ctxDone>>

CancelContext ==
    /\ state = "busy" /\ ~ctxDone
    /\ ctxDone' = TRUE
    /\ UNCHANGED <<job, state, sheet>>

Next == Start \/ Return \/ End \/ CancelContext

Spec == Init /\ [][Next]_vars

\* The worker never hangs on a job.
EveryJobReturns == state # "idle" ~> state = "idle"
=============================================================================
