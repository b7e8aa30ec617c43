------------------------------- MODULE SheetRows -------------------------------
(***************************************************************************)
(* The rows GetCSVtoExcelStructure leaves in the sheet when it returns nil *)
(* (handler.go:249-438): what the modules of the export agree upon.        *)
(***************************************************************************)

Sheet == {"none", "some", "all"}

\* All of them; when the context has ended, perhaps some (handler.go:306-314).
RowsReturned(ctxDone) == IF ctxDone THEN {"some", "all"} ELSE {"all"}
=============================================================================
