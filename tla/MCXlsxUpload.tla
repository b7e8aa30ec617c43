----------------------------- MODULE MCXlsxUpload -----------------------------
(***************************************************************************)
(* XlsxUpload for TLC: every workbook of at most MaxChunks chunks, for a   *)
(* published and for an unpublished subject.                               *)
(***************************************************************************)
EXTENDS XlsxUpload
=============================================================================
