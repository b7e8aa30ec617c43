------------------------------ MODULE XlsxUpload ------------------------------
(***************************************************************************)
(* SaveExcelStructureToExcelFile and UploadXLSXFile of handler/handler.go: *)
(* a goroutine writes the workbook into an io.Pipe, the S3 client uploads  *)
(* what it reads off the pipe.  For a subject that is not published the    *)
(* key of the upload is first made and written to the vault.               *)
(*                                                                         *)
(* A workbook is a number of chunks; every interleaving of the writer, the *)
(* upload and the end of the context is a behaviour.                       *)
(***************************************************************************)
EXTENDS Integers

CONSTANT MaxChunks      \* bound: the chunks of a workbook

ASSUME ChunksAssumption == MaxChunks \in Nat

VARIABLES
    isPublished,  \* argument: which bucket, and whether a key is needed
    chunks,       \* chunks of the workbook
    pc,           \* where SaveExcelStructureToExcelFile is
    ctxDone,      \* has the handler's context ended?
    key,          \* is the key of this upload in the vault?
    writer,       \* where the goroutine that writes the workbook is
    written,      \* chunks handed to the pipe
    pipe,         \* open, or closed with io.EOF or with an error
    read,         \* chunks the upload has read
    object        \* the chunks of the object S3 holds; -1: none was stored

vars == <<isPublished, chunks, pc, ctxDone, key, writer, written, pipe, read, object>>
inputs == <<isPublished, chunks>>
writerVars == <<writer, written>>
saveVars == <<pc, key, read, object>>

NoObject == -1

Init ==
    /\ isPublished \in BOOLEAN
    /\ chunks \in 0..MaxChunks
    /\ pc = "start"
    /\ ctxDone = FALSE
    /\ key = FALSE
    /\ writer = "none"
    /\ written = 0
    /\ pipe = "open"
    /\ read = 0
    /\ object = NoObject

\* A pipe keeps what it was closed with first.
Close(with) == pipe' = IF pipe = "open" THEN with ELSE pipe

-----------------------------------------------------------------------------
\* The goroutine that writes the workbook.

\* Write hands the pipe one more chunk, and blocks until it is read.
WriteChunk ==
    /\ writer = "writing" /\ written < chunks
    /\ writer' = "blocked"
    /\ written' = written + 1
    /\ UNCHANGED <<inputs, saveVars, ctxDone, pipe>>

\* The chunk has been read, or the pipe was closed under the Write.
WriteReturns ==
    /\ writer = "blocked"
    /\ \/ read = written /\ writer' = "writing"
       \/ pipe # "open" /\ writer' = "failed"
    /\ UNCHANGED <<inputs, saveVars, ctxDone, written, pipe>>

\* The whole workbook is written, or excelize fails to write it.
WriteEnds ==
    /\ writer = "writing"
    /\ \/ written = chunks /\ writer' = "written"
       \/ writer' = "failed"
    /\ UNCHANGED <<inputs, saveVars, ctxDone, written, pipe>>

\* Mutant: the error of Write does not reach the upload.
CloseAnyway ==
    /\ writer \in {"written", "failed"}
    /\ Close("eof")
    /\ writer' = "closed"
    /\ UNCHANGED <<inputs, saveVars, ctxDone, written>>

\* Close, or CloseWithError if Write failed.
CloseWriter ==
    /\ writer \in {"written", "failed"}
    /\ Close(IF writer = "failed" THEN "err" ELSE "eof")
    /\ writer' = "closed"
    /\ UNCHANGED <<inputs, saveVars, ctxDone, written>>

\* wgUpload.Done
WriterDone ==
    /\ writer = "closed"
    /\ writer' = "done"
    /\ UNCHANGED <<inputs, saveVars, ctxDone, written, pipe>>

Write == WriteChunk \/ WriteReturns \/ WriteEnds \/ CloseWriter \/ WriterDone

-----------------------------------------------------------------------------
\* The worker.

\* Mutant: every workbook is uploaded at once.
WithoutKey == "upload"

\* A subject that is not published needs a key first.
firstStep == IF isPublished THEN "upload" ELSE "key"

\* Mutant: the goroutine is not started.
NoGoroutine == UNCHANGED writer

goWrite == writer' = "writing"

StartWriter ==
    /\ pc = "start"
    /\ goWrite
    /\ pc' = firstStep
    /\ UNCHANGED <<inputs, ctxDone, key, written, pipe, read, object>>

\* NewPSK and WriteKey; a WriteKey that fails may have been applied.
WriteKey ==
    /\ pc = "key"
    /\ \/ pc' = "upload" /\ key' = TRUE
       \/ pc' = "failed" /\ key' \in BOOLEAN
    /\ UNCHANGED <<inputs, ctxDone, read, object, writerVars, pipe>>

\* A Write blocks with a chunk that is not read.
chunkOffered == writer = "blocked" /\ read < written

\* The upload takes the chunk a Write blocks with.
ReadChunk ==
    /\ pc = "upload" /\ pipe = "open"
    /\ chunkOffered
    /\ read' = read + 1
    /\ UNCHANGED <<inputs, ctxDone, pc, key, object, writerVars, pipe>>

\* The upload has read io.EOF: what it has read becomes the object.
UploadCompletes ==
    /\ pc = "upload" /\ pipe = "eof"
    /\ ~ctxDone
    /\ object' = read
    /\ pc' = "stored"
    /\ UNCHANGED <<inputs, ctxDone, key, read, writerVars, pipe>>

\* The upload reads an error, its context ends, or S3 fails, perhaps when it has
\* stored the object.
UploadFails ==
    /\ pc = "upload"
    /\ object' \in IF pipe = "eof" THEN {object, read} ELSE {object}
    /\ pc' = "failed"
    /\ UNCHANGED <<inputs, ctxDone, key, read, writerVars, pipe>>

\* Mutant: an upload that fails is tried again, with the rest of the pipe.
RetryUpload ==
    /\ pc = "failed"
    /\ pc' = "upload"
    /\ UNCHANGED <<inputs, ctxDone, key, read, object, writerVars, pipe>>

\* Mutant: the pipe is left open.
LeaveOpen == UNCHANGED pipe

\* xlsxWriter.Close lets a blocked Write return.
CloseOnError == Close("eof")

\* The error is returned at once, without a Wait.
ReturnError ==
    /\ pc = "failed"
    /\ CloseOnError
    /\ pc' = "error"
    /\ UNCHANGED <<inputs, ctxDone, key, read, object, writerVars>>

\* Mutant: no wgUpload.Wait.
DoNotWait == TRUE

wgUploadDone == writer = "done"

\* PathUnescape of the location may still fail; else wgUpload.Wait.
ReturnLocation ==
    /\ pc = "stored"
    /\ \/ pc' = "failed"
       \/ wgUploadDone /\ pc' = "nil"
    /\ UNCHANGED <<inputs, ctxDone, key, read, object, writerVars, pipe>>

SaveExcelStructureToExcelFile ==
    \/ StartWriter \/ WriteKey
    \/ ReadChunk \/ UploadCompletes \/ UploadFails
    \/ ReturnError \/ ReturnLocation

CancelContext ==
    /\ pc \notin {"nil", "error"} /\ ~ctxDone
    /\ ctxDone' = TRUE
    /\ UNCHANGED <<inputs, saveVars, writerVars, pipe>>

\* The worker has returned and the goroutine has ended.
Returned ==
    /\ pc \in {"nil", "error"} /\ writer = "done"
    /\ UNCHANGED vars

Next == SaveExcelStructureToExcelFile \/ Write \/ CancelContext \/ Returned

Spec == Init /\ [][Next]_vars

\* Goroutines are scheduled, and the calls to S3 and to the vault return.
Fairness == WF_vars(SaveExcelStructureToExcelFile) /\ WF_vars(Write)

FairSpec == Spec /\ Fairness

-----------------------------------------------------------------------------
\* Properties.

\* Every variable has its type, and there is a writer from the start on.
TypeOK ==
    /\ isPublished \in BOOLEAN
    /\ chunks \in 0..MaxChunks
    /\ pc \in {"start", "key", "upload", "stored", "failed", "nil", "error"}
    /\ ctxDone \in BOOLEAN
    /\ key \in BOOLEAN
    /\ writer \in {"none", "writing", "blocked", "written", "failed",
                  "closed", "done"}
    /\ writer = "none" <=> pc = "start"
    /\ written \in 0..chunks
    /\ pipe \in {"open", "eof", "err"}
    /\ read \in 0..written
    /\ object \in Nat \cup {NoObject}

\* An object in S3 is the whole workbook: no workbook that excelize failed to
\* write, or that a closed pipe cut short, is ever completed as an upload
\* (handler.go:460-467, 479-482).
StoredIsWhole == object # NoObject => object = chunks

\* The object of a subject that is not published is never in the bucket without
\* its key in the vault (handler.go:539-565).
KeyBeforeObject == object # NoObject /\ ~isPublished => key

\* A location is returned only when nothing of this upload is left running
\* (handler.go:492-495).
LocationEndsWriter == pc = "nil" => writer = "done" /\ object = chunks

\* The writer does not outlive the upload for ever: not even an upload that reads
\* nothing leaves it blocked in the pipe with the workbook (handler.go:479-482).
WriterEnds == <>[](writer = "done")

\* The worker and the writer never wait for each other, whatever the size of the
\* workbook and wherever the upload fails: one of them can go on, and needs no fault
\* to, until the worker has returned and the writer has ended (handler.go:456-495).
NoMutualWait ==
    \/ pc \in {"start", "key", "failed"}
    \/ pc = "upload" /\ (chunkOffered \/ pipe # "open")
    \/ writer \in {"writing", "written", "failed", "closed"}
    \/ writer = "blocked" /\ (read = written \/ pipe # "open")
    \/ writer = "done" /\ pc \in {"stored", "nil", "error"}

\* A bound on the steps that are left to the worker and the writer.
stepsLeft ==
    LET worker == [start |-> 5, key |-> 4, upload |-> 3, stored |-> 2, failed |-> 1,
                   nil |-> 0, error |-> 0]
        goroutine == [none |-> 3, writing |-> 3, blocked |-> 4, written |-> 2, failed |-> 2,
                      closed |-> 1, done |-> 0]
    IN  3 * (chunks - written) + (written - read) + worker[pc] + goroutine[writer]
            + (IF ctxDone THEN 0 ELSE 1)

\* Each step brings the upload and its writer nearer to their end: neither goes on
\* for ever, whatever the size of the workbook (handler.go:443-498).
EveryStepCounts == [][stepsLeft' \in 0..(stepsLeft - 1)]_vars

\* What the worker sees of it, as Upload has it.
Contract == INSTANCE Upload WITH
    state <- IF pc \in {"nil", "error"} THEN pc ELSE "running",
    object <- IF object = NoObject THEN "none"
              ELSE IF object = chunks THEN "whole" ELSE "part"

\* However the writer, the pipe and the upload interleave, the bucket sees one
\* step that puts the whole workbook, after its key, and nil is returned only
\* after it (handler.go:443-582).
ImplementsUpload == Contract!Spec

=============================================================================
