------------------------------- MODULE CsvStream -------------------------------
(***************************************************************************)
(* GetCSVtoExcelStructure of handler/handler.go and StreamAndWrite of      *)
(* handler/s3_stream_writer.go, over the successive jobs of one worker: a  *)
(* download goroutine copies the CSV object into an io.Pipe, the worker    *)
(* scans rows off the pipe and places them in the sheet.                   *)
(*                                                                         *)
(* A row is counted, not spelled out: fetched counts the rows read off S3, *)
(* offered those of them a blocked pipe Write still holds, buffered those  *)
(* in the scanner, placed those in the sheet.  The goroutine of a job may  *)
(* outlive the job, so what belongs to it is indexed by the job.           *)
(***************************************************************************)
EXTENDS Integers, Sequences

CONSTANTS
    Jobs,        \* bound: how many messages the worker handles, one by one
    Files,       \* what a CSV file may hold: sequences of RowKind
    MaxChunk     \* bound: the rows io.Copy reads off S3 at once

RowKind == {"row",        \* parses, and excelize takes it
            "bad",        \* no CSV record, or excelize refuses it
            "long"}       \* longer than a token of bufio.Scanner

ASSUME JobsAssumption == Jobs \in Nat
ASSUME FilesAssumption == Files \subseteq Seq(RowKind)
ASSUME ChunkAssumption == MaxChunk \in Nat \ {0}

Job == 1..Jobs

VARIABLES
    job,          \* the job the worker is in, or has ended last
    pc,           \* where the worker is
    ctxDone,      \* has the context of the worker's job ended?
    buffered,     \* rows in the scanner's buffer
    placed,       \* rows in the sheet: outputRow - 1
    file,         \* file[j]: the CSV object of job j
    download,     \* download[j]: where the download goroutine of job j is
    pipe,         \* pipe[j]: open, or closed with io.EOF or with an error
    fetched,      \* fetched[j]: rows read off S3
    offered       \* offered[j]: rows in the Write that blocks on the pipe

workerVars == <<job, pc, ctxDone, buffered, placed>>
downloadVars == <<download, pipe, fetched, offered>>
vars == <<workerVars, file, downloadVars>>

Init ==
    /\ job = 0
    /\ pc = "idle"
    /\ ctxDone = FALSE
    /\ buffered = 0
    /\ placed = 0
    /\ file = [j \in Job |-> <<>>]
    /\ download = [j \in Job |-> "none"]
    /\ pipe = [j \in Job |-> "open"]
    /\ fetched = [j \in Job |-> 0]
    /\ offered = [j \in Job |-> 0]

-----------------------------------------------------------------------------
At(j, label) == download' = [download EXCEPT ![j] = label]

\* A pipe keeps what it was closed with first.
ClosePipe(j, with) == pipe' = [pipe EXCEPT ![j] = IF @ = "open" THEN with ELSE @]

-----------------------------------------------------------------------------
\* The download goroutine of job j.

\* The context of the download ends with the worker's own, and the deferred
\* cancelDownload ends it when the job returns, in whatever way.
downloadCtxLive(j) ==
    j = job /\ pc \in {"style", "scan", "stopped", "scanned"} /\ ~ctxDone

\* ReadKey and GetWithPSK, or Get.  A call to S3 fails when its context has ended,
\* and may fail at any other time.
GetObject(j) ==
    /\ download[j] = "get"
    /\ (downloadCtxLive(j) /\ At(j, "copy")) \/ At(j, "fail")
    /\ UNCHANGED <<workerVars, file, pipe, fetched, offered>>

\* io.Copy reads some rows off S3, while the context of the body lives, and blocks
\* in a Write of them.
CopyChunk(j) ==
    /\ download[j] = "copy"
    /\ downloadCtxLive(j)
    /\ \E rows \in 1..MaxChunk :
          /\ fetched[j] + rows <= Len(file[j])
          /\ fetched' = [fetched EXCEPT ![j] = @ + rows]
          /\ offered' = [offered EXCEPT ![j] = rows]
    /\ At(j, "write")
    /\ UNCHANGED <<workerVars, file, pipe>>

\* The body of the object has been read, or fails.
CopyEnds(j) ==
    /\ download[j] = "copy"
    /\ \/ /\ fetched[j] = Len(file[j])
          /\ At(j, "close")
       \/ At(j, "fail")
    /\ UNCHANGED <<workerVars, file, pipe, fetched, offered>>

\* Write returns when its rows are all read, or when the pipe is closed under
\* it (io.ErrClosedPipe).  It knows no context.
WriteReturns(j) ==
    /\ download[j] = "write"
    /\ \/ /\ offered[j] = 0
          /\ At(j, "copy")
       \/ /\ pipe[j] # "open"
          /\ At(j, "fail")
    /\ UNCHANGED <<workerVars, file, pipe, fetched, offered>>

\* Mutant: the error of StreamAndWrite does not reach the reader.
CloseAnyway(j) ==
    /\ download[j] \in {"close", "fail"}
    /\ ClosePipe(j, "eof")
    /\ At(j, "done")
    /\ UNCHANGED <<workerVars, file, fetched, offered>>

\* Mutant: a download that fails is tried again.
CloseOrRetry(j) ==
    /\ download[j] \in {"close", "fail"}
    /\ IF download[j] = "fail" THEN At(j, "get") /\ UNCHANGED pipe
                              ELSE At(j, "done") /\ ClosePipe(j, "eof")
    /\ UNCHANGED <<workerVars, file, fetched, offered>>

\* Close, or CloseWithError if StreamAndWrite failed; then wgDownload.Done.
CloseWriter(j) ==
    /\ download[j] \in {"close", "fail"}
    /\ ClosePipe(j, IF download[j] = "fail" THEN "err" ELSE "eof")
    /\ At(j, "done")
    /\ UNCHANGED <<workerVars, file, fetched, offered>>

StreamAndWrite(j) ==
    GetObject(j) \/ CopyChunk(j) \/ CopyEnds(j) \/ WriteReturns(j) \/ CloseWriter(j)

-----------------------------------------------------------------------------
\* The worker.

\* Mutant: outputRow is not reset.
GoOnAtRow == placed

firstRow == 0

\* The next job: the download goroutine is started.
StartJob ==
    /\ pc = "idle" /\ job < Jobs
    /\ job' = job + 1
    /\ ctxDone' = FALSE
    /\ buffered' = 0
    /\ placed' = firstRow
    /\ \E csv \in Files : file' = [file EXCEPT ![job'] = csv]
    /\ At(job', "get")
    /\ pc' = "style"
    /\ UNCHANGED <<pipe, fetched, offered>>

\* NewStyle may fail, and the scan begins, while the download is under way.
NewStyle ==
    /\ pc = "style"
    /\ pc' \in {"scan", "error"}
    /\ UNCHANGED <<job, ctxDone, buffered, placed, file, downloadVars>>

\* The kind of the row the scanner is to return next.
nextRow == file[job][placed + 1]

\* The scanner has no row left and a Write blocks on the pipe.
scannerReads ==
    /\ pc = "scan" /\ buffered = 0
    /\ download[job] = "write" /\ pipe[job] = "open"

\* The scanner reads some of the rows the Write holds.
Read ==
    /\ scannerReads
    /\ \E rows \in 1..offered[job] :
          /\ \A r \in 1..rows : file[job][placed + r] # "long"
          /\ buffered' = rows
          /\ offered' = [offered EXCEPT ![job] = @ - rows]
    /\ UNCHANGED <<job, pc, ctxDone, placed, file, download, pipe, fetched>>

\* ErrTooLong ends the job; the Write may still hold the rest of the row.
ReadTooLong ==
    /\ scannerReads
    /\ offered[job] > 0 /\ nextRow = "long"
    /\ offered' \in {offered, [offered EXCEPT ![job] = @ - 1]}
    /\ pc' = "error"
    /\ UNCHANGED <<job, ctxDone, buffered, placed, file, download, pipe, fetched>>

\* Mutant: ctx.Done is waited for without closing the pipe.
WaitWithoutClose(j) == UNCHANGED pipe

\* Closing the pipe is what ends a download that blocks in a Write.
CloseOnDone(j) == ClosePipe(j, "eof")

\* The scanner has a row and the context has ended.
StopScanning ==
    /\ pc = "scan" /\ buffered > 0
    /\ ctxDone
    /\ CloseOnDone(job)
    /\ pc' = "stopped"
    /\ UNCHANGED <<job, ctxDone, buffered, placed, file, download, fetched, offered>>

\* The scanner has a row: parsed, and put in the sheet.
PlaceRow ==
    /\ pc = "scan" /\ buffered > 0 /\ nextRow = "row"
    /\ ~ctxDone
    /\ buffered' = buffered - 1
    /\ placed' = placed + 1
    /\ UNCHANGED <<job, pc, ctxDone, file, downloadVars>>

\* A row that is no record, or that excelize refuses, ends the job at once: the
\* pipe is left open.
RowFails ==
    /\ pc = "scan" /\ buffered > 0 /\ nextRow = "bad"
    /\ ~ctxDone
    /\ pc' = "error"
    /\ UNCHANGED <<job, ctxDone, buffered, placed, file, downloadVars>>

\* The scanner reads the end of the pipe; Err is nil only at io.EOF.
ScanEnds ==
    /\ pc = "scan" /\ buffered = 0
    /\ pipe[job] # "open"
    /\ pc' = IF pipe[job] = "eof" THEN "scanned" ELSE "error"
    /\ UNCHANGED <<job, ctxDone, buffered, placed, file, downloadVars>>

\* Mutant: no wgDownload.Wait.
DoNotWait == TRUE

wgDownloadDone == download[job] = "done"

\* wgDownload.Wait, and the return of errors.Wrap(nil), which is nil.
ReturnStopped ==
    /\ pc = "stopped" /\ wgDownloadDone
    /\ pc' = "nil"
    /\ UNCHANGED <<job, ctxDone, buffered, placed, file, downloadVars>>

\* wgDownload.Wait, then Flush or the column widths, which may fail.
FinishSheet ==
    /\ pc = "scanned" /\ wgDownloadDone
    /\ pc' \in {"nil", "error"}
    /\ UNCHANGED <<job, ctxDone, buffered, placed, file, downloadVars>>

\* The rest of the handler; then the worker takes the next message.
EndJob ==
    /\ pc \in {"nil", "error"}
    /\ pc' = "idle"
    /\ UNCHANGED <<job, ctxDone, buffered, placed, file, downloadVars>>

GetCSVtoExcelStructure ==
    \/ StartJob \/ NewStyle
    \/ Read \/ ReadTooLong \/ StopScanning \/ PlaceRow \/ RowFails \/ ScanEnds
    \/ ReturnStopped \/ FinishSheet \/ EndJob

-----------------------------------------------------------------------------
CancelContext ==
    /\ pc \notin {"idle", "nil", "error"} /\ ~ctxDone
    /\ ctxDone' = TRUE
    /\ UNCHANGED <<job, pc, buffered, placed, file, downloadVars>>

\* All messages are handled; a download may still be blocked in its Write.
AllHandled ==
    /\ pc = "idle" /\ job = Jobs
    /\ UNCHANGED vars

Next ==
    \/ GetCSVtoExcelStructure
    \/ \E j \in Job : StreamAndWrite(j)
    \/ CancelContext
    \/ AllHandled

Spec == Init /\ [][Next]_vars

\* Goroutines are scheduled, and the calls to S3 and to the vault return.
Fairness ==
    /\ WF_vars(GetCSVtoExcelStructure)
    /\ \A j \in Job : WF_vars(StreamAndWrite(j))

FairSpec == Spec /\ Fairness

-----------------------------------------------------------------------------
\* Properties.

\* Every variable has its type; a sheet has at most the rows of its file.
TypeOK ==
    /\ job \in 0..Jobs
    /\ pc \in {"idle", "style", "scan", "stopped", "scanned", "nil", "error"}
    /\ pc # "idle" => job # 0
    /\ ctxDone \in BOOLEAN
    /\ buffered \in Nat
    /\ placed \in Nat
    /\ job # 0 => placed <= Len(file[job])
    /\ file \in [Job -> Seq(RowKind)]
    /\ download \in [Job -> {"none", "get", "copy", "write", "close", "fail", "done"}]
    /\ pipe \in [Job -> {"open", "eof", "err"}]
    /\ fetched \in [Job -> Nat]
    /\ offered \in [Job -> Nat]

\* A sheet that GetCSVtoExcelStructure returns without error, its context live,
\* holds every row of the CSV file: a download that fails half way is never
\* taken for the end of the file (handler.go:286-292, 398-402).
NilIsWhole == pc = "nil" /\ ~ctxDone => placed = Len(file[job])

\* Without error also means that the job's download is over: the goroutine, its
\* S3 body and its logs do not reach into the next steps (handler.go:313, 404-407).
NilEndsDownload == pc = "nil" => download[job] = "done"

\* What the worker sees of its jobs, as SheetJob has it.
Contract == INSTANCE SheetJob WITH
    state <- IF pc \in {"style", "scan", "stopped", "scanned"} THEN "busy" ELSE pc,
    sheet <- IF pc # "nil" THEN "none"
             ELSE IF placed = Len(file[job]) THEN "all" ELSE "some"

\* The worker never hangs on a job, whatever the file, S3 and the context do:
\* no scanner waits for a writer that waits for the scanner (handler.go:306-313).
EveryJobReturns == Contract!EveryJobReturns

\* The scanner never waits for a row that no download is to bring, nor
\* wgDownload.Wait for a Write that nobody is to end: whatever the file and the
\* interleaving, the worker or its download can go on (handler.go:306-313).
NoMutualWait == pc # "idle" =>
    \/ pc \in {"style", "nil", "error"}
    \/ pc = "scan" /\ buffered > 0 /\ (ctxDone \/ nextRow \in {"row", "bad"})
    \/ pc = "scan" /\ buffered = 0 /\ pipe[job] # "open"
    \/ scannerReads /\ offered[job] > 0
    \/ pc \in {"stopped", "scanned"} /\ wgDownloadDone
    \/ download[job] \in {"get", "copy", "close", "fail"}
    \/ download[job] = "write" /\ (offered[job] = 0 \/ pipe[job] # "open")

\* A bound on the steps a job still takes: those of the worker and of the download
\* as they stand, the end of the context, and those of each row on its way.
workerSteps ==
    [idle |-> 0, nil |-> 1, error |-> 1, stopped |-> 2, scanned |-> 2, scan |-> 3,
     style |-> 4][pc]
downloadSteps ==
    [none |-> 0, done |-> 0, close |-> 1, fail |-> 1, copy |-> 2, get |-> 3, write |-> 3]
    [download[job]]
contextSteps == IF ctxDone THEN 0 ELSE 1
rowSteps == 4 * (Len(file[job]) - fetched[job]) + 2 * offered[job] + buffered
stepsLeft == workerSteps + downloadSteps + contextSteps + rowSteps

\* No step of a job, of its download or of its context is ever done in vain: each
\* brings the job nearer to its end, so that no file, and no order in which rows
\* are read, offered and placed, makes it go on for ever (handler.go:306-402).
EveryStepCounts ==
    [][pc # "idle" =>
          \/ stepsLeft' \in 0..(stepsLeft - 1)
          \/ UNCHANGED <<workerVars, file[job], download[job], pipe[job], fetched[job],
                         offered[job]>>]_vars

\* However the download, the pipe, the scanner and the end of the context
\* interleave, the worker sees one step with the outcomes that the rest of the
\* export is written for (handler.go:249-438).
ImplementsSheetJob == Contract!Spec

\* The Write of j holds the rest of a chunk of which the scanner has read a part.
heldInWrite(j) ==
    /\ download[j] = "write" /\ pipe[j] = "open"
    /\ 0 < offered[j] /\ offered[j] < fetched[j]

\* "Do NOT EVER make this bigger than '1'" (initialise.go:31): the parts of one
\* CSV file at most are held in memory.  But a job that fails at a row leaves the
\* rest of it in a Write that nobody reads from again and no context ends: its
\* chunk, its S3 body and its goroutine are held for ever.
AtMostOneDownload == \A i, j \in Job : heldInWrite(i) /\ heldInWrite(j) => i = j

\* "parent context closed in GetCSVtoExcelStructure" (handler.go:314) is an
\* error: no part of a file is returned without one.
CancelledIsError == pc = "nil" => placed = Len(file[job])

=============================================================================
