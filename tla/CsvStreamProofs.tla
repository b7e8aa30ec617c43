---------------------------- MODULE CsvStreamProofs ----------------------------
(***************************************************************************)
(* The safety properties of CsvStream hold for any number of jobs, any     *)
(* files and any chunk size.                                               *)
(***************************************************************************)
EXTENDS CsvStream, SequenceTheorems, TLAPS

\* A download is at most at the end of its file, holds rows only in a Write (or
\* when that Write failed), and closes without error only at the end.
DownloadInv ==
    \A j \in Job :
        /\ fetched[j] <= Len(file[j])
        /\ download[j] \in {"none", "get", "copy", "close"} => offered[j] = 0
        /\ download[j] = "close" => fetched[j] = Len(file[j])
        /\ j > job => /\ download[j] = "none"
                      /\ pipe[j] = "open"
                      /\ fetched[j] = 0

\* From the start of a job to the end of the scan no row is lost or duplicated between S3 and the
\* sheet, and an io.EOF is the end of the file.
ScanInv ==
    pc \in {"style", "scan", "scanned"} =>
        /\ placed + buffered + offered[job] = fetched[job]
        /\ pipe[job] # "open" => download[job] = "done"
        /\ pipe[job] = "eof" => fetched[job] = Len(file[job]) /\ offered[job] = 0
        /\ pc = "scanned" => buffered = 0 /\ pipe[job] = "eof"

\* What each way to return without error knows.
ReturnInv ==
    /\ pc = "stopped" => ctxDone
    /\ pc = "nil" => /\ download[job] = "done"
                     /\ ctxDone \/ placed = Len(file[job])

IInv == TypeOK /\ DownloadInv /\ ScanInv /\ ReturnInv

-----------------------------------------------------------------------------
\* Len of a file is a natural number, and a file is one of Files or still empty.
LEMMA FileLen ==
    ASSUME TypeOK, NEW j \in Job
    PROVE  Len(file[j]) \in Nat
BY DEF TypeOK

\* The initial states satisfy the invariant.
LEMMA InitIInv == Init => IInv
<1> SUFFICES ASSUME Init PROVE IInv
    OBVIOUS
<1> USE JobsAssumption
<1>1. TypeOK
    <2>1. <<>> \in Seq(RowKind)
        BY EmptySeq
    <2>2. file \in [Job -> Seq(RowKind)]
        BY <2>1 DEF Init
    <2>3. job \in 0..Jobs
        BY DEF Init
    <2> QED
        BY <2>2, <2>3 DEF Init, TypeOK
<1>2. DownloadInv
    BY <1>1, FileLen DEF Init, DownloadInv, Job
<1>3. ScanInv /\ ReturnInv
    BY DEF Init, ScanInv, ReturnInv
<1> QED
    BY <1>1, <1>2, <1>3 DEF IInv

\* A step of a download goroutine, of this job or of an earlier one, keeps it.
LEMMA DownloadStep ==
    ASSUME IInv, NEW j \in Job, StreamAndWrite(j)
    PROVE  IInv'
<1> USE JobsAssumption, ChunkAssumption
<1>0. /\ TypeOK /\ DownloadInv /\ ScanInv /\ ReturnInv
      /\ UNCHANGED <<workerVars, file>>
      /\ pc # "idle" => job \in Job
      /\ \A i \in Job : Len(file[i]) \in Nat
    <2>1. TypeOK /\ DownloadInv /\ ScanInv /\ ReturnInv
        BY DEF IInv
    <2>2. UNCHANGED <<workerVars, file>>
        BY DEF StreamAndWrite, GetObject, CopyChunk, CopyEnds, WriteReturns, CloseWriter
    <2>3. pc # "idle" => job \in Job
        BY <2>1 DEF TypeOK, Job
    <2>4. \A i \in Job : Len(file[i]) \in Nat
        BY <2>1, FileLen
    <2> QED
        BY <2>1, <2>2, <2>3, <2>4
<1>1. CASE GetObject(j)
    <2>1. TypeOK'
        BY <1>0, <1>1 DEF GetObject, At, TypeOK, workerVars
    <2>2. DownloadInv'
        BY <1>0, <1>1 DEF GetObject, At, TypeOK, DownloadInv, workerVars
    <2>3. ScanInv' /\ ReturnInv'
        BY <1>0, <1>1 DEF GetObject, At, TypeOK, ScanInv, ReturnInv, workerVars
    <2> QED
        BY <2>1, <2>2, <2>3 DEF IInv
<1>2. CASE CopyChunk(j)
    <2>1. TypeOK'
        BY <1>0, <1>2 DEF CopyChunk, At, TypeOK, workerVars
    <2>2. DownloadInv'
        BY <1>0, <1>2 DEF CopyChunk, At, TypeOK, DownloadInv, workerVars
    <2>3. ScanInv' /\ ReturnInv'
        BY <1>0, <1>2 DEF CopyChunk, At, TypeOK, DownloadInv, ScanInv, ReturnInv, workerVars
    <2> QED
        BY <2>1, <2>2, <2>3 DEF IInv
<1>3. CASE CopyEnds(j)
    <2>1. TypeOK'
        BY <1>0, <1>3 DEF CopyEnds, At, TypeOK, workerVars
    <2>2. DownloadInv'
        BY <1>0, <1>3 DEF CopyEnds, At, TypeOK, DownloadInv, workerVars
    <2>3. ScanInv' /\ ReturnInv'
        BY <1>0, <1>3 DEF CopyEnds, At, TypeOK, ScanInv, ReturnInv, workerVars
    <2> QED
        BY <2>1, <2>2, <2>3 DEF IInv
<1>4. CASE WriteReturns(j)
    <2>1. TypeOK'
        BY <1>0, <1>4 DEF WriteReturns, At, TypeOK, workerVars
    <2>2. DownloadInv'
        BY <1>0, <1>4 DEF WriteReturns, At, TypeOK, DownloadInv, workerVars
    <2>3. ScanInv' /\ ReturnInv'
        BY <1>0, <1>4 DEF WriteReturns, At, TypeOK, ScanInv, ReturnInv, workerVars
    <2> QED
        BY <2>1, <2>2, <2>3 DEF IInv
<1>5. CASE CloseWriter(j)
    <2>1. TypeOK'
        BY <1>0, <1>5 DEF CloseWriter, ClosePipe, At, TypeOK, workerVars
    <2>2. DownloadInv'
        BY <1>0, <1>5 DEF CloseWriter, ClosePipe, At, TypeOK, DownloadInv, workerVars
    <2>3. ScanInv' /\ ReturnInv'
        BY <1>0, <1>5 DEF CloseWriter, ClosePipe, At, TypeOK, DownloadInv, ScanInv,
                          ReturnInv, workerVars
    <2> QED
        BY <2>1, <2>2, <2>3 DEF IInv
<1> QED
    BY <1>1, <1>2, <1>3, <1>4, <1>5 DEF StreamAndWrite

\* A step of the worker keeps it.
LEMMA WorkerStep ==
    ASSUME IInv, GetCSVtoExcelStructure
    PROVE  IInv'
<1> USE JobsAssumption
<1>0. /\ TypeOK /\ DownloadInv /\ ScanInv /\ ReturnInv
      /\ pc # "idle" => job \in Job
      /\ \A i \in Job : Len(file[i]) \in Nat
    <2>1. TypeOK /\ DownloadInv /\ ScanInv /\ ReturnInv
        BY DEF IInv
    <2>2. pc # "idle" => job \in Job
        BY <2>1 DEF TypeOK, Job
    <2>3. \A i \in Job : Len(file[i]) \in Nat
        BY <2>1, FileLen
    <2> QED
        BY <2>1, <2>2, <2>3
<1>1. CASE StartJob
    <2>1. /\ job' = job + 1 /\ job' \in Job /\ job' > job
          /\ ctxDone' = FALSE /\ buffered' = 0 /\ placed' = 0
          /\ download' = [download EXCEPT ![job'] = "get"]
          /\ pc' = "style"
          /\ UNCHANGED <<pipe, fetched, offered>>
        BY <1>0, <1>1 DEF StartJob, firstRow, At, TypeOK, Job
    <2>2. PICK csv \in Seq(RowKind) : file' = [file EXCEPT ![job'] = csv]
        BY <1>1, FilesAssumption DEF StartJob
    <2>3. /\ pipe[job'] = "open" /\ fetched[job'] = 0 /\ offered[job'] = 0
          /\ download'[job'] = "get" /\ file'[job'] = csv /\ Len(csv) \in Nat
        BY <1>0, <2>1, <2>2 DEF TypeOK, DownloadInv
    <2>4. TypeOK'
        <3>1. job' \in 0..Jobs /\ job' # 0
            BY <2>1 DEF Job
        <3>2. file' \in [Job -> Seq(RowKind)]
            BY <1>0, <2>2 DEF TypeOK
        <3>3. download' \in [Job -> {"none", "get", "copy", "write", "close",
                                    "fail", "done"}]
            BY <1>0, <2>1 DEF TypeOK
        <3> QED
            <4>1. placed' <= Len(file'[job'])
                BY <2>1, <2>3
            <4>2. /\ placed' \in Nat /\ buffered' \in Nat /\ ctxDone' \in BOOLEAN
                  /\ pc' \in {"idle", "style", "scan", "stopped", "scanned", "nil",
                             "error"}
                BY <2>1
            <4> QED
                BY <1>0, <2>1, <3>1, <3>2, <3>3, <4>1, <4>2 DEF TypeOK
    <2>5. DownloadInv'
        <3> SUFFICES ASSUME NEW j \in Job
                     PROVE  /\ fetched[j] <= Len(file'[j])
                            /\ download'[j] \in {"none", "get", "copy", "close"} => offered[j] = 0
                            /\ download'[j] = "close" => fetched[j] = Len(file'[j])
                            /\ j > job' => /\ download'[j] = "none"
                                           /\ pipe[j] = "open"
                                           /\ fetched[j] = 0
            BY <2>1 DEF DownloadInv
        <3>1. CASE j = job'
            BY <2>1, <2>3, <3>1 DEF Job
        <3>2. CASE j # job'
            <4>1. file'[j] = file[j] /\ download'[j] = download[j]
                BY <1>0, <2>1, <2>2, <3>2 DEF TypeOK
            <4>2. j > job' => j > job
                BY <1>0, <2>1 DEF TypeOK, Job
            <4> QED
                BY <1>0, <4>1, <4>2 DEF DownloadInv
        <3> QED
            BY <3>1, <3>2
    <2>6. ScanInv' /\ ReturnInv'
        BY <2>1, <2>3 DEF ScanInv, ReturnInv
    <2> QED
        BY <2>4, <2>5, <2>6 DEF IInv
<1>2. CASE Read
    <2>1. TypeOK'
        BY <1>0, <1>2 DEF Read, scannerReads, TypeOK, downloadVars
    <2>2. DownloadInv'
        BY <1>0, <1>2 DEF Read, scannerReads, TypeOK, DownloadInv, downloadVars
    <2>3. ScanInv'
        BY <1>0, <1>2 DEF Read, scannerReads, TypeOK, DownloadInv, ScanInv, downloadVars
    <2>4. ReturnInv'
        BY <1>0, <1>2 DEF Read, scannerReads, TypeOK, ScanInv, ReturnInv, downloadVars
    <2> QED
        BY <2>1, <2>2, <2>3, <2>4 DEF IInv
<1>3. CASE ReadTooLong
    <2>1. TypeOK'
        <3>1. offered' \in [Job -> Nat]
            <4>1. offered \in [Job -> Nat] /\ job \in Job /\ offered[job] > 0
                BY <1>0, <1>3 DEF ReadTooLong, scannerReads, TypeOK
            <4>2. offered[job] - 1 \in Nat
                BY <4>1
            <4>3. offered' \in {offered, [offered EXCEPT ![job] = offered[job] - 1]}
                BY <1>3 DEF ReadTooLong
            <4> QED
                BY <4>1, <4>2, <4>3
        <3> QED
            BY <1>0, <1>3, <3>1 DEF ReadTooLong, scannerReads, TypeOK
    <2>2. DownloadInv'
        BY <1>0, <1>3 DEF ReadTooLong, scannerReads, TypeOK, DownloadInv, downloadVars
    <2>3. ScanInv'
        BY <1>0, <1>3 DEF ReadTooLong, scannerReads, TypeOK, DownloadInv, ScanInv, downloadVars
    <2>4. ReturnInv'
        BY <1>0, <1>3 DEF ReadTooLong, scannerReads, TypeOK, ScanInv, ReturnInv, downloadVars
    <2> QED
        BY <2>1, <2>2, <2>3, <2>4 DEF IInv
<1>4. CASE StopScanning
    <2>1. TypeOK'
        BY <1>0, <1>4 DEF StopScanning, CloseOnDone, ClosePipe, TypeOK, downloadVars
    <2>2. DownloadInv'
        BY <1>0, <1>4 DEF StopScanning, CloseOnDone, ClosePipe, TypeOK, DownloadInv, downloadVars
    <2>3. ScanInv'
        BY <1>0, <1>4 DEF StopScanning, CloseOnDone, ClosePipe, TypeOK, DownloadInv, ScanInv, downloadVars
    <2>4. ReturnInv'
        BY <1>0, <1>4 DEF StopScanning, CloseOnDone, ClosePipe, TypeOK, ScanInv, ReturnInv, downloadVars
    <2> QED
        BY <2>1, <2>2, <2>3, <2>4 DEF IInv
<1>5. CASE PlaceRow
    <2>1. TypeOK'
        <3>1. placed + 1 <= Len(file[job])
            BY <1>0, <1>5 DEF PlaceRow, TypeOK, DownloadInv, ScanInv
        <3> QED
            BY <1>0, <1>5, <3>1 DEF PlaceRow, TypeOK, downloadVars
    <2>2. DownloadInv'
        BY <1>0, <1>5 DEF PlaceRow, TypeOK, DownloadInv, downloadVars
    <2>3. ScanInv'
        BY <1>0, <1>5 DEF PlaceRow, TypeOK, DownloadInv, ScanInv, downloadVars
    <2>4. ReturnInv'
        BY <1>0, <1>5 DEF PlaceRow, TypeOK, ScanInv, ReturnInv, downloadVars
    <2> QED
        BY <2>1, <2>2, <2>3, <2>4 DEF IInv
<1>6. CASE RowFails
    <2>1. TypeOK'
        BY <1>0, <1>6 DEF RowFails, TypeOK, downloadVars
    <2>2. DownloadInv'
        BY <1>0, <1>6 DEF RowFails, TypeOK, DownloadInv, downloadVars
    <2>3. ScanInv'
        BY <1>0, <1>6 DEF RowFails, TypeOK, DownloadInv, ScanInv, downloadVars
    <2>4. ReturnInv'
        BY <1>0, <1>6 DEF RowFails, TypeOK, ScanInv, ReturnInv, downloadVars
    <2> QED
        BY <2>1, <2>2, <2>3, <2>4 DEF IInv
<1>7. CASE ScanEnds
    <2>1. TypeOK'
        BY <1>0, <1>7 DEF ScanEnds, TypeOK, downloadVars
    <2>2. DownloadInv'
        BY <1>0, <1>7 DEF ScanEnds, TypeOK, DownloadInv, downloadVars
    <2>3. ScanInv'
        BY <1>0, <1>7 DEF ScanEnds, TypeOK, DownloadInv, ScanInv, downloadVars
    <2>4. ReturnInv'
        BY <1>0, <1>7 DEF ScanEnds, TypeOK, ScanInv, ReturnInv, downloadVars
    <2> QED
        BY <2>1, <2>2, <2>3, <2>4 DEF IInv
<1>8. CASE ReturnStopped
    <2>1. TypeOK'
        BY <1>0, <1>8 DEF ReturnStopped, wgDownloadDone, TypeOK, downloadVars
    <2>2. DownloadInv'
        BY <1>0, <1>8 DEF ReturnStopped, wgDownloadDone, TypeOK, DownloadInv, downloadVars
    <2>3. ScanInv'
        BY <1>0, <1>8 DEF ReturnStopped, wgDownloadDone, TypeOK, DownloadInv, ScanInv, downloadVars
    <2>4. ReturnInv'
        BY <1>0, <1>8 DEF ReturnStopped, wgDownloadDone, TypeOK, ScanInv, ReturnInv, downloadVars
    <2> QED
        BY <2>1, <2>2, <2>3, <2>4 DEF IInv
<1>9. CASE FinishSheet
    <2>1. TypeOK'
        BY <1>0, <1>9 DEF FinishSheet, wgDownloadDone, TypeOK, downloadVars
    <2>2. DownloadInv'
        BY <1>0, <1>9 DEF FinishSheet, wgDownloadDone, TypeOK, DownloadInv, downloadVars
    <2>3. ScanInv'
        BY <1>0, <1>9 DEF FinishSheet, wgDownloadDone, TypeOK, DownloadInv, ScanInv, downloadVars
    <2>4. ReturnInv'
        BY <1>0, <1>9 DEF FinishSheet, wgDownloadDone, TypeOK, ScanInv, ReturnInv, downloadVars
    <2> QED
        BY <2>1, <2>2, <2>3, <2>4 DEF IInv
<1>10. CASE EndJob
    <2>1. TypeOK'
        BY <1>0, <1>10 DEF EndJob, TypeOK, downloadVars
    <2>2. DownloadInv'
        BY <1>0, <1>10 DEF EndJob, TypeOK, DownloadInv, downloadVars
    <2>3. ScanInv'
        BY <1>0, <1>10 DEF EndJob, TypeOK, DownloadInv, ScanInv, downloadVars
    <2>4. ReturnInv'
        BY <1>0, <1>10 DEF EndJob, TypeOK, ScanInv, ReturnInv, downloadVars
    <2> QED
        BY <2>1, <2>2, <2>3, <2>4 DEF IInv
<1>11. CASE NewStyle
    BY <1>0, <1>11 DEF NewStyle, IInv, TypeOK, DownloadInv, ScanInv, ReturnInv, downloadVars
<1> QED
    BY <1>1, <1>2, <1>3, <1>4, <1>5, <1>6, <1>7, <1>8, <1>9, <1>10, <1>11
    DEF GetCSVtoExcelStructure

\* So does the end of the context, and a stuttering step.
LEMMA OtherStep ==
    ASSUME IInv, CancelContext \/ AllHandled \/ UNCHANGED vars
    PROVE  IInv'
<1>1. CASE CancelContext
    BY <1>1 DEF CancelContext, IInv, TypeOK, DownloadInv, ScanInv, ReturnInv, downloadVars
<1>2. CASE AllHandled \/ UNCHANGED vars
    BY <1>2 DEF AllHandled, vars, workerVars, downloadVars, IInv, TypeOK, DownloadInv,
                ScanInv, ReturnInv
<1> QED
    BY <1>1, <1>2

LEMMA Invariance == Spec => []IInv
<1>1. IInv /\ [Next]_vars => IInv'
    BY DownloadStep, WorkerStep, OtherStep DEF Next
<1> QED
    BY InitIInv, <1>1, PTL DEF Spec

-----------------------------------------------------------------------------
\* Every variable of CsvStream keeps its type.
THEOREM TypeCorrect == Spec => []TypeOK
<1>1. IInv => TypeOK
    BY DEF IInv
<1> QED
    BY Invariance, <1>1, PTL

\* A sheet returned without error under a live context is the whole file.
THEOREM NilIsWholeHolds == Spec => []NilIsWhole
<1>1. IInv => NilIsWhole
    BY DEF IInv, ReturnInv, NilIsWhole
<1> QED
    BY Invariance, <1>1, PTL

\* A step of the worker is a step of what it is promised, or none: it returns all
\* rows, or part of them under a context that has ended.
LEMMA JobStep ==
    ASSUME IInv, IInv', GetCSVtoExcelStructure
    PROVE  [Contract!Next]_Contract!vars
<1> USE DEF Contract!vars
<1>1. CASE StartJob
    <2>1. Contract!Start
        BY <1>1 DEF StartJob, Contract!Start
    <2> QED
        BY <2>1 DEF Contract!Next
<1>2. CASE Read \/ StopScanning \/ PlaceRow
    BY <1>2 DEF Read, scannerReads, StopScanning, PlaceRow
<1>3. CASE NewStyle \/ ReadTooLong \/ RowFails \/ ScanEnds
    <2>1. /\ pc \in {"style", "scan"} /\ pc' \in {"scan", "scanned", "error"}
          /\ UNCHANGED <<job, ctxDone>>
        BY <1>3 DEF NewStyle, ReadTooLong, scannerReads, RowFails, ScanEnds
    <2>2. CASE pc' \in {"scan", "scanned"}
        BY <2>1, <2>2
    <2>3. CASE pc' = "error"
        <3>1. Contract!Return
            BY <2>1, <2>3 DEF Contract!Return
        <3> QED
            BY <3>1 DEF Contract!Next
    <2> QED
        BY <2>1, <2>2, <2>3
<1>4. CASE ReturnStopped \/ FinishSheet
    <2>1. /\ pc \in {"stopped", "scanned"} /\ pc' \in {"nil", "error"}
          /\ UNCHANGED <<job, ctxDone, placed, file>>
        BY <1>4 DEF ReturnStopped, FinishSheet
    <2>2. CASE pc' = "error"
        <3>1. Contract!Return
            BY <2>1, <2>2 DEF Contract!Return
        <3> QED
            BY <3>1 DEF Contract!Next
    <2>3. CASE pc' = "nil"
        <3>1. ctxDone \/ placed = Len(file[job])
            BY <2>1, <2>3 DEF IInv, ReturnInv
        <3>2. Contract!Return
            BY <2>1, <2>3, <3>1 DEF Contract!Return, Contract!RowsReturned
        <3> QED
            BY <3>2 DEF Contract!Next
    <2> QED
        BY <2>1, <2>2, <2>3
<1>5. CASE EndJob
    <2>1. Contract!End
        BY <1>5 DEF EndJob, Contract!End
    <2> QED
        BY <2>1 DEF Contract!Next
<1> QED
    BY <1>1, <1>2, <1>3, <1>4, <1>5 DEF GetCSVtoExcelStructure

\* Whatever the files, and however the download, the pipe, the scanner and the
\* context interleave, the worker sees jobs of one step each.
THEOREM SheetJobImplemented == Spec => ImplementsSheetJob
<1>1. Init => Contract!Init
    BY DEF Init, Contract!Init
<1>2. ASSUME IInv, NEW j \in Job, StreamAndWrite(j)
      PROVE  UNCHANGED Contract!vars
    BY <1>2
    DEF StreamAndWrite, GetObject, CopyChunk, CopyEnds, WriteReturns, CloseWriter,
        workerVars, Contract!vars
<1>3. ASSUME IInv, CancelContext
      PROVE  [Contract!Next]_Contract!vars
    <2>1. Contract!CancelContext
        BY <1>3 DEF CancelContext, IInv, TypeOK, Contract!CancelContext
    <2> QED
        BY <2>1 DEF Contract!Next
<1>4. AllHandled \/ UNCHANGED vars => UNCHANGED Contract!vars
    BY DEF AllHandled, vars, workerVars, Contract!vars
<1>5. IInv /\ IInv' /\ [Next]_vars => [Contract!Next]_Contract!vars
    BY <1>2, <1>3, <1>4, JobStep DEF Next
<1> QED
    BY Invariance, <1>1, <1>5, PTL DEF Spec, ImplementsSheetJob, Contract!Spec

\* No download outlives a return without error.
THEOREM NilEndsDownloadHolds == Spec => []NilEndsDownload
<1>1. IInv => NilEndsDownload
    BY DEF IInv, ReturnInv, NilEndsDownload
<1> QED
    BY Invariance, <1>1, PTL

-----------------------------------------------------------------------------
\* A download that is over has closed its pipe, a worker that waits for it as well;
\* and no row that is too long for the scanner is in its buffer.
ProgressInv ==
    /\ \A j \in Job : download[j] = "done" => pipe[j] # "open"
    /\ pc # "idle" => download[job] # "none"
    /\ pc = "stopped" => pipe[job] # "open"
    /\ pc \in {"style", "scan"} => \A r \in 1..buffered : file[job][placed + r] # "long"

LEMMA ProgressStep ==
    ASSUME IInv, IInv', ProgressInv, [Next]_vars
    PROVE  ProgressInv'
<1> USE JobsAssumption
<1>0. /\ TypeOK /\ TypeOK' /\ DownloadInv /\ ScanInv
      /\ pc # "idle" => job \in Job
    <2>1. TypeOK /\ TypeOK' /\ DownloadInv /\ ScanInv
        BY DEF IInv
    <2>2. pc # "idle" => job \in Job
        BY <2>1 DEF TypeOK, Job
    <2> QED
        BY <2>1, <2>2
<1>1. ASSUME NEW j \in Job, StreamAndWrite(j)
      PROVE  ProgressInv'
    <2>1. UNCHANGED <<job, pc, buffered, placed, file>>
        BY <1>1 DEF StreamAndWrite, GetObject, CopyChunk, CopyEnds, WriteReturns,
                    CloseWriter, workerVars
    <2>2. \A i \in Job : download'[i] = "done" => pipe'[i] # "open"
        BY <1>0, <1>1
        DEF StreamAndWrite, GetObject, CopyChunk, CopyEnds, WriteReturns, CloseWriter,
            ClosePipe, At, TypeOK, ProgressInv
    <2>3. /\ \A i \in Job : pipe[i] # "open" => pipe'[i] # "open"
          /\ \A i \in Job : download[i] # "none" => download'[i] # "none"
        BY <1>0, <1>1
        DEF StreamAndWrite, GetObject, CopyChunk, CopyEnds, WriteReturns, CloseWriter,
            ClosePipe, At, TypeOK
    <2>4. /\ pc' # "idle" => download'[job'] # "none"
          /\ pc' = "stopped" => pipe'[job'] # "open"
        BY <1>0, <2>1, <2>3 DEF ProgressInv
    <2>5. pc' \in {"style", "scan"} =>
              \A r \in 1..buffered' : file'[job'][placed' + r] # "long"
        BY <2>1 DEF ProgressInv
    <2> QED
        BY <2>2, <2>4, <2>5 DEF ProgressInv
<1>2. CASE StartJob
    <2>1. /\ job' \in Job /\ buffered' = 0
          /\ pc' = "style"
          /\ download' = [download EXCEPT ![job'] = "get"]
          /\ pipe' = pipe
        BY <1>0, <1>2 DEF StartJob, At, TypeOK, Job
    <2>2. download'[job'] = "get" /\ \A j \in Job \ {job'} : download'[j] = download[j]
        BY <1>0, <2>1 DEF TypeOK
    <2> QED
        BY <2>1, <2>2 DEF ProgressInv
<1>3. CASE Read
    <2>1. PICK rows \in 1..offered[job] :
              /\ \A r \in 1..rows : file[job][placed + r] # "long"
              /\ buffered' = rows
        BY <1>3 DEF Read
    <2> QED
        BY <1>3, <2>1 DEF Read, ProgressInv
<1>4. CASE PlaceRow
    <2>1. /\ buffered' = buffered - 1 /\ placed' = placed + 1
          /\ UNCHANGED <<job, pc, file, download, pipe>>
          /\ pc = "scan"
        BY <1>4 DEF PlaceRow, downloadVars
    <2>2. ASSUME NEW r \in 1..(buffered - 1)
          PROVE  file[job][placed + 1 + r] # "long"
        <3>1. r + 1 \in 1..buffered /\ placed + 1 + r = placed + (r + 1)
            BY <1>0 DEF TypeOK
        <3> QED
            BY <2>1, <3>1 DEF ProgressInv
    <2> QED
        BY <2>1, <2>2 DEF ProgressInv
<1>5. CASE StopScanning
    <2>1. /\ UNCHANGED <<job, buffered, placed, file, download>>
          /\ pc' = "stopped" /\ pc = "scan"
          /\ pipe'[job] # "open"
          /\ \A j \in Job : pipe[j] # "open" => pipe'[j] # "open"
        BY <1>0, <1>5 DEF StopScanning, CloseOnDone, ClosePipe, TypeOK
    <2> QED
        BY <2>1 DEF ProgressInv
<1>6. CASE \/ ReadTooLong \/ RowFails \/ ScanEnds \/ ReturnStopped \/ FinishSheet
           \/ EndJob \/ CancelContext \/ AllHandled \/ UNCHANGED vars
    <2>1. /\ UNCHANGED <<job, buffered, placed, file, download, pipe>>
          /\ pc' = pc \/ (pc # "idle" /\ pc' \in {"idle", "scanned", "nil", "error"})
        BY <1>6
        DEF ReadTooLong, scannerReads, RowFails, ScanEnds, ReturnStopped, FinishSheet, EndJob,
            CancelContext, AllHandled, vars, workerVars, downloadVars
    <2> QED
        BY <2>1 DEF ProgressInv
<1>7. CASE NewStyle
    BY <1>7 DEF NewStyle, ProgressInv, downloadVars
<1> QED
    BY <1>1, <1>2, <1>3, <1>4, <1>5, <1>6, <1>7 DEF Next, GetCSVtoExcelStructure

\* For any files and chunks, the worker and its download never wait for each other.
THEOREM NoMutualWaitHolds == Spec => []NoMutualWait
<1>1. Init => ProgressInv
    BY DEF Init, ProgressInv, Job
<1>2. IInv /\ IInv' /\ ProgressInv /\ [Next]_vars => ProgressInv'
    BY ProgressStep
<1>3. IInv /\ ProgressInv => NoMutualWait
    <2> SUFFICES ASSUME IInv, ProgressInv, pc # "idle" PROVE NoMutualWait
        BY DEF NoMutualWait
    <2>0. job \in Job /\ TypeOK
        BY JobsAssumption DEF IInv, TypeOK, Job
    <2>1. CASE pc = "scan" /\ buffered > 0
        <3>1. placed + 1 \in 1..Len(file[job])
            <4>1. placed + buffered + offered[job] <= Len(file[job])
                BY <2>0, <2>1 DEF IInv, ScanInv, DownloadInv
            <4>2. /\ placed \in Nat /\ buffered \in Nat /\ offered[job] \in Nat
                  /\ Len(file[job]) \in Nat
                BY <2>0, FileLen DEF TypeOK
            <4> QED
                BY <2>1, <4>1, <4>2
        <3>2. nextRow \in RowKind
            BY <2>0, <3>1 DEF nextRow, TypeOK
        <3>3. nextRow # "long"
            BY <2>0, <2>1 DEF ProgressInv, nextRow, TypeOK
        <3> QED
            BY <2>1, <3>2, <3>3 DEF RowKind, NoMutualWait
    <2>2. CASE pc = "scan" /\ buffered = 0
        BY <2>0, <2>2 DEF TypeOK, ProgressInv, NoMutualWait, scannerReads
    <2>3. CASE pc \in {"stopped", "scanned"}
        <3>1. pipe[job] # "open"
            BY <2>3 DEF ProgressInv, IInv, ScanInv
        <3> QED
            BY <2>0, <2>3, <3>1 DEF TypeOK, ProgressInv, NoMutualWait, wgDownloadDone
    <2> QED
        BY <2>0, <2>1, <2>2, <2>3 DEF TypeOK, NoMutualWait
<1> QED
    BY Invariance, <1>1, <1>2, <1>3, PTL DEF Spec

\* The parts of stepsLeft of a job are natural numbers.
LEMMA StepsTyped ==
    ASSUME IInv, job # 0
    PROVE  /\ job \in Job
           /\ buffered \in Nat
           /\ fetched[job] \in Nat /\ offered[job] \in Nat /\ Len(file[job]) \in Nat
           /\ workerSteps \in Nat /\ downloadSteps \in Nat
           /\ contextSteps \in Nat /\ rowSteps \in Nat
           /\ stepsLeft \in Nat
<1>1. TypeOK /\ DownloadInv
    BY DEF IInv
<1>2. job \in Job
    BY <1>1, JobsAssumption DEF TypeOK, Job
<1>3. /\ buffered \in Nat
      /\ fetched[job] \in Nat /\ offered[job] \in Nat /\ Len(file[job]) \in Nat
    BY <1>1, <1>2, FileLen DEF TypeOK
<1>4. rowSteps \in Nat
    <2>1. fetched[job] <= Len(file[job])
        BY <1>1, <1>2 DEF DownloadInv
    <2> QED
        BY <1>3, <2>1 DEF rowSteps
<1>5. workerSteps \in Nat
    BY <1>1 DEF TypeOK, workerSteps
<1>6. downloadSteps \in Nat
    <2>1. download[job] \in {"none", "get", "copy", "write", "close", "fail", "done"}
        BY <1>1, <1>2 DEF TypeOK
    <2> QED
        BY <2>1 DEF downloadSteps
<1>7. contextSteps \in Nat
    BY DEF contextSteps
<1> QED
    BY <1>2, <1>3, <1>4, <1>5, <1>6, <1>7 DEF stepsLeft

\* A step of the download of the current job leaves it fewer steps.
LEMMA DownloadCounts ==
    ASSUME IInv, job # 0, StreamAndWrite(job)
    PROVE  stepsLeft' < stepsLeft
<1> USE ChunkAssumption DEF workerVars
<1>1. job \in Job /\ buffered \in Nat
    BY StepsTyped
<1>2. PICK ws \in Nat, ds \in Nat, cs \in Nat, rs \in Nat :
          workerSteps = ws /\ downloadSteps = ds /\ contextSteps = cs /\ rowSteps = rs
    BY StepsTyped
<1>3. PICK b \in Nat, f \in Nat, len \in Nat :
          buffered = b /\ fetched[job] = f /\ Len(file[job]) = len
    BY StepsTyped
<1>4. stepsLeft = ws + ds + cs + rs
    BY <1>2 DEF stepsLeft
<1>5. /\ download \in [Job -> {"none", "get", "copy", "write", "close", "fail", "done"}]
      /\ fetched \in [Job -> Nat] /\ offered \in [Job -> Nat]
    BY DEF IInv, TypeOK
<1>6. workerSteps' = ws /\ contextSteps' = cs
    BY <1>2 DEF StreamAndWrite, GetObject, CopyChunk, CopyEnds, WriteReturns, CloseWriter,
                workerSteps, contextSteps
<1>7. CASE CopyChunk(job)
    <2>1. PICK k \in 1..MaxChunk : /\ fetched' = [fetched EXCEPT ![job] = @ + k]
                                  /\ offered' = [offered EXCEPT ![job] = k]
        BY <1>7 DEF CopyChunk
    <2>2. /\ fetched'[job] = f + k /\ offered'[job] = k
          /\ offered[job] = 0
          /\ download[job] = "copy" /\ download'[job] = "write"
          /\ UNCHANGED <<job, buffered, file>>
        BY <1>1, <1>3, <1>5, <1>7, <2>1 DEF CopyChunk, At, IInv, DownloadInv
    <2>3. ds = 2 /\ downloadSteps' = 3
        BY <1>2, <2>2 DEF downloadSteps
    <2>4. rs = 4 * (len - f) + 2 * 0 + b /\ rowSteps' = 4 * (len - (f + k)) + 2 * k + b
        BY <1>2, <1>3, <2>2 DEF rowSteps
    <2>5. rowSteps' = rs - 2 * k
        BY <2>4
    <2> QED
        BY <1>2, <1>4, <1>6, <2>3, <2>5 DEF stepsLeft
<1>8. CASE GetObject(job) \/ CopyEnds(job) \/ WriteReturns(job) \/ CloseWriter(job)
    <2>1. /\ UNCHANGED <<job, buffered, file, fetched, offered>>
          /\ \/ download[job] = "get" /\ download'[job] \in {"copy", "fail"}
             \/ download[job] = "copy" /\ download'[job] \in {"close", "fail"}
             \/ download[job] = "write" /\ download'[job] \in {"copy", "fail"}
             \/ download[job] \in {"close", "fail"} /\ download'[job] = "done"
        BY <1>1, <1>5, <1>8 DEF GetObject, CopyEnds, WriteReturns, CloseWriter, At
    <2>2. PICK d \in Nat : downloadSteps' = d /\ d < ds
        BY <1>2, <2>1 DEF downloadSteps
    <2>3. rowSteps' = rs
        BY <1>2, <2>1 DEF rowSteps
    <2> QED
        BY <1>4, <1>6, <2>2, <2>3 DEF stepsLeft
<1> QED
    BY <1>7, <1>8 DEF StreamAndWrite

\* So does a step of the worker in a job, and the end of its context.
LEMMA WorkerCounts ==
    ASSUME IInv, pc # "idle", GetCSVtoExcelStructure \/ CancelContext
    PROVE  stepsLeft' < stepsLeft
<1>0. job # 0
    BY DEF IInv, TypeOK
<1>1. job \in Job
    BY <1>0, StepsTyped
<1>2. PICK ws \in Nat, ds \in Nat, cs \in Nat, rs \in Nat :
          workerSteps = ws /\ downloadSteps = ds /\ contextSteps = cs /\ rowSteps = rs
    BY <1>0, StepsTyped
<1>3. PICK b \in Nat, f \in Nat, o \in Nat, len \in Nat :
          buffered = b /\ fetched[job] = f /\ offered[job] = o /\ Len(file[job]) = len
    BY <1>0, StepsTyped
<1>4. stepsLeft = ws + ds + cs + rs
    BY <1>2 DEF stepsLeft
<1>5. offered \in [Job -> Nat]
    BY DEF IInv, TypeOK
<1>6. rs = 4 * (len - f) + 2 * o + b
    BY <1>2, <1>3 DEF rowSteps
<1>7. CASE Read
    <2>1. PICK k \in 1..o : buffered' = k /\ offered' = [offered EXCEPT ![job] = @ - k]
        BY <1>3, <1>7 DEF Read
    <2>2. /\ buffered' = k /\ offered'[job] = o - k
          /\ b = 0
          /\ UNCHANGED <<job, pc, ctxDone, file, download, fetched>>
        BY <1>1, <1>3, <1>5, <1>7, <2>1 DEF Read, scannerReads
    <2>3. rowSteps' = 4 * (len - f) + 2 * (o - k) + k
        BY <1>3, <2>2 DEF rowSteps
    <2>4. rowSteps' = rs - k
        BY <1>6, <2>2, <2>3
    <2>5. workerSteps' = ws /\ downloadSteps' = ds /\ contextSteps' = cs
        BY <1>2, <2>2 DEF workerSteps, downloadSteps, contextSteps
    <2> QED
        BY <1>4, <2>4, <2>5 DEF stepsLeft
<1>8. CASE ReadTooLong
    <2>1. PICK k \in {0, 1} :
              /\ offered'[job] = o - k
              /\ pc = "scan" /\ pc' = "error"
              /\ UNCHANGED <<job, ctxDone, buffered, file, download, fetched>>
        <3>1. offered' = offered \/ offered' = [offered EXCEPT ![job] = @ - 1]
            BY <1>8 DEF ReadTooLong
        <3>2. offered'[job] = o - 0 \/ offered'[job] = o - 1
            BY <1>1, <1>3, <1>5, <3>1
        <3> QED
            BY <1>8, <3>2 DEF ReadTooLong, scannerReads
    <2>2. rowSteps' = 4 * (len - f) + 2 * (o - k) + b
        BY <1>3, <2>1 DEF rowSteps
    <2>3. rowSteps' = rs - 2 * k
        BY <1>6, <2>2
    <2>4. ws = 3 /\ workerSteps' = 1
        BY <1>2, <2>1 DEF workerSteps
    <2>5. downloadSteps' = ds /\ contextSteps' = cs
        BY <1>2, <2>1 DEF downloadSteps, contextSteps
    <2> QED
        BY <1>4, <2>3, <2>4, <2>5 DEF stepsLeft
<1>9. CASE PlaceRow
    <2>1. /\ buffered' = b - 1
          /\ UNCHANGED <<job, pc, ctxDone, file, download, fetched, offered>>
        BY <1>3, <1>9 DEF PlaceRow, downloadVars
    <2>2. rowSteps' = 4 * (len - f) + 2 * o + (b - 1)
        BY <1>3, <2>1 DEF rowSteps
    <2>3. rowSteps' = rs - 1
        BY <1>6, <2>2
    <2>4. workerSteps' = ws /\ downloadSteps' = ds /\ contextSteps' = cs
        BY <1>2, <2>1 DEF workerSteps, downloadSteps, contextSteps
    <2> QED
        BY <1>4, <2>3, <2>4 DEF stepsLeft
<1>10. CASE \/ NewStyle \/ StopScanning \/ RowFails \/ ScanEnds
            \/ ReturnStopped \/ FinishSheet \/ EndJob
    <2>1. /\ UNCHANGED <<job, ctxDone, buffered, file, download, fetched, offered>>
          /\ \/ pc = "style" /\ pc' \in {"scan", "error"}
             \/ pc = "scan" /\ pc' \in {"stopped", "scanned", "error"}
             \/ pc \in {"stopped", "scanned"} /\ pc' \in {"nil", "error"}
             \/ pc \in {"nil", "error"} /\ pc' = "idle"
        BY <1>10
        DEF NewStyle, StopScanning, RowFails, ScanEnds, ReturnStopped, FinishSheet, EndJob,
            downloadVars
    <2>2. PICK s \in Nat : workerSteps' = s /\ s < ws
        BY <1>2, <2>1 DEF workerSteps
    <2>3. downloadSteps' = ds /\ contextSteps' = cs /\ rowSteps' = rs
        BY <1>2, <2>1 DEF downloadSteps, contextSteps, rowSteps
    <2> QED
        BY <1>4, <2>2, <2>3 DEF stepsLeft
<1>11. CASE CancelContext
    <2>1. /\ ~ctxDone /\ ctxDone'
          /\ UNCHANGED <<job, pc, buffered, file, download, fetched, offered>>
        BY <1>11 DEF CancelContext, downloadVars
    <2>2. cs = 1 /\ contextSteps' = 0
        BY <1>2, <2>1 DEF contextSteps
    <2>3. workerSteps' = ws /\ downloadSteps' = ds /\ rowSteps' = rs
        BY <1>2, <2>1 DEF workerSteps, downloadSteps, rowSteps
    <2> QED
        BY <1>4, <2>2, <2>3 DEF stepsLeft
<1> QED
    BY <1>7, <1>8, <1>9, <1>10, <1>11 DEF GetCSVtoExcelStructure, StartJob

\* For any files and chunks, each step of a job leaves it fewer steps to come.
THEOREM EveryStepCountsHolds == Spec => EveryStepCounts
<1>1. IInv => (job # 0 => stepsLeft \in Nat)
    BY StepsTyped
<1>2. ASSUME IInv, (job # 0 => stepsLeft \in Nat)', [Next]_vars, pc # "idle"
      PROVE  \/ stepsLeft' \in 0..(stepsLeft - 1)
             \/ UNCHANGED <<workerVars, file[job], download[job], pipe[job], fetched[job],
                            offered[job]>>
    <2>1. job \in Job /\ job # 0 /\ stepsLeft \in Nat /\ TypeOK
        BY <1>2, StepsTyped DEF IInv, TypeOK
    <2>2. ASSUME NEW j \in Job \ {job}, StreamAndWrite(j)
          PROVE  UNCHANGED <<workerVars, file[job], download[job], pipe[job], fetched[job],
                             offered[job]>>
        BY <2>1, <2>2
        DEF StreamAndWrite, GetObject, CopyChunk, CopyEnds, WriteReturns, CloseWriter,
            ClosePipe, At, TypeOK, workerVars
    <2>3. CASE AllHandled \/ UNCHANGED vars
        BY <2>3 DEF AllHandled, vars, downloadVars, workerVars
    <2>4. CASE StreamAndWrite(job) \/ GetCSVtoExcelStructure \/ CancelContext
        <3>1. stepsLeft' < stepsLeft
            BY <1>2, <2>1, <2>4, DownloadCounts, WorkerCounts
        <3>2. job' = job
            BY <1>2, <2>4
            DEF StreamAndWrite, GetObject, CopyChunk, CopyEnds, WriteReturns, CloseWriter,
                workerVars, GetCSVtoExcelStructure, StartJob, NewStyle, Read, ReadTooLong,
                StopScanning, PlaceRow, RowFails, ScanEnds, ReturnStopped, FinishSheet, EndJob, CancelContext
        <3> QED
            BY <1>2, <2>1, <3>1, <3>2
    <2> QED
        BY <1>2, <2>2, <2>3, <2>4 DEF Next
<1>3. IInv /\ (job # 0 => stepsLeft \in Nat)' /\ [Next]_vars =>
          [pc # "idle" =>
              \/ stepsLeft' \in 0..(stepsLeft - 1)
              \/ UNCHANGED <<workerVars, file[job], download[job], pipe[job], fetched[job],
                             offered[job]>>]_vars
    BY <1>2
<1> QED
    BY Invariance, <1>1, <1>3, PTL DEF Spec, EveryStepCounts

=============================================================================
