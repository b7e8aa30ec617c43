--------------------------- MODULE XlsxUploadProofs ---------------------------
(***************************************************************************)
(* Proofs about XlsxUpload: the safety properties of the upload, for every *)
(* size of the workbook.                                                   *)
(***************************************************************************)
EXTENDS XlsxUpload, TLAPS

\* A writer that can still go on has no chunk unread, and one that is at the end
\* has written all.
WriterInv ==
    /\ writer \in {"none", "writing", "written"} => read = written
    /\ writer = "written" => written = chunks

\* Until the worker gives up and closes the pipe itself, io.EOF in the pipe comes
\* from a writer that has written the whole workbook.
PipeInv ==
    pipe = "eof" /\ pc # "error" =>
        read = chunks /\ writer \in {"closed", "done"}

\* What is stored is whole, and nothing is before the upload.
ObjectInv ==
    /\ object \in {chunks, NoObject}
    /\ pc \in {"start", "key"} => object = NoObject
    /\ pc \in {"stored", "nil"} => object = chunks

\* An upload that is under way has its key, and only where a key is needed.
KeyInv ==
    /\ pc \in {"start", "key"} => key = FALSE
    /\ pc = "key" => ~isPublished
    /\ pc \in {"upload", "stored", "nil"} /\ ~isPublished => key
    /\ object # NoObject /\ ~isPublished => key

IInv ==
    /\ TypeOK
    /\ WriterInv
    /\ PipeInv
    /\ ObjectInv
    /\ KeyInv
    /\ pc = "nil" => writer = "done"

-----------------------------------------------------------------------------
\* The initial states satisfy the invariant.
LEMMA InitIInv == Init => IInv
<1> SUFFICES ASSUME Init PROVE IInv
    OBVIOUS
<1>1. TypeOK
    <2>1. chunks \in Nat /\ written \in 0..chunks /\ read \in 0..written
        BY ChunksAssumption DEF Init
    <2> QED
        BY <2>1 DEF Init, TypeOK
<1>2. WriterInv /\ PipeInv /\ ObjectInv
    BY DEF Init, WriterInv, PipeInv, ObjectInv
<1>3. KeyInv
    BY DEF Init, KeyInv
<1> QED
    BY <1>1, <1>2, <1>3 DEF Init, IInv

\* A step of the writer keeps the invariant.
LEMMA WriterStep ==
    ASSUME IInv, Write
    PROVE  IInv'
<1> USE ChunksAssumption DEF inputs, saveVars, IInv, TypeOK, WriterInv, PipeInv,
        ObjectInv, KeyInv, NoObject
<1>1. CASE WriteChunk
    BY <1>1 DEF WriteChunk
<1>2. CASE WriteReturns
    BY <1>2 DEF WriteReturns
<1>3. CASE WriteEnds
    BY <1>3 DEF WriteEnds
<1>4. CASE CloseWriter
    BY <1>4 DEF CloseWriter, Close
<1>5. CASE WriterDone
    BY <1>5 DEF WriterDone
<1> QED
    BY <1>1, <1>2, <1>3, <1>4, <1>5 DEF Write

\* So does a step of the worker.
LEMMA WorkerStep ==
    ASSUME IInv, SaveExcelStructureToExcelFile
    PROVE  IInv'
<1> USE ChunksAssumption DEF inputs, writerVars, IInv, TypeOK, WriterInv, PipeInv,
        ObjectInv, KeyInv, NoObject
<1>1. CASE StartWriter
    <2>0. pc' \in {"upload", "key"}
        BY <1>1 DEF StartWriter, goWrite, firstStep
    <2>1. TypeOK' /\ WriterInv' /\ PipeInv' /\ ObjectInv'
        <3>1. TypeOK'
            BY <1>1, <2>0 DEF StartWriter, goWrite
        <3>2. WriterInv' /\ PipeInv' /\ ObjectInv'
            BY <1>1, <2>0 DEF StartWriter, goWrite
        <3> QED
            BY <3>1, <3>2
    <2>2. KeyInv'
        <3>1. object = NoObject /\ object' = object /\ isPublished' = isPublished
            BY <1>1 DEF StartWriter, goWrite
        <3>2. key' = key /\ key = FALSE
            BY <1>1 DEF StartWriter
        <3>3. pc' = IF isPublished THEN "upload" ELSE "key"
            BY <1>1 DEF StartWriter, firstStep
        <3>4. CASE isPublished
            BY <3>1, <3>2, <3>3, <3>4
        <3>5. CASE ~isPublished
            BY <3>1, <3>2, <3>3, <3>5
        <3> QED
            BY <3>4, <3>5
    <2> QED
        BY <1>1, <2>1, <2>2 DEF StartWriter, goWrite, firstStep
<1>2. CASE WriteKey
    BY <1>2 DEF WriteKey
<1>3. CASE ReadChunk
    BY <1>3 DEF ReadChunk, chunkOffered
<1>4. CASE UploadCompletes
    BY <1>4 DEF UploadCompletes
<1>5. CASE UploadFails
    BY <1>5 DEF UploadFails
<1>6. CASE ReturnError
    BY <1>6 DEF ReturnError, CloseOnError, Close
<1>7. CASE ReturnLocation
    BY <1>7 DEF ReturnLocation, wgUploadDone
<1> QED
    BY <1>1, <1>2, <1>3, <1>4, <1>5, <1>6, <1>7 DEF SaveExcelStructureToExcelFile

\* So does the end of the context, and a stuttering step.
LEMMA OtherStep ==
    ASSUME IInv, CancelContext \/ Returned \/ UNCHANGED vars
    PROVE  IInv'
<1> USE DEF inputs, saveVars, writerVars, IInv, WriterInv, PipeInv, ObjectInv, KeyInv
<1>1. CASE CancelContext
    BY <1>1 DEF CancelContext, TypeOK
<1>2. CASE Returned \/ UNCHANGED vars
    BY <1>2 DEF Returned, vars, TypeOK
<1> QED
    BY <1>1, <1>2

LEMMA Invariance == Spec => []IInv
<1>1. IInv /\ [Next]_vars => IInv'
    BY WriterStep, WorkerStep, OtherStep DEF Next
<1> QED
    BY InitIInv, <1>1, PTL DEF Spec

-----------------------------------------------------------------------------
\* Every variable of XlsxUpload keeps its type.
THEOREM TypeCorrect == Spec => []TypeOK
<1>1. IInv => TypeOK
    BY DEF IInv
<1> QED
    BY Invariance, <1>1, PTL

\* No part of a workbook is ever completed as an upload.
THEOREM StoredIsWholeHolds == Spec => []StoredIsWhole
<1>1. IInv => StoredIsWhole
    BY DEF IInv, ObjectInv, StoredIsWhole
<1> QED
    BY Invariance, <1>1, PTL

\* No object of an unpublished subject is in the bucket without a key.
THEOREM KeyBeforeObjectHolds == Spec => []KeyBeforeObject
<1>1. IInv => KeyBeforeObject
    BY DEF IInv, KeyInv, KeyBeforeObject
<1> QED
    BY Invariance, <1>1, PTL

\* A step of the upload is a step of what it promises, or none.
LEMMA UploadStep ==
    ASSUME IInv, SaveExcelStructureToExcelFile
    PROVE  [Contract!Next]_Contract!vars
<1> USE ChunksAssumption DEF inputs, writerVars, NoObject, Contract!vars
<1>0. /\ chunks \in Nat /\ isPublished \in BOOLEAN
      /\ pipe = "eof" /\ pc # "error" => read = chunks
      /\ ObjectInv /\ KeyInv
    BY DEF IInv, TypeOK, PipeInv
<1>1. CASE StartWriter
    BY <1>1 DEF StartWriter, firstStep
<1>2. CASE WriteKey
    <2>1. key' \in {key, TRUE} /\ pc' \in {"upload", "failed"}
        BY <1>0, <1>2 DEF WriteKey, KeyInv
    <2>2. CASE key' = key
        BY <1>2, <2>1, <2>2 DEF WriteKey
    <2>3. CASE key' = TRUE
        <3>1. Contract!PutKey
            BY <1>0, <1>2, <2>1, <2>3 DEF WriteKey, ObjectInv, KeyInv, Contract!PutKey
        <3> QED
            BY <3>1 DEF Contract!Next
    <2> QED
        BY <2>1, <2>2, <2>3
<1>3. CASE ReadChunk
    BY <1>3 DEF ReadChunk
<1>4. CASE UploadCompletes \/ UploadFails
    <2>1. /\ pc = "upload" /\ pc' \in {"stored", "failed"}
          /\ object' \in {object, chunks}
          /\ UNCHANGED <<isPublished, chunks, key>>
        BY <1>0, <1>4 DEF UploadCompletes, UploadFails
    <2>2. CASE object' = object
        BY <2>1, <2>2
    <2>3. CASE object' = chunks
        <3>1. isPublished \/ key
            BY <1>0, <2>1 DEF KeyInv
        <3>2. Contract!PutObject
            BY <1>0, <2>1, <2>3, <3>1 DEF Contract!PutObject
        <3> QED
            BY <3>2 DEF Contract!Next
    <2> QED
        BY <2>1, <2>2, <2>3
<1>5. CASE ReturnError
    <2>1. Contract!Return
        BY <1>5 DEF ReturnError, Contract!Return
    <2> QED
        BY <2>1 DEF Contract!Next
<1>6. CASE ReturnLocation
    <2>1. CASE pc' = "failed"
        BY <1>6, <2>1 DEF ReturnLocation
    <2>2. CASE pc' = "nil"
        <3>1. Contract!Return
            BY <1>0, <1>6, <2>2 DEF ReturnLocation, ObjectInv, Contract!Return
        <3> QED
            BY <3>1 DEF Contract!Next
    <2> QED
        BY <1>6, <2>1, <2>2 DEF ReturnLocation
<1> QED
    BY <1>1, <1>2, <1>3, <1>4, <1>5, <1>6 DEF SaveExcelStructureToExcelFile

\* Whatever the size of the workbook, and however the writer and the upload
\* interleave, the bucket sees the whole workbook put in one step, after its key.
THEOREM UploadImplemented == Spec => ImplementsUpload
<1>1. Init => Contract!Init
    BY DEF Init, NoObject, Contract!Init
<1>2. Write \/ CancelContext \/ Returned \/ UNCHANGED vars => UNCHANGED Contract!vars
    BY DEF Write, WriteChunk, WriteReturns, WriteEnds, CloseWriter, WriterDone,
           CancelContext, Returned, inputs, saveVars, vars, Contract!vars
<1>3. IInv /\ [Next]_vars => [Contract!Next]_Contract!vars
    BY <1>2, UploadStep DEF Next
<1> QED
    BY Invariance, <1>1, <1>3, PTL DEF Spec, ImplementsUpload, Contract!Spec

\* A location is only returned of a stored workbook whose writer has ended.
THEOREM LocationEndsWriterHolds == Spec => []LocationEndsWriter
<1>1. IInv => LocationEndsWriter
    BY DEF IInv, ObjectInv, LocationEndsWriter
<1> QED
    BY Invariance, <1>1, PTL

-----------------------------------------------------------------------------
\* A writer that has ended has closed the pipe, and so has a worker that has
\* returned an error.
ClosedInv ==
    /\ writer \in {"closed", "done"} => pipe # "open"
    /\ pc = "error" => pipe # "open"
    /\ pc \in {"stored", "nil"} => writer \in {"closed", "done"}

LEMMA ClosedStep ==
    ASSUME IInv, ClosedInv, [Next]_vars
    PROVE  ClosedInv'
<1> USE DEF inputs, saveVars, writerVars, ClosedInv
<1>1. CASE Write
    BY <1>1 DEF Write, WriteChunk, WriteReturns, WriteEnds, CloseWriter, WriterDone, Close
<1>2. CASE StartWriter \/ WriteKey \/ ReadChunk
    BY <1>2 DEF IInv, TypeOK, StartWriter, firstStep, goWrite, WriteKey, ReadChunk
<1>3. CASE UploadCompletes \/ UploadFails
    BY <1>3 DEF IInv, PipeInv, UploadCompletes, UploadFails
<1>4. CASE ReturnError \/ ReturnLocation
    BY <1>4 DEF IInv, ReturnError, CloseOnError, Close, ReturnLocation, wgUploadDone
<1>5. CASE CancelContext \/ Returned \/ UNCHANGED vars
    BY <1>5 DEF CancelContext, Returned, vars
<1> QED
    BY <1>1, <1>2, <1>3, <1>4, <1>5 DEF Next, SaveExcelStructureToExcelFile

\* Whatever the size of the workbook, the worker and the writer do not wait for
\* each other.
THEOREM NoMutualWaitHolds == Spec => []NoMutualWait
<1>1. Init => ClosedInv
    BY DEF Init, ClosedInv
<1>2. IInv /\ ClosedInv /\ [Next]_vars => ClosedInv'
    BY ClosedStep
<1>3. IInv /\ ClosedInv => NoMutualWait
    <2> SUFFICES ASSUME IInv, ClosedInv PROVE NoMutualWait
        OBVIOUS
    <2>1. CASE writer = "blocked"
        BY <2>1 DEF IInv, TypeOK, ClosedInv, NoMutualWait, chunkOffered
    <2>2. CASE writer \in {"closed", "done"}
        BY <2>2 DEF IInv, TypeOK, ClosedInv, NoMutualWait
    <2>3. CASE writer \in {"none", "writing", "written", "failed"}
        BY <2>3 DEF IInv, TypeOK, NoMutualWait
    <2> QED
        BY <2>1, <2>2, <2>3 DEF IInv, TypeOK
<1> QED
    BY Invariance, <1>1, <1>2, <1>3, PTL DEF Spec

\* Whatever the size of the workbook, each step leaves fewer steps to come.
THEOREM EveryStepCountsHolds == Spec => EveryStepCounts
<1>1. ASSUME IInv, IInv', Next, vars' # vars
      PROVE  stepsLeft' \in 0..(stepsLeft - 1)
    <2> USE ChunksAssumption DEF inputs, saveVars, writerVars, stepsLeft
    <2>1. stepsLeft' \in Nat /\ stepsLeft \in Nat
        BY <1>1 DEF IInv, TypeOK
    <2>2. stepsLeft' < stepsLeft
        <3> USE <1>1 DEF IInv, TypeOK
        <3>1. CASE Write
            <4>1. CASE WriteChunk
                BY <4>1 DEF WriteChunk
            <4>2. CASE WriteReturns
                BY <4>2 DEF WriteReturns
            <4>3. CASE WriteEnds
                BY <4>3 DEF WriteEnds
            <4>4. CASE CloseWriter \/ WriterDone
                BY <4>4 DEF CloseWriter, WriterDone
            <4> QED
                BY <3>1, <4>1, <4>2, <4>3, <4>4 DEF Write
        <3>2. CASE StartWriter \/ WriteKey
            BY <3>2 DEF StartWriter, firstStep, goWrite, WriteKey
        <3>3. CASE ReadChunk
            BY <3>3 DEF ReadChunk, chunkOffered
        <3>4. CASE UploadCompletes \/ UploadFails
            BY <3>4 DEF UploadCompletes, UploadFails
        <3>5. CASE ReturnError \/ ReturnLocation
            BY <3>5 DEF ReturnError, ReturnLocation
        <3>6. CASE CancelContext
            BY <3>6 DEF CancelContext
        <3> QED
            BY <1>1, <3>1, <3>2, <3>3, <3>4, <3>5, <3>6
            DEF Next, SaveExcelStructureToExcelFile, Returned
    <2> QED
        BY <2>1, <2>2
<1>2. IInv /\ IInv' /\ [Next]_vars => [stepsLeft' \in 0..(stepsLeft - 1)]_vars
    BY <1>1
<1> QED
    BY Invariance, <1>2, PTL DEF Spec, EveryStepCounts

=============================================================================
