--------------------------- MODULE XlsxCreateProofs ---------------------------
(***************************************************************************)
(* The safety properties of XlsxCreate hold for any number of workers,     *)
(* messages, attempts and faults.                                          *)
(***************************************************************************)
EXTENDS XlsxCreate, TLAPS

\* What the names an event gives to its outputs are.
LEMMA EventNames ==
    ASSUME NEW m \in Message
    PROVE  /\ SubjectOf(Event[m]) \in Subject
           /\ TargetOf(Event[m]) \in Target
           /\ generateS3FilenameCSV(Event[m]) \in FileName
           /\ generateS3FilenameXLSX(Event[m]) \in FileName
           /\ vaultPathXLSX(Event[m]) \in FileName
<1> DEFINE e == Event[m]
<1>1. e \in EventRecord
    BY EventAssumption
<1>2. e.fileName \in FileName
    BY <1>1 DEF EventRecord
<1>3. generateS3FilenameXLSX(e) \in FileName
    BY <1>2 DEF FileName, generateS3FilenameXLSX
<1> QED
    BY <1>1, <1>2, <1>3 DEF EventRecord, FileName, Subject, Target, SubjectOf, TargetOf,
        generateS3FilenameCSV, vaultPathXLSX

\* The subject of a filter job is its target.
LEMMA FilterJob ==
    ASSUME NEW m \in Message, isFilterJob(Event[m])
    PROVE  /\ SubjectOf(Event[m]) = Event[m].filterOutputID
           /\ TargetOf(Event[m]) = Event[m].filterOutputID
           /\ Event[m].filterOutputID \in FilterOutput \ {""}
BY EventAssumption DEF isFilterJob, SubjectOf, TargetOf, EventRecord

\* The subject of a dataset job is no filter output's.
LEMMA DatasetJob ==
    ASSUME NEW m \in Message, ~isFilterJob(Event[m])
    PROVE  SubjectOf(Event[m]) \notin FilterOutput \ {""}
BY EventAssumption, SubjectAssumption DEF SubjectOf, EventRecord

LEMMA BucketType == \A pub : BucketOf(pub) \in Bucket
BY DEF BucketOf, Bucket

\* A message the worker handles is one.
LEMMA BusyMessage ==
    ASSUME TypeOK, NEW w \in Worker, pc[w] # "idle"
    PROVE  cur[w] \in Message /\ cur[w] # None
BY NoneAssumption DEF TypeOK, busy

-----------------------------------------------------------------------------
\* The steps of a handler and of its environment, with their common part.
LEMMA StepCases ==
    ASSUME [Next]_vars
    PROVE  \/ \E w \in Worker, m \in Message : Deliver(w, m)
           \/ \E w \in Worker : \/ Validate(w)
                                \/ pc[w] = "state" /\ GetState(w)
                                \/ GetCSVtoExcelStructure(w)
                                \/ AddMetaDataToExcelStructure(w)
                                \/ WriteKey(w)
                                \/ UploadXLSXFile(w)
                                \/ GetS3ContentLength(w)
                                \/ pc[w] = "update" /\ PutDownload(w)
                                \/ Return(w)
                                \/ Crash(w)
                                \/ CancelContext(w)
           \/ \E m \in Message : Revoke(m)
           \/ \E s \in Subject : Publish(s)
           \/ UNCHANGED vars
BY DEF Next, Handle, Environment, IsInstancePublished, isFilterPublished,
       UpdateInstance, UpdateFilterOutput, AwaitMessages

\* Only an upload changes a bucket, and only WriteKey the vault.
LEMMA BucketsKept ==
    ASSUME [Next]_vars, \A w \in Worker : ~UploadXLSXFile(w)
    PROVE  s3' = s3
BY StepCases
DEF Deliver, Validate, GetState, GetCSVtoExcelStructure, AddMetaDataToExcelStructure,
    WriteKey, GetS3ContentLength, PutDownload, Return, Crash, Die, CancelContext, Revoke,
    Publish, vars, stores

LEMMA VaultKept ==
    ASSUME [Next]_vars, \A w \in Worker : ~WriteKey(w)
    PROVE  vault' = vault
BY StepCases
DEF Deliver, Validate, GetState, GetCSVtoExcelStructure, AddMetaDataToExcelStructure,
    UploadXLSXFile, GetS3ContentLength, PutDownload, Return, Crash, Die, CancelContext,
    Revoke, Publish, vars, stores

\* Storing an object under a key leaves two buckets of objects.
LEMMA StoreType ==
    ASSUME TypeOK, NEW b \in Bucket, NEW f \in FileName, NEW object \in Object
    PROVE  [s3 EXCEPT ![b][f] = object] \in [Bucket -> [FileName -> Object \cup {None}]]
BY DEF TypeOK

\* The object and the record an attempt stores are not None.
LEMMA StoredIsSome ==
    ASSUME TypeOK, NEW w \in Worker, pc[w] # "idle"
    PROVE  /\ [by |-> attempt[w], whole |-> sheet[w] = "all"] # None
           /\ [access |-> BucketOf(isPublished[w]),
               file |-> generateS3FilenameXLSX(ev(w)),
               size |-> numBytes[w]] # None
<1>1. [by |-> attempt[w], whole |-> sheet[w] = "all"] \in Object
    BY DEF TypeOK, Object
<1>2. [access |-> BucketOf(isPublished[w]),
       file |-> generateS3FilenameXLSX(ev(w)),
       size |-> numBytes[w]] \in Download
    BY BusyMessage, BucketType, EventNames DEF ev, TypeOK, Download
<1> QED
    BY <1>1, <1>2, NoneAssumption

\* Every object is as it was before an upload, or it is the one uploaded.
LEMMA UploadEffect ==
    ASSUME TypeOK, NEW w \in Worker, UploadXLSXFile(w), NEW b \in Bucket, NEW f \in FileName
    PROVE  \/ s3'[b][f] = s3[b][f]
           \/ /\ b = BucketOf(isPublished[w]) /\ f = generateS3FilenameXLSX(ev(w))
              /\ s3'[b][f] # None
              /\ s3'[b][f].by = attempt[w]
              /\ s3'[b][f].whole <=> sheet[w] = "all"
<1> DEFINE object == [by |-> attempt[w], whole |-> sheet[w] = "all"]
           stored == [s3 EXCEPT ![uploadBucket(w)][generateS3FilenameXLSX(ev(w))] = object]
<1>1. s3' = s3 \/ s3' = stored
    BY DEF UploadXLSXFile
<1>2. /\ uploadBucket(w) \in Bucket
      /\ generateS3FilenameXLSX(ev(w)) \in FileName
    BY BusyMessage, BucketType, EventNames DEF UploadXLSXFile, ev, uploadBucket
<1>3. /\ object # None
      /\ object.by = attempt[w]
      /\ object.whole <=> sheet[w] = "all"
    <2>1. object # None
        BY StoredIsSome DEF UploadXLSXFile
    <2> QED
        BY <2>1
<1> HIDE DEF object
<1>4. CASE b = uploadBucket(w) /\ f = generateS3FilenameXLSX(ev(w))
    <2>1. stored[b][f] = object
        BY <1>2, <1>4 DEF TypeOK
    <2> QED
        BY <1>1, <1>3, <1>4, <2>1 DEF uploadBucket
<1>5. CASE ~(b = uploadBucket(w) /\ f = generateS3FilenameXLSX(ev(w)))
    <2>1. stored[b][f] = s3[b][f]
        BY <1>2, <1>5 DEF TypeOK
    <2> QED
        BY <1>1, <2>1
<1> QED
    BY <1>4, <1>5

\* Every record is as it was before an update, or it is the one put.
LEMMA PutEffect ==
    ASSUME TypeOK, NEW w \in Worker, pc[w] = "update", PutDownload(w), NEW t \in Target
    PROVE  \/ downloads'[t] = downloads[t]
           \/ /\ t = TargetOf(ev(w))
              /\ downloads'[t] # None
              /\ downloads'[t].access = BucketOf(isPublished[w])
              /\ published' = flagPut(w)
<1> DEFINE record == [access |-> BucketOf(isPublished[w]),
                      file |-> generateS3FilenameXLSX(ev(w)),
                      size |-> numBytes[w]]
<1>1. \/ downloads' = downloads
      \/ /\ downloads' = [downloads EXCEPT ![TargetOf(ev(w))] = record]
         /\ published' = flagPut(w)
    BY DEF PutDownload, Put
<1>2. record # None /\ record.access = BucketOf(isPublished[w])
    <2>1. record # None
        BY StoredIsSome
    <2> QED
        BY <2>1
<1> HIDE DEF record
<1> QED
    BY <1>1, <1>2 DEF TypeOK

\* The initial states are well typed.
LEMMA InitType == Init => TypeOK
<1> SUFFICES ASSUME Init PROVE TypeOK
    OBVIOUS
<1>1. s3 \in [Bucket -> [FileName -> Object \cup {None}]]
    BY DEF Init, Object
<1>2. vault \in [FileName -> Nat \cup {NoKey}]
    BY DEF Init
<1>3. \A w \in Worker : ~busy(w) /\ cur[w] \notin Message
    BY NoneAssumption DEF Init, busy
<1> QED
    BY <1>1, <1>2, <1>3 DEF Init, Sheet, TypeOK

\* Every step keeps the types.
LEMMA TypeStep ==
    ASSUME TypeOK, [Next]_vars
    PROVE  TypeOK'
<1> USE NumberAssumption, NoneAssumption
<1> USE DEF broker, locals, stores, history, busy
<1>1. ASSUME NEW w \in Worker, NEW m \in Message, Deliver(w, m)
      PROVE  TypeOK'
    <2>1. /\ owner' \in [Message -> Worker \cup {None}]
          /\ attempts' \in Nat /\ attempt' \in [Worker -> Nat]
          /\ cur' \in [Worker -> Message \cup {None}]
          /\ pc' = [pc EXCEPT ![w] = "validate"] /\ cur' = [cur EXCEPT ![w] = m]
        BY <1>1 DEF Deliver, Goto, TypeOK
    <2>2. alone' \in [Worker -> BOOLEAN]
        BY <1>1 DEF Deliver, TypeOK
    <2>3. \A v \in Worker : busy(v)' <=> cur'[v] \in Message
        BY <2>1 DEF TypeOK
    <2> QED
        BY <1>1, <2>1, <2>2, <2>3 DEF Deliver, TypeOK
<1>2. ASSUME NEW w \in Worker, Validate(w)
      PROVE  TypeOK'
    BY <1>2 DEF Validate, Goto, Fail, TypeOK
<1>3. ASSUME NEW w \in Worker, pc[w] = "state", GetState(w)
      PROVE  TypeOK'
    <2>1. published[SubjectOf(ev(w))] \in BOOLEAN
        BY <1>3, BusyMessage, EventNames DEF TypeOK, ev
    <2> QED
        BY <1>3, <2>1 DEF GetState, ContextCallFails, Fault, Goto, Fail, TypeOK
<1>4. ASSUME NEW w \in Worker, GetCSVtoExcelStructure(w)
      PROVE  TypeOK'
    <2>1. RowsReturned(ctxDone[w]) \subseteq Sheet
        BY DEF RowsReturned, Sheet
    <2> QED
        BY <1>4, <2>1
        DEF GetCSVtoExcelStructure, ContextCallFails, Fault, Goto, Fail, TypeOK
<1>5. ASSUME NEW w \in Worker, AddMetaDataToExcelStructure(w)
      PROVE  TypeOK'
    BY <1>5 DEF AddMetaDataToExcelStructure, ContextCallFails, Fault, Goto, Fail, TypeOK
<1>6. ASSUME NEW w \in Worker, WriteKey(w)
      PROVE  TypeOK'
    <2>1. vaultPathXLSX(ev(w)) \in FileName
        BY <1>6, BusyMessage, EventNames DEF WriteKey, ev
    <2> QED
        BY <1>6, <2>1 DEF WriteKey, Fault, Goto, Fail, TypeOK
<1>7. ASSUME NEW w \in Worker, UploadXLSXFile(w)
      PROVE  TypeOK'
    <2>1. s3' \in [Bucket -> [FileName -> Object \cup {None}]]
        <3>1. /\ uploadBucket(w) \in Bucket
              /\ generateS3FilenameXLSX(ev(w)) \in FileName
            BY <1>7, BusyMessage, BucketType, EventNames
            DEF UploadXLSXFile, ev, uploadBucket
        <3>2. [by |-> attempt[w], whole |-> sheet[w] = "all"] \in Object
            BY DEF TypeOK, Object
        <3>3. [s3 EXCEPT ![uploadBucket(w)][generateS3FilenameXLSX(ev(w))] =
                  [by |-> attempt[w], whole |-> sheet[w] = "all"]]
              \in [Bucket -> [FileName -> Object \cup {None}]]
            BY <3>1, <3>2, StoreType
        <3> QED
            BY <1>7, <3>3 DEF UploadXLSXFile, TypeOK
    <2> QED
        BY <1>7, <2>1 DEF UploadXLSXFile, ContextCallFails, Fault, Goto, Fail, TypeOK
<1>8. ASSUME NEW w \in Worker, GetS3ContentLength(w)
      PROVE  TypeOK'
    <2> DEFINE object == s3[BucketOf(isPublished[w])][headFile(w)]
    <2>1. object # None => object.by \in Nat
        BY <1>8, BusyMessage, BucketType, EventNames
        DEF GetS3ContentLength, headFile, ev, TypeOK, Object
    <2> QED
        BY <1>8, <2>1 DEF GetS3ContentLength, ContextCallFails, Fault, Goto, Fail, TypeOK
<1>9. ASSUME NEW w \in Worker, pc[w] = "update", PutDownload(w)
      PROVE  TypeOK'
    <2>1. downloads' \in [Target -> Download \cup {None}]
        <3>1. TargetOf(ev(w)) \in Target
            BY <1>9, BusyMessage, EventNames DEF ev
        <3>2. [access |-> BucketOf(isPublished[w]),
               file |-> generateS3FilenameXLSX(ev(w)),
               size |-> numBytes[w]] \in Download
            BY <1>9, BusyMessage, BucketType, EventNames DEF ev, TypeOK, Download
        <3> QED
            BY <1>9, <3>1, <3>2 DEF PutDownload, Put, TypeOK
    <2>2. published' \in [Subject -> BOOLEAN]
        BY <1>9 DEF PutDownload, Put, flagPut, TypeOK
    <2> QED
        BY <1>9, <2>1, <2>2 DEF PutDownload, ContextCallFails, Fault, Goto, Fail, TypeOK
<1>10. ASSUME NEW w \in Worker, Return(w)
       PROVE  TypeOK'
    <2>1. cur[w] \in Message
        BY <1>10, BusyMessage DEF Return
    <2> QED
        BY <1>10, <2>1 DEF Return, DropLocals, Goto, Sheet, TypeOK
<1>11. ASSUME NEW w \in Worker, Crash(w)
       PROVE  TypeOK'
    BY <1>11 DEF Crash, Die, DropLocals, Fault, Goto, Sheet, TypeOK
<1>12. ASSUME NEW w \in Worker, CancelContext(w)
       PROVE  TypeOK'
    BY <1>12 DEF CancelContext, Fault, TypeOK
<1>13. ASSUME NEW m \in Message, Revoke(m)
       PROVE  TypeOK'
    BY <1>13 DEF Revoke, Fault, TypeOK
<1>14. ASSUME NEW s \in Subject, Publish(s)
       PROVE  TypeOK'
    BY <1>14 DEF Publish, TypeOK
<1>15. CASE UNCHANGED vars
    BY <1>15 DEF vars, TypeOK
<1> QED
    BY StepCases, <1>1, <1>2, <1>3, <1>4, <1>5, <1>6, <1>7, <1>8, <1>9, <1>10,
       <1>11, <1>12, <1>13, <1>14, <1>15

\* Every variable of XlsxCreate keeps its type.
THEOREM TypeCorrect == Spec => []TypeOK
BY InitType, TypeStep, PTL DEF Spec

-----------------------------------------------------------------------------
\* The inductive invariant, one part for each property.

\* A sheet cut short is of a handler whose context has ended, and gets no
\* further than AddMetaDataToExcelStructure.
WholeInv ==
    /\ OnlyWholeWorkbooks
    /\ \A w \in Worker :
          /\ pc[w] = "metadata" => ctxDone[w] \/ sheet[w] = "all"
          /\ pc[w] \in {"writekey", "upload"} => sheet[w] = "all"

\* What a handler holds to be published has been released: its publisher never
\* takes it back, and a handler writes back only what it has read, to a filter
\* output.  An instance, which no handler writes to, is published still.
ReleaseInv ==
    /\ NoPrerelease
    /\ PublicLinksStand
    /\ \A w \in Worker : isPublished[w] =>
          /\ busy(w)
          /\ SubjectOf(ev(w)) \in released
          /\ isFilterJob(ev(w)) \/ published[SubjectOf(ev(w))]

\* A handler is about to return nil only after the record of its message is put.
ExportInv ==
    /\ CommittedIsExportedOrReported
    /\ \A w \in Worker : pc[w] = "nil" => downloads[TargetOf(ev(w))] # None

\* Every attempt has a number, so that its objects are told from upstream's.
AttemptInv == \A w \in Worker : busy(w) => attempt[w] > 0

\* An attempt nobody overlaps finds each of its writes as it left it.
NoOverlap(w) ==
    \A v \in Worker \ {w} : busy(v) =>
        ~Conflict(cur[v], cur[w]) /\ ~Conflict(cur[w], cur[v])
KeyKept(w) ==
    pc[w] \in {"upload", "head", "update", "nil"} /\ ~isPublished[w] =>
        vault[vaultPathXLSX(ev(w))] = attempt[w]
ObjectKept(w) ==
    pc[w] \in {"head", "update", "nil"} =>
        xlsxObject(w) = [by |-> attempt[w], whole |-> TRUE]
SizeKept(w) == pc[w] \in {"update", "nil"} => numBytes[w] = attempt[w]
RecordKept(w) ==
    pc[w] = "nil" => downloads[TargetOf(ev(w))] = xlsxRecord(w)

IsolationInv ==
    \A w \in Worker : busy(w) /\ alone[w] =>
        NoOverlap(w) /\ KeyKept(w) /\ ObjectKept(w) /\ SizeKept(w) /\ RecordKept(w)

\* A handler is at its update only when its object is there, and past its key only
\* when it has one, its own or that of a later attempt.
LinkInv ==
    /\ LinksLead
    /\ \A w \in Worker :
          /\ pc[w] \in {"head", "update"} =>
                hasWorkbook(BucketOf(isPublished[w]), generateS3FilenameXLSX(ev(w)))
          /\ pc[w] \in {"upload", "head", "update"} /\ ~isPublished[w] =>
                hasKey(vaultPathXLSX(ev(w)))

IInv == TypeOK /\ WholeInv /\ ReleaseInv /\ ExportInv /\ AttemptInv /\ IsolationInv /\ LinkInv

-----------------------------------------------------------------------------
\* Every step keeps WholeInv.
LEMMA WholeStep ==
    ASSUME TypeOK, TypeOK', WholeInv, [Next]_vars
    PROVE  WholeInv'
<1> USE NoneAssumption
<1> USE DEF broker, locals, stores, history, busy, ev
<1>1. ASSUME NEW w \in Worker, NEW m \in Message, Deliver(w, m)
      PROVE  WholeInv'
    BY <1>1 DEF Deliver, Goto, TypeOK, WholeInv, OnlyWholeWorkbooks
<1>2. ASSUME NEW w \in Worker, Validate(w)
      PROVE  WholeInv'
    BY <1>2 DEF Validate, Goto, Fail, TypeOK, WholeInv, OnlyWholeWorkbooks
<1>3. ASSUME NEW w \in Worker, pc[w] = "state", GetState(w)
      PROVE  WholeInv'
    BY <1>3 DEF GetState, Goto, Fail, TypeOK, WholeInv, OnlyWholeWorkbooks
<1>4. ASSUME NEW w \in Worker, GetCSVtoExcelStructure(w)
      PROVE  WholeInv'
    BY <1>4
    DEF GetCSVtoExcelStructure, RowsReturned, Goto, Fail, TypeOK, WholeInv,
        OnlyWholeWorkbooks
<1>5. ASSUME NEW w \in Worker, AddMetaDataToExcelStructure(w)
      PROVE  WholeInv'
    BY <1>5
    DEF AddMetaDataToExcelStructure, ContextLive, Goto, Fail, TypeOK, WholeInv, OnlyWholeWorkbooks
<1>6. ASSUME NEW w \in Worker, WriteKey(w)
      PROVE  WholeInv'
    BY <1>6 DEF WriteKey, Goto, Fail, TypeOK, WholeInv, OnlyWholeWorkbooks
<1>7. ASSUME NEW w \in Worker, UploadXLSXFile(w)
      PROVE  WholeInv'
    <2>1. sheet[w] = "all"
        BY <1>7 DEF UploadXLSXFile, WholeInv
    <2>2. ASSUME NEW b \in Bucket, NEW f \in FileName, s3'[b][f] # None
          PROVE  s3'[b][f].whole
        BY <1>7, <2>1, <2>2, UploadEffect DEF WholeInv, OnlyWholeWorkbooks
    <2> QED
        BY <1>7, <2>2 DEF UploadXLSXFile, Goto, Fail, TypeOK, WholeInv, OnlyWholeWorkbooks
<1>8. ASSUME NEW w \in Worker, GetS3ContentLength(w)
      PROVE  WholeInv'
    BY <1>8 DEF GetS3ContentLength, Goto, Fail, TypeOK, WholeInv, OnlyWholeWorkbooks
<1>9. ASSUME NEW w \in Worker, pc[w] = "update", PutDownload(w)
      PROVE  WholeInv'
    BY <1>9 DEF PutDownload, Goto, Fail, TypeOK, WholeInv, OnlyWholeWorkbooks
<1>10. ASSUME NEW w \in Worker, Return(w)
       PROVE  WholeInv'
    BY <1>10 DEF Return, DropLocals, Goto, TypeOK, WholeInv, OnlyWholeWorkbooks
<1>11. ASSUME NEW w \in Worker, Crash(w)
       PROVE  WholeInv'
    BY <1>11 DEF Crash, Die, DropLocals, Goto, TypeOK, WholeInv, OnlyWholeWorkbooks
<1>12. ASSUME NEW w \in Worker, CancelContext(w)
       PROVE  WholeInv'
    BY <1>12 DEF CancelContext, TypeOK, WholeInv, OnlyWholeWorkbooks
<1>13. ASSUME NEW m \in Message, Revoke(m)
       PROVE  WholeInv'
    BY <1>13 DEF Revoke, TypeOK, WholeInv, OnlyWholeWorkbooks
<1>14. ASSUME NEW s \in Subject, Publish(s)
       PROVE  WholeInv'
    BY <1>14 DEF Publish, TypeOK, WholeInv, OnlyWholeWorkbooks
<1>15. CASE UNCHANGED vars
    BY <1>15 DEF vars, TypeOK, WholeInv, OnlyWholeWorkbooks
<1> QED
    BY StepCases, <1>1, <1>2, <1>3, <1>4, <1>5, <1>6, <1>7, <1>8, <1>9, <1>10,
       <1>11, <1>12, <1>13, <1>14, <1>15

\* Every step keeps ExportInv.
LEMMA ExportStep ==
    ASSUME TypeOK, TypeOK', ExportInv, [Next]_vars
    PROVE  ExportInv'
<1> USE NoneAssumption
<1> USE DEF broker, locals, stores, history, busy, ev
<1>1. ASSUME NEW w \in Worker, NEW m \in Message, Deliver(w, m)
      PROVE  ExportInv'
    BY <1>1 DEF Deliver, Goto, TypeOK, ExportInv, CommittedIsExportedOrReported
<1>2. ASSUME NEW w \in Worker, Validate(w)
      PROVE  ExportInv'
    BY <1>2 DEF Validate, Goto, Fail, TypeOK, ExportInv, CommittedIsExportedOrReported
<1>3. ASSUME NEW w \in Worker, pc[w] = "state", GetState(w)
      PROVE  ExportInv'
    BY <1>3 DEF GetState, Goto, Fail, TypeOK, ExportInv, CommittedIsExportedOrReported
<1>4. ASSUME NEW w \in Worker, GetCSVtoExcelStructure(w)
      PROVE  ExportInv'
    BY <1>4 DEF GetCSVtoExcelStructure, Goto, Fail, TypeOK, ExportInv, CommittedIsExportedOrReported
<1>5. ASSUME NEW w \in Worker, AddMetaDataToExcelStructure(w)
      PROVE  ExportInv'
    BY <1>5
    DEF AddMetaDataToExcelStructure, ContextLive, Goto, Fail, TypeOK, ExportInv, CommittedIsExportedOrReported
<1>6. ASSUME NEW w \in Worker, WriteKey(w)
      PROVE  ExportInv'
    BY <1>6 DEF WriteKey, Goto, Fail, TypeOK, ExportInv, CommittedIsExportedOrReported
<1>7. ASSUME NEW w \in Worker, UploadXLSXFile(w)
      PROVE  ExportInv'
    BY <1>7 DEF UploadXLSXFile, Goto, Fail, TypeOK, ExportInv, CommittedIsExportedOrReported
<1>8. ASSUME NEW w \in Worker, GetS3ContentLength(w)
      PROVE  ExportInv'
    BY <1>8 DEF GetS3ContentLength, Goto, Fail, TypeOK, ExportInv, CommittedIsExportedOrReported
<1>9. ASSUME NEW w \in Worker, pc[w] = "update", PutDownload(w)
      PROVE  ExportInv'
    <2>1. \A t \in Target : downloads[t] # None => downloads'[t] # None
        BY <1>9, PutEffect
    <2>2. CommittedIsExportedOrReported'
        BY <1>9, <2>1, EventNames
        DEF PutDownload, TypeOK, ExportInv, CommittedIsExportedOrReported
    <2>3. ASSUME NEW v \in Worker, pc'[v] = "nil"
          PROVE  downloads'[TargetOf(Event[cur'[v]])] # None
        <3>1. cur' = cur /\ cur[v] \in Message
            BY <1>9, <2>3, BusyMessage DEF PutDownload, Goto, Fail, TypeOK
        <3>2. TargetOf(Event[cur[v]]) \in Target
            BY <3>1, EventNames
        <3>3. CASE v = w
            <4>1. downloads' = [downloads EXCEPT ![TargetOf(Event[cur[w]])] =
                                   [access |-> BucketOf(isPublished[w]),
                                    file |-> generateS3FilenameXLSX(Event[cur[w]]),
                                    size |-> numBytes[w]]]
                BY <1>9, <2>3, <3>3 DEF PutDownload, Put, Goto, Fail, TypeOK
            <4> QED
                BY <1>9, <3>1, <3>2, <3>3, <4>1, StoredIsSome DEF TypeOK
        <3>4. CASE v # w
            BY <1>9, <2>1, <2>3, <3>1, <3>2, <3>4 DEF PutDownload, Goto, Fail, TypeOK, ExportInv
        <3> QED
            BY <3>3, <3>4
    <2> QED
        BY <2>2, <2>3 DEF ExportInv
<1>10. ASSUME NEW w \in Worker, Return(w)
       PROVE  ExportInv'
    BY <1>10 DEF Return, DropLocals, Goto, TypeOK, ExportInv, CommittedIsExportedOrReported
<1>11. ASSUME NEW w \in Worker, Crash(w)
       PROVE  ExportInv'
    BY <1>11 DEF Crash, Die, DropLocals, Goto, TypeOK, ExportInv, CommittedIsExportedOrReported
<1>12. ASSUME NEW w \in Worker, CancelContext(w)
       PROVE  ExportInv'
    BY <1>12 DEF CancelContext, TypeOK, ExportInv, CommittedIsExportedOrReported
<1>13. ASSUME NEW m \in Message, Revoke(m)
       PROVE  ExportInv'
    BY <1>13 DEF Revoke, TypeOK, ExportInv, CommittedIsExportedOrReported
<1>14. ASSUME NEW s \in Subject, Publish(s)
       PROVE  ExportInv'
    BY <1>14 DEF Publish, TypeOK, ExportInv, CommittedIsExportedOrReported
<1>15. CASE UNCHANGED vars
    BY <1>15 DEF vars, TypeOK, ExportInv, CommittedIsExportedOrReported
<1> QED
    BY StepCases, <1>1, <1>2, <1>3, <1>4, <1>5, <1>6, <1>7, <1>8, <1>9, <1>10,
       <1>11, <1>12, <1>13, <1>14, <1>15

\* What is public stays right while the stores and the flags stay as they are.
LEMMA ReleaseKept ==
    ASSUME NoPrerelease, PublicLinksStand, UNCHANGED <<s3, downloads, published, released>>
    PROVE  NoPrerelease' /\ PublicLinksStand'
BY DEF NoPrerelease, PublicLinksStand, isPublic

\* Every step keeps ReleaseInv.
LEMMA ReleaseStep ==
    ASSUME TypeOK, TypeOK', ReleaseInv, [Next]_vars
    PROVE  ReleaseInv'
<1> USE NoneAssumption
<1> USE DEF broker, locals, stores, history, busy, ev
<1>0. UNCHANGED <<s3, downloads, published, released>> => NoPrerelease' /\ PublicLinksStand'
    BY ReleaseKept DEF ReleaseInv
<1>1. ASSUME NEW w \in Worker, NEW m \in Message, Deliver(w, m)
      PROVE  ReleaseInv'
    BY <1>0, <1>1 DEF Deliver, Goto, TypeOK, ReleaseInv
<1>2. ASSUME NEW w \in Worker, Validate(w)
      PROVE  ReleaseInv'
    BY <1>0, <1>2 DEF Validate, Goto, Fail, TypeOK, ReleaseInv
<1>3. ASSUME NEW w \in Worker, pc[w] = "state", GetState(w)
      PROVE  ReleaseInv'
    <2>1. cur[w] \in Message /\ SubjectOf(Event[cur[w]]) \in Subject
        BY <1>3, BusyMessage, EventNames
    <2>2. published[SubjectOf(Event[cur[w]])] => SubjectOf(Event[cur[w]]) \in released
        BY <2>1 DEF ReleaseInv, NoPrerelease
    <2> QED
        BY <1>0, <1>3, <2>2 DEF GetState, Goto, Fail, TypeOK, ReleaseInv
<1>4. ASSUME NEW w \in Worker, GetCSVtoExcelStructure(w)
      PROVE  ReleaseInv'
    BY <1>0, <1>4 DEF GetCSVtoExcelStructure, Goto, Fail, TypeOK, ReleaseInv
<1>5. ASSUME NEW w \in Worker, AddMetaDataToExcelStructure(w)
      PROVE  ReleaseInv'
    BY <1>0, <1>5 DEF AddMetaDataToExcelStructure, ContextLive, Goto, Fail, TypeOK, ReleaseInv
<1>6. ASSUME NEW w \in Worker, WriteKey(w)
      PROVE  ReleaseInv'
    BY <1>0, <1>6 DEF WriteKey, Goto, Fail, TypeOK, ReleaseInv
<1>7. ASSUME NEW w \in Worker, UploadXLSXFile(w)
      PROVE  ReleaseInv'
    <2>1. cur[w] \in Message /\ (isPublished[w] => SubjectOf(Event[cur[w]]) \in released)
        BY <1>7, BusyMessage DEF UploadXLSXFile, ReleaseInv
    <2>2. ASSUME NEW f \in FileName, s3'["public"][f] # None, s3'["public"][f].by > 0
          PROVE  \E m \in Message : /\ f = generateS3FilenameXLSX(Event[m])
                                    /\ SubjectOf(Event[m]) \in released
        <3>1. "public" \in Bucket /\ (BucketOf(isPublished[w]) = "public" => isPublished[w])
            BY DEF BucketOf, Bucket
        <3>2. \/ s3'["public"][f] = s3["public"][f]
              \/ isPublished[w] /\ f = generateS3FilenameXLSX(Event[cur[w]])
            BY <1>7, <3>1, UploadEffect
        <3> QED
            BY <2>1, <2>2, <3>2 DEF ReleaseInv, NoPrerelease
    <2>3. UNCHANGED <<downloads, published, released>>
        BY <1>7 DEF UploadXLSXFile
    <2>4. NoPrerelease' /\ PublicLinksStand'
        BY <2>2, <2>3 DEF ReleaseInv, NoPrerelease, PublicLinksStand, isPublic
    <2> QED
        BY <1>7, <2>4 DEF UploadXLSXFile, Goto, Fail, TypeOK, ReleaseInv
<1>8. ASSUME NEW w \in Worker, GetS3ContentLength(w)
      PROVE  ReleaseInv'
    BY <1>0, <1>8 DEF GetS3ContentLength, Goto, Fail, TypeOK, ReleaseInv
<1>9. ASSUME NEW w \in Worker, pc[w] = "update", PutDownload(w)
      PROVE  ReleaseInv'
    <2> DEFINE e == Event[cur[w]]
    <2>1. /\ cur[w] \in Message /\ TargetOf(e) \in Target /\ SubjectOf(e) \in Subject
          /\ isPublished[w] => /\ SubjectOf(e) \in released
                               /\ isFilterJob(e) \/ published[SubjectOf(e)]
          /\ UNCHANGED <<s3, released>>
        BY <1>9, BusyMessage, EventNames DEF ReleaseInv, PutDownload
    <2>2. CASE UNCHANGED <<downloads, published>>
        BY <1>0, <1>9, <2>1, <2>2 DEF PutDownload, Goto, Fail, TypeOK, ReleaseInv
    <2>3. CASE Put(w)
        <3>1. ASSUME NEW s \in Subject
              PROVE  \/ published'[s] = published[s]
                     \/ /\ isFilterJob(e) /\ s = SubjectOf(e) /\ s = e.filterOutputID
                        /\ published'[s] = isPublished[w]
            BY <2>1, <2>3, FilterJob DEF Put, flagPut, TypeOK
        <3>2. ASSUME NEW t \in Target, isPublic(t)'
              PROVE  \/ isPublic(t) /\ t # TargetOf(e)
                     \/ isPublished[w] /\ t = TargetOf(e)
            <4>1. CASE t = TargetOf(e)
                <5>1. downloads'[t].access = BucketOf(isPublished[w])
                    BY <2>1, <2>3, <4>1 DEF Put, TypeOK
                <5> QED
                    BY <3>2, <4>1, <5>1 DEF isPublic, BucketOf
            <4>2. CASE t # TargetOf(e)
                BY <2>3, <3>2, <4>2 DEF Put, TypeOK, isPublic
            <4> QED
                BY <4>1, <4>2
        <3>3. NoPrerelease'
            <4>1. ASSUME NEW t \in Target, isPublic(t)'
                  PROVE  \E m \in Message : /\ t = TargetOf(Event[m])
                                            /\ SubjectOf(Event[m]) \in released
                BY <2>1, <3>2, <4>1 DEF ReleaseInv, NoPrerelease
            <4>2. ASSUME NEW s \in Subject, published'[s]
                  PROVE  s \in released
                BY <2>1, <3>1, <4>2 DEF ReleaseInv, NoPrerelease
            <4> QED
                BY <2>1, <4>1, <4>2 DEF ReleaseInv, NoPrerelease
        <3>4. ASSUME NEW m \in Message, ~isFilterJob(Event[m]), published[SubjectOf(Event[m])]
              PROVE  published'[SubjectOf(Event[m])]
            <4>1. SubjectOf(Event[m]) \in Subject /\ SubjectOf(Event[m]) \notin FilterOutput \ {""}
                BY <3>4, EventNames, DatasetJob
            <4>2. isFilterJob(e) => e.filterOutputID \in FilterOutput \ {""}
                BY <2>1, FilterJob
            <4> QED
                BY <3>1, <3>4, <4>1, <4>2
        <3>5. ASSUME NEW t \in Target, isPublic(t)'
              PROVE  \E m \in Message : /\ t = TargetOf(Event[m])
                                        /\ published'[SubjectOf(Event[m])]
            <4>1. CASE isPublished[w] /\ t = TargetOf(e) /\ isFilterJob(e)
                BY <2>1, <2>3, <4>1, FilterJob DEF Put, flagPut, TypeOK
            <4>2. CASE isPublished[w] /\ t = TargetOf(e) /\ ~isFilterJob(e)
                BY <2>1, <3>4, <4>2
            <4>3. CASE isPublic(t) /\ t # TargetOf(e)
                <5>1. PICK m \in Message : t = TargetOf(Event[m]) /\ published[SubjectOf(Event[m])]
                    BY <4>3 DEF ReleaseInv, PublicLinksStand
                <5>2. CASE isFilterJob(Event[m])
                    <6>1. SubjectOf(Event[m]) = t /\ SubjectOf(Event[m]) \in Subject
                        BY <5>1, <5>2, FilterJob, EventNames
                    <6>2. isFilterJob(e) => SubjectOf(e) = TargetOf(e)
                        BY <2>1, FilterJob
                    <6> QED
                        BY <3>1, <4>3, <5>1, <6>1, <6>2
                <5>3. CASE ~isFilterJob(Event[m])
                    BY <3>4, <5>1, <5>3
                <5> QED
                    BY <5>2, <5>3
            <4> QED
                BY <3>2, <3>5, <4>1, <4>2, <4>3
        <3>6. \A v \in Worker : isPublished[v] =>
                  /\ SubjectOf(Event[cur[v]]) \in released
                  /\ isFilterJob(Event[cur[v]]) \/ published'[SubjectOf(Event[cur[v]])]
            BY <3>4, BusyMessage DEF ReleaseInv
        <3> QED
            BY <1>9, <2>1, <3>3, <3>5, <3>6
            DEF PutDownload, Goto, Fail, TypeOK, ReleaseInv, PublicLinksStand
    <2> QED
        BY <1>9, <2>2, <2>3 DEF PutDownload
<1>10. ASSUME NEW w \in Worker, Return(w)
       PROVE  ReleaseInv'
    BY <1>0, <1>10 DEF Return, DropLocals, Goto, TypeOK, ReleaseInv
<1>11. ASSUME NEW w \in Worker, Crash(w)
       PROVE  ReleaseInv'
    BY <1>0, <1>11 DEF Crash, Die, DropLocals, Goto, TypeOK, ReleaseInv
<1>12. ASSUME NEW w \in Worker, CancelContext(w)
       PROVE  ReleaseInv'
    BY <1>0, <1>12 DEF CancelContext, TypeOK, ReleaseInv
<1>13. ASSUME NEW m \in Message, Revoke(m)
       PROVE  ReleaseInv'
    BY <1>0, <1>13 DEF Revoke, TypeOK, ReleaseInv
<1>14. ASSUME NEW s \in Subject, Publish(s)
       PROVE  ReleaseInv'
    <2>1. \A u \in Subject : /\ published[u] => published'[u]
                             /\ published'[u] => published[u] \/ u = s
        BY <1>14 DEF Publish, TypeOK
    <2>2. released' = released \cup {s} /\ UNCHANGED <<s3, downloads>>
        BY <1>14 DEF Publish
    <2>3. NoPrerelease'
        BY <2>1, <2>2 DEF ReleaseInv, NoPrerelease, isPublic
    <2>4. PublicLinksStand'
        BY <2>1, <2>2, EventNames DEF ReleaseInv, PublicLinksStand, isPublic
    <2>5. \A v \in Worker : isPublished[v] => SubjectOf(Event[cur[v]]) \in Subject
        BY BusyMessage, EventNames DEF ReleaseInv
    <2> QED
        BY <1>14, <2>1, <2>2, <2>3, <2>4, <2>5 DEF Publish, ReleaseInv
<1>15. CASE UNCHANGED vars
    BY <1>0, <1>15 DEF vars, TypeOK, ReleaseInv
<1> QED
    BY StepCases, <1>1, <1>2, <1>3, <1>4, <1>5, <1>6, <1>7, <1>8, <1>9, <1>10,
       <1>11, <1>12, <1>13, <1>14, <1>15

\* Every step keeps AttemptInv.
LEMMA AttemptStep ==
    ASSUME TypeOK, TypeOK', AttemptInv, [Next]_vars
    PROVE  AttemptInv'
<1> USE NoneAssumption
<1> USE DEF broker, locals, stores, history, busy, ev
<1>1. ASSUME NEW w \in Worker, NEW m \in Message, Deliver(w, m)
      PROVE  AttemptInv'
    BY <1>1 DEF Deliver, Goto, TypeOK, AttemptInv
<1>2. ASSUME NEW w \in Worker, Validate(w)
      PROVE  AttemptInv'
    BY <1>2 DEF Validate, Goto, Fail, TypeOK, AttemptInv
<1>3. ASSUME NEW w \in Worker, pc[w] = "state", GetState(w)
      PROVE  AttemptInv'
    BY <1>3 DEF GetState, Goto, Fail, TypeOK, AttemptInv
<1>4. ASSUME NEW w \in Worker, GetCSVtoExcelStructure(w)
      PROVE  AttemptInv'
    BY <1>4 DEF GetCSVtoExcelStructure, Goto, Fail, TypeOK, AttemptInv
<1>5. ASSUME NEW w \in Worker, AddMetaDataToExcelStructure(w)
      PROVE  AttemptInv'
    BY <1>5 DEF AddMetaDataToExcelStructure, ContextLive, Goto, Fail, TypeOK, AttemptInv
<1>6. ASSUME NEW w \in Worker, WriteKey(w)
      PROVE  AttemptInv'
    BY <1>6 DEF WriteKey, Goto, Fail, TypeOK, AttemptInv
<1>7. ASSUME NEW w \in Worker, UploadXLSXFile(w)
      PROVE  AttemptInv'
    BY <1>7 DEF UploadXLSXFile, Goto, Fail, TypeOK, AttemptInv
<1>8. ASSUME NEW w \in Worker, GetS3ContentLength(w)
      PROVE  AttemptInv'
    BY <1>8 DEF GetS3ContentLength, Goto, Fail, TypeOK, AttemptInv
<1>9. ASSUME NEW w \in Worker, pc[w] = "update", PutDownload(w)
      PROVE  AttemptInv'
    BY <1>9 DEF PutDownload, Goto, Fail, TypeOK, AttemptInv
<1>10. ASSUME NEW w \in Worker, Return(w)
       PROVE  AttemptInv'
    BY <1>10 DEF Return, DropLocals, Goto, TypeOK, AttemptInv
<1>11. ASSUME NEW w \in Worker, Crash(w)
       PROVE  AttemptInv'
    BY <1>11 DEF Crash, Die, DropLocals, Goto, TypeOK, AttemptInv
<1>12. ASSUME NEW w \in Worker, CancelContext(w)
       PROVE  AttemptInv'
    BY <1>12 DEF CancelContext, TypeOK, AttemptInv
<1>13. ASSUME NEW m \in Message, Revoke(m)
       PROVE  AttemptInv'
    BY <1>13 DEF Revoke, TypeOK, AttemptInv
<1>14. ASSUME NEW s \in Subject, Publish(s)
       PROVE  AttemptInv'
    BY <1>14 DEF Publish, TypeOK, AttemptInv
<1>15. CASE UNCHANGED vars
    BY <1>15 DEF vars, TypeOK, AttemptInv
<1> QED
    BY StepCases, <1>1, <1>2, <1>3, <1>4, <1>5, <1>6, <1>7, <1>8, <1>9, <1>10,
       <1>11, <1>12, <1>13, <1>14, <1>15

\* Every step keeps IsolationInv.
LEMMA IsolationStep ==
    ASSUME TypeOK, TypeOK', WholeInv, IsolationInv, [Next]_vars
    PROVE  IsolationInv'
<1> USE NoneAssumption
<1> USE DEF broker, locals, stores, history, busy, ev
<1>1. ASSUME NEW w \in Worker, NEW m \in Message, Deliver(w, m)
      PROVE  IsolationInv'
    <2> SUFFICES ASSUME NEW v \in Worker, pc'[v] # "idle", alone'[v]
                 PROVE  (NoOverlap(v) /\ KeyKept(v) /\ ObjectKept(v) /\ SizeKept(v)
                           /\ RecordKept(v))'
        BY DEF IsolationInv
    <2>1. /\ pc' = [pc EXCEPT ![w] = "validate"] /\ cur' = [cur EXCEPT ![w] = m]
          /\ attempt' = [attempt EXCEPT ![w] = attempts + 1]
          /\ UNCHANGED <<isPublished, numBytes, stores>>
        BY <1>1 DEF Deliver, Goto
    <2>2. \A n \in Message : Conflict(n, m) <=> Conflict(m, n)
        BY DEF Conflict
    <2>3. CASE v = w
        <3>1. \A u \in Worker \ {w} : pc[u] = "idle" \/ ~Conflict(cur[u], m)
            BY <1>1, <2>3 DEF Deliver, TypeOK
        <3>2. NoOverlap(w)'
            BY <2>1, <2>2, <3>1, BusyMessage DEF NoOverlap, TypeOK
        <3>3. pc'[w] = "validate"
            BY <2>1 DEF TypeOK
        <3> QED
            BY <2>3, <3>2, <3>3 DEF KeyKept, ObjectKept, SizeKept, RecordKept
    <2>4. CASE v # w
        <3>1. /\ pc'[v] = pc[v] /\ cur'[v] = cur[v] /\ attempt'[v] = attempt[v]
              /\ pc'[w] # "idle" /\ cur'[w] = m
            BY <2>1, <2>4 DEF TypeOK
        <3>2. alone[v] /\ ~Conflict(cur[v], m) /\ cur[v] \in Message
            BY <1>1, <2>4, <3>1, BusyMessage DEF Deliver, TypeOK
        <3>3. NoOverlap(v) /\ KeyKept(v) /\ ObjectKept(v) /\ SizeKept(v) /\ RecordKept(v)
            BY <3>1, <3>2 DEF IsolationInv
        <3>4. NoOverlap(v)'
            BY <2>1, <2>2, <2>4, <3>1, <3>2, <3>3 DEF NoOverlap, TypeOK
        <3> QED
            BY <2>1, <3>1, <3>3, <3>4
            DEF KeyKept, ObjectKept, SizeKept, RecordKept, xlsxObject, xlsxRecord
    <2> QED
        BY <2>3, <2>4
<1>2. ASSUME NEW w \in Worker, Validate(w)
      PROVE  IsolationInv'
    BY <1>2
    DEF Validate, Goto, Fail, TypeOK, IsolationInv, NoOverlap, KeyKept, ObjectKept, SizeKept,
        RecordKept, xlsxObject, xlsxRecord
<1>3. ASSUME NEW w \in Worker, pc[w] = "state", GetState(w)
      PROVE  IsolationInv'
    <2>1. /\ cur' = cur /\ alone' = alone /\ attempt' = attempt
          /\ pc'[w] # "idle"
          /\ \A v \in Worker \ {w} : /\ pc'[v] = pc[v]
                                      /\ isPublished'[v] = isPublished[v]
                                      /\ numBytes'[v] = numBytes[v]
        BY <1>3 DEF GetState, Goto, Fail, TypeOK
    <2>2. \A v \in Worker : pc'[v] # "idle" <=> pc[v] # "idle"
        BY <1>3, <2>1 DEF GetState
    <2> SUFFICES ASSUME NEW v \in Worker, pc'[v] # "idle", alone'[v]
                 PROVE  (NoOverlap(v) /\ KeyKept(v) /\ ObjectKept(v) /\ SizeKept(v)
                           /\ RecordKept(v))'
        BY DEF IsolationInv
    <2>3. pc[v] # "idle" /\ alone[v] /\ cur[v] \in Message /\ cur[w] \in Message
        BY <1>3, <2>1, <2>2, BusyMessage
    <2>4. NoOverlap(v) /\ KeyKept(v) /\ ObjectKept(v) /\ SizeKept(v) /\ RecordKept(v)
        BY <2>3 DEF IsolationInv
    <2>5. NoOverlap(v)'
        BY <2>1, <2>2, <2>4 DEF NoOverlap
    <2>6. CASE v = w
        BY <1>3, <2>5, <2>6 DEF GetState, Goto, Fail, TypeOK, KeyKept, ObjectKept, SizeKept,
                             RecordKept
    <2>7. CASE v # w
        BY <1>3, <2>1, <2>4, <2>5, <2>7
        DEF GetState, KeyKept, ObjectKept, SizeKept, RecordKept, xlsxObject, xlsxRecord
    <2> QED
        BY <2>5, <2>6, <2>7
<1>4. ASSUME NEW w \in Worker, GetCSVtoExcelStructure(w)
      PROVE  IsolationInv'
    BY <1>4
    DEF GetCSVtoExcelStructure, Goto, Fail, TypeOK, IsolationInv, NoOverlap, KeyKept, ObjectKept, SizeKept,
        RecordKept, xlsxObject, xlsxRecord
<1>5. ASSUME NEW w \in Worker, AddMetaDataToExcelStructure(w)
      PROVE  IsolationInv'
    BY <1>5
    DEF AddMetaDataToExcelStructure, ContextLive, Goto, Fail, TypeOK, IsolationInv, NoOverlap, KeyKept, ObjectKept, SizeKept,
        RecordKept, xlsxObject, xlsxRecord
<1>6. ASSUME NEW w \in Worker, WriteKey(w)
      PROVE  IsolationInv'
    <2>1. /\ cur' = cur /\ alone' = alone /\ attempt' = attempt
          /\ pc'[w] # "idle"
          /\ \A v \in Worker \ {w} : /\ pc'[v] = pc[v]
                                      /\ isPublished'[v] = isPublished[v]
                                      /\ numBytes'[v] = numBytes[v]
        BY <1>6 DEF WriteKey, Goto, Fail, TypeOK
    <2>2. \A v \in Worker : pc'[v] # "idle" <=> pc[v] # "idle"
        BY <1>6, <2>1 DEF WriteKey
    <2> SUFFICES ASSUME NEW v \in Worker, pc'[v] # "idle", alone'[v]
                 PROVE  (NoOverlap(v) /\ KeyKept(v) /\ ObjectKept(v) /\ SizeKept(v)
                           /\ RecordKept(v))'
        BY DEF IsolationInv
    <2>3. pc[v] # "idle" /\ alone[v] /\ cur[v] \in Message /\ cur[w] \in Message
        BY <1>6, <2>1, <2>2, BusyMessage
    <2>4. NoOverlap(v) /\ KeyKept(v) /\ ObjectKept(v) /\ SizeKept(v) /\ RecordKept(v)
        BY <2>3 DEF IsolationInv
    <2>5. NoOverlap(v)'
        BY <2>1, <2>2, <2>4 DEF NoOverlap
    <2>6. CASE v = w
        <3>1. pc'[w] \in {"upload", "error"} /\ numBytes' = numBytes
            BY <1>6 DEF WriteKey, Goto, Fail, TypeOK
        <3>2. pc'[w] = "upload" => vault'[vaultPathXLSX(Event[cur[w]])] = attempt[w]
            BY <1>6, <2>3, EventNames DEF WriteKey, Goto, Fail, TypeOK
        <3> QED
            BY <2>1, <2>5, <2>6, <3>1, <3>2
            DEF KeyKept, ObjectKept, SizeKept, RecordKept
    <2>7. CASE v # w
        <3>1. /\ vaultPathXLSX(Event[cur[v]]) # vaultPathXLSX(Event[cur[w]])
              /\ generateS3FilenameXLSX(Event[cur[v]]) # generateS3FilenameXLSX(Event[cur[w]])
              /\ TargetOf(Event[cur[v]]) # TargetOf(Event[cur[w]])
            BY <1>6, <2>2, <2>3, <2>4, <2>7 DEF WriteKey, NoOverlap, Conflict
        <3>2. vault'[vaultPathXLSX(Event[cur[v]])] = vault[vaultPathXLSX(Event[cur[v]])]
            BY <1>6, <2>3, <3>1, EventNames DEF WriteKey, TypeOK
        <3> QED
            BY <1>6, <2>1, <2>4, <2>5, <2>7, <3>2
            DEF WriteKey, KeyKept, ObjectKept, SizeKept, RecordKept, xlsxObject, xlsxRecord
    <2> QED
        BY <2>5, <2>6, <2>7
<1>7. ASSUME NEW w \in Worker, UploadXLSXFile(w)
      PROVE  IsolationInv'
    <2>1. /\ cur' = cur /\ alone' = alone /\ attempt' = attempt
          /\ pc'[w] # "idle"
          /\ \A v \in Worker \ {w} : /\ pc'[v] = pc[v]
                                      /\ isPublished'[v] = isPublished[v]
                                      /\ numBytes'[v] = numBytes[v]
        BY <1>7 DEF UploadXLSXFile, Goto, Fail, TypeOK
    <2>2. \A v \in Worker : pc'[v] # "idle" <=> pc[v] # "idle"
        BY <1>7, <2>1 DEF UploadXLSXFile
    <2> SUFFICES ASSUME NEW v \in Worker, pc'[v] # "idle", alone'[v]
                 PROVE  (NoOverlap(v) /\ KeyKept(v) /\ ObjectKept(v) /\ SizeKept(v)
                           /\ RecordKept(v))'
        BY DEF IsolationInv
    <2>3. pc[v] # "idle" /\ alone[v] /\ cur[v] \in Message /\ cur[w] \in Message
        BY <1>7, <2>1, <2>2, BusyMessage
    <2>4. NoOverlap(v) /\ KeyKept(v) /\ ObjectKept(v) /\ SizeKept(v) /\ RecordKept(v)
        BY <2>3 DEF IsolationInv
    <2>5. NoOverlap(v)'
        BY <2>1, <2>2, <2>4 DEF NoOverlap
    <2>6. CASE v = w
        <3>1. pc'[w] \in {"head", "error"} /\ sheet[w] = "all"
            BY <1>7 DEF UploadXLSXFile, Goto, Fail, TypeOK, WholeInv
        <3>2. ASSUME pc'[w] = "head"
              PROVE  s3'[BucketOf(isPublished[w])][generateS3FilenameXLSX(Event[cur[w]])]
                        = [by |-> attempt[w], whole |-> TRUE]
            <4>1. s3' = [s3 EXCEPT ![BucketOf(isPublished[w])]
                                     [generateS3FilenameXLSX(Event[cur[w]])] =
                            [by |-> attempt[w], whole |-> sheet[w] = "all"]]
                BY <1>7, <3>2 DEF UploadXLSXFile, uploadBucket, Goto, Fail, TypeOK
            <4>2. (sheet[w] = "all") = TRUE
                BY <3>1
            <4>3. s3' = [s3 EXCEPT ![BucketOf(isPublished[w])]
                                     [generateS3FilenameXLSX(Event[cur[w]])] =
                            [by |-> attempt[w], whole |-> TRUE]]
                BY <4>1, <4>2, Zenon
            <4> QED
                BY <2>3, <4>3, BucketType, EventNames DEF TypeOK
        <3>3. KeyKept(w)'
            BY <1>7, <2>1, <2>4, <2>6, <3>1 DEF UploadXLSXFile, KeyKept
        <3> QED
            BY <1>7, <2>1, <2>5, <2>6, <3>1, <3>2, <3>3
            DEF UploadXLSXFile, ObjectKept, SizeKept, RecordKept, xlsxObject
    <2>7. CASE v # w
        <3>1. /\ vaultPathXLSX(Event[cur[v]]) # vaultPathXLSX(Event[cur[w]])
              /\ generateS3FilenameXLSX(Event[cur[v]]) # generateS3FilenameXLSX(Event[cur[w]])
              /\ TargetOf(Event[cur[v]]) # TargetOf(Event[cur[w]])
            BY <1>7, <2>2, <2>3, <2>4, <2>7 DEF UploadXLSXFile, NoOverlap, Conflict
        <3>2. s3'[BucketOf(isPublished[v])][generateS3FilenameXLSX(Event[cur[v]])] =
                  s3[BucketOf(isPublished[v])][generateS3FilenameXLSX(Event[cur[v]])]
            BY <1>7, <2>3, <3>1, UploadEffect, BucketType, EventNames
        <3> QED
            BY <1>7, <2>1, <2>4, <2>5, <2>7, <3>2
            DEF UploadXLSXFile, KeyKept, ObjectKept, SizeKept, RecordKept, xlsxObject, xlsxRecord
    <2> QED
        BY <2>5, <2>6, <2>7
<1>8. ASSUME NEW w \in Worker, GetS3ContentLength(w)
      PROVE  IsolationInv'
    <2>1. /\ cur' = cur /\ alone' = alone /\ attempt' = attempt
          /\ pc'[w] # "idle"
          /\ \A v \in Worker \ {w} : /\ pc'[v] = pc[v]
                                      /\ isPublished'[v] = isPublished[v]
                                      /\ numBytes'[v] = numBytes[v]
        BY <1>8 DEF GetS3ContentLength, Goto, Fail, TypeOK
    <2>2. \A v \in Worker : pc'[v] # "idle" <=> pc[v] # "idle"
        BY <1>8, <2>1 DEF GetS3ContentLength
    <2> SUFFICES ASSUME NEW v \in Worker, pc'[v] # "idle", alone'[v]
                 PROVE  (NoOverlap(v) /\ KeyKept(v) /\ ObjectKept(v) /\ SizeKept(v)
                           /\ RecordKept(v))'
        BY DEF IsolationInv
    <2>3. pc[v] # "idle" /\ alone[v] /\ cur[v] \in Message /\ cur[w] \in Message
        BY <1>8, <2>1, <2>2, BusyMessage
    <2>4. NoOverlap(v) /\ KeyKept(v) /\ ObjectKept(v) /\ SizeKept(v) /\ RecordKept(v)
        BY <2>3 DEF IsolationInv
    <2>5. NoOverlap(v)'
        BY <2>1, <2>2, <2>4 DEF NoOverlap
    <2>6. CASE v = w
        <3>1. /\ pc'[w] \in {"update", "error"} /\ s3' = s3 /\ vault' = vault
              /\ isPublished' = isPublished
            BY <1>8 DEF GetS3ContentLength, Goto, Fail, TypeOK
        <3>2. s3[BucketOf(isPublished[w])][generateS3FilenameXLSX(Event[cur[w]])].by = attempt[w]
            BY <1>8, <2>4, <2>6 DEF GetS3ContentLength, ObjectKept, xlsxObject
        <3>3. pc'[w] = "update" => numBytes'[w] = attempt[w]
            BY <1>8, <3>2 DEF GetS3ContentLength, headFile, Goto, Fail, TypeOK
        <3>4. KeyKept(w)' /\ ObjectKept(w)'
            BY <1>8, <2>1, <2>4, <2>6, <3>1
            DEF GetS3ContentLength, KeyKept, ObjectKept, xlsxObject
        <3> QED
            BY <2>1, <2>5, <2>6, <3>1, <3>3, <3>4 DEF SizeKept, RecordKept
    <2>7. CASE v # w
        BY <1>8, <2>1, <2>4, <2>5, <2>7
        DEF GetS3ContentLength, KeyKept, ObjectKept, SizeKept, RecordKept, xlsxObject, xlsxRecord
    <2> QED
        BY <2>5, <2>6, <2>7
<1>9. ASSUME NEW w \in Worker, pc[w] = "update", PutDownload(w)
      PROVE  IsolationInv'
    <2>1. /\ cur' = cur /\ alone' = alone /\ attempt' = attempt
          /\ pc'[w] # "idle"
          /\ \A v \in Worker \ {w} : /\ pc'[v] = pc[v]
                                      /\ isPublished'[v] = isPublished[v]
                                      /\ numBytes'[v] = numBytes[v]
        BY <1>9 DEF PutDownload, Goto, Fail, TypeOK
    <2>2. \A v \in Worker : pc'[v] # "idle" <=> pc[v] # "idle"
        BY <1>9, <2>1 DEF PutDownload
    <2> SUFFICES ASSUME NEW v \in Worker, pc'[v] # "idle", alone'[v]
                 PROVE  (NoOverlap(v) /\ KeyKept(v) /\ ObjectKept(v) /\ SizeKept(v)
                           /\ RecordKept(v))'
        BY DEF IsolationInv
    <2>3. pc[v] # "idle" /\ alone[v] /\ cur[v] \in Message /\ cur[w] \in Message
        BY <1>9, <2>1, <2>2, BusyMessage
    <2>4. NoOverlap(v) /\ KeyKept(v) /\ ObjectKept(v) /\ SizeKept(v) /\ RecordKept(v)
        BY <2>3 DEF IsolationInv
    <2>5. NoOverlap(v)'
        BY <2>1, <2>2, <2>4 DEF NoOverlap
    <2>6. CASE v = w
        <3>1. /\ pc'[w] \in {"nil", "error"} /\ s3' = s3 /\ vault' = vault
              /\ isPublished' = isPublished /\ numBytes' = numBytes
            BY <1>9 DEF PutDownload, Goto, Fail, TypeOK
        <3>2. KeyKept(w)' /\ ObjectKept(w)' /\ SizeKept(w)'
            BY <1>9, <2>1, <2>4, <2>6, <3>1
            DEF KeyKept, ObjectKept, SizeKept, xlsxObject
        <3>3. ASSUME pc'[w] = "nil"
              PROVE  downloads'[TargetOf(Event[cur[w]])] = xlsxRecord(w)
            <4>1. numBytes[w] = attempt[w]
                BY <1>9, <2>4, <2>6 DEF SizeKept
            <4>2. downloads' = [downloads EXCEPT ![TargetOf(Event[cur[w]])] = xlsxRecord(w)]
                BY <1>9, <3>3, <4>1 DEF PutDownload, Put, xlsxRecord, Goto, Fail, TypeOK
            <4> QED
                BY <2>3, <4>2, EventNames DEF TypeOK
        <3>4. RecordKept(w)'
            BY <2>1, <3>1, <3>3 DEF RecordKept, xlsxRecord
        <3> QED
            BY <2>5, <2>6, <3>2, <3>4
    <2>7. CASE v # w
        <3>1. /\ vaultPathXLSX(Event[cur[v]]) # vaultPathXLSX(Event[cur[w]])
              /\ generateS3FilenameXLSX(Event[cur[v]]) # generateS3FilenameXLSX(Event[cur[w]])
              /\ TargetOf(Event[cur[v]]) # TargetOf(Event[cur[w]])
            BY <1>9, <2>2, <2>3, <2>4, <2>7 DEF NoOverlap, Conflict
        <3>2. downloads'[TargetOf(Event[cur[v]])] = downloads[TargetOf(Event[cur[v]])]
            BY <1>9, <2>3, <3>1, PutEffect, EventNames
        <3> QED
            BY <1>9, <2>1, <2>4, <2>5, <2>7, <3>2
            DEF PutDownload, KeyKept, ObjectKept, SizeKept, RecordKept, xlsxObject, xlsxRecord
    <2> QED
        BY <2>5, <2>6, <2>7
<1>10. ASSUME NEW w \in Worker, Return(w)
       PROVE  IsolationInv'
    BY <1>10
    DEF Return, DropLocals, Goto, TypeOK, IsolationInv, NoOverlap, KeyKept, ObjectKept, SizeKept,
        RecordKept, xlsxObject, xlsxRecord
<1>11. ASSUME NEW w \in Worker, Crash(w)
       PROVE  IsolationInv'
    BY <1>11
    DEF Crash, Die, DropLocals, Goto, TypeOK, IsolationInv, NoOverlap, KeyKept, ObjectKept, SizeKept,
        RecordKept, xlsxObject, xlsxRecord
<1>12. ASSUME NEW w \in Worker, CancelContext(w)
       PROVE  IsolationInv'
    BY <1>12 DEF CancelContext, TypeOK, IsolationInv, NoOverlap, KeyKept, ObjectKept, SizeKept,
        RecordKept, xlsxObject, xlsxRecord
<1>13. ASSUME NEW m \in Message, Revoke(m)
       PROVE  IsolationInv'
    BY <1>13 DEF Revoke, TypeOK, IsolationInv, NoOverlap, KeyKept, ObjectKept, SizeKept,
        RecordKept, xlsxObject, xlsxRecord
<1>14. ASSUME NEW s \in Subject, Publish(s)
       PROVE  IsolationInv'
    BY <1>14 DEF Publish, TypeOK, IsolationInv, NoOverlap, KeyKept, ObjectKept, SizeKept,
        RecordKept, xlsxObject, xlsxRecord
<1>15. CASE UNCHANGED vars
    BY <1>15 DEF vars, TypeOK, IsolationInv, NoOverlap, KeyKept, ObjectKept, SizeKept,
        RecordKept, xlsxObject, xlsxRecord
<1> QED
    BY StepCases, <1>1, <1>2, <1>3, <1>4, <1>5, <1>6, <1>7, <1>8, <1>9, <1>10,
       <1>11, <1>12, <1>13, <1>14, <1>15

-----------------------------------------------------------------------------
\* Nothing takes a workbook or a key away: it is kept or replaced.
LEMMA StoresLast ==
    ASSUME TypeOK, AttemptInv, [Next]_vars
    PROVE  /\ \A b \in Bucket, f \in FileName : hasWorkbook(b, f) => hasWorkbook(b, f)'
           /\ \A f \in FileName : hasKey(f) => hasKey(f)'
<1>1. ASSUME NEW w \in Worker, UploadXLSXFile(w), NEW b \in Bucket, NEW f \in FileName,
             hasWorkbook(b, f)
      PROVE  hasWorkbook(b, f)'
    <2>1. attempt[w] > 0
        BY <1>1 DEF UploadXLSXFile, AttemptInv, busy
    <2> QED
        BY <1>1, <2>1, UploadEffect DEF hasWorkbook
<1>2. ASSUME NEW w \in Worker, WriteKey(w), NEW f \in FileName, hasKey(f)
      PROVE  hasKey(f)'
    <2>1. attempt[w] \in Nat
        BY DEF TypeOK
    <2> QED
        BY <1>2, <2>1 DEF WriteKey, hasKey, NoKey, TypeOK
<1>3. ASSUME NEW b \in Bucket, NEW f \in FileName, hasWorkbook(b, f)
      PROVE  hasWorkbook(b, f)'
    BY <1>1, <1>3, BucketsKept DEF hasWorkbook
<1>4. ASSUME NEW f \in FileName, hasKey(f)
      PROVE  hasKey(f)'
    BY <1>2, <1>4, VaultKept DEF hasKey
<1> QED
    BY <1>3, <1>4

\* A record that led to a workbook still does.
LEMMA LeadsLast ==
    ASSUME TypeOK, AttemptInv, [Next]_vars, NEW t \in Target, NEW record \in Download,
           leads(t, record)
    PROVE  leads(t, record)'
<1>1. PICK m \in Message : /\ t = TargetOf(Event[m])
                           /\ record.file = generateS3FilenameXLSX(Event[m])
                           /\ hasWorkbook(record.access, record.file)
                           /\ record.access = "private" => hasKey(vaultPathXLSX(Event[m]))
    BY DEF leads
<1>2. record.access \in Bucket /\ record.file \in FileName /\ vaultPathXLSX(Event[m]) \in FileName
    BY EventNames DEF Download
<1>3. hasWorkbook(record.access, record.file)'
    BY <1>1, <1>2, StoresLast
<1>4. record.access = "private" => hasKey(vaultPathXLSX(Event[m]))'
    BY <1>1, <1>2, StoresLast
<1> QED
    BY <1>1, <1>3, <1>4 DEF leads

\* A handler that a step does not bring to its upload, its Head or its update is
\* there with what it had before.
LEMMA StayLinked ==
    ASSUME TypeOK, AttemptInv, LinkInv, [Next]_vars, NEW w \in Worker,
           pc'[w] \in {"upload", "head", "update"} =>
               pc'[w] = pc[w] /\ cur'[w] = cur[w] /\ isPublished'[w] = isPublished[w]
    PROVE  /\ pc'[w] \in {"head", "update"} =>
                 hasWorkbook(BucketOf(isPublished[w]), generateS3FilenameXLSX(ev(w)))'
           /\ pc'[w] \in {"upload", "head", "update"} /\ ~isPublished'[w] =>
                 hasKey(vaultPathXLSX(ev(w)))'
<1> SUFFICES ASSUME pc'[w] \in {"upload", "head", "update"}
             PROVE  /\ pc'[w] \in {"head", "update"} =>
                          hasWorkbook(BucketOf(isPublished[w]), generateS3FilenameXLSX(ev(w)))'
                    /\ pc'[w] \in {"upload", "head", "update"} /\ ~isPublished'[w] =>
                          hasKey(vaultPathXLSX(ev(w)))'
    OBVIOUS
<1> DEFINE b == BucketOf(isPublished[w])
           f == generateS3FilenameXLSX(ev(w))
           k == vaultPathXLSX(ev(w))
<1>1. b' = b /\ f' = f /\ k' = k
    BY DEF ev
<1>2. b \in Bucket /\ f \in FileName /\ k \in FileName
    BY BusyMessage, EventNames, BucketType DEF ev
<1>3. pc[w] \in {"head", "update"} => hasWorkbook(b, f)
    BY DEF LinkInv
<1>4. pc[w] \in {"upload", "head", "update"} /\ ~isPublished[w] => hasKey(k)
    BY DEF LinkInv
<1>5. hasWorkbook(b, f) => s3'[b][f] # None /\ s3'[b][f].by > 0
    BY <1>2, StoresLast DEF hasWorkbook
<1>6. hasKey(k) => vault'[k] # NoKey
    BY <1>2, StoresLast DEF hasKey
<1> QED
    BY <1>1, <1>3, <1>4, <1>5, <1>6 DEF hasWorkbook, hasKey

\* Every step keeps LinkInv: a handler gets to its upload, its Head or its update
\* by the step that leaves the key or the object it needs there, and a record is
\* put by a handler that has both.
LEMMA LinkStep ==
    ASSUME TypeOK, TypeOK', AttemptInv, LinkInv, [Next]_vars
    PROVE  LinkInv'
<1> USE NoneAssumption
<1> DEFINE Linked(w) ==
               /\ pc[w] \in {"head", "update"} =>
                     hasWorkbook(BucketOf(isPublished[w]), generateS3FilenameXLSX(ev(w)))
               /\ pc[w] \in {"upload", "head", "update"} /\ ~isPublished[w] =>
                     hasKey(vaultPathXLSX(ev(w)))
           Stays(w) == pc'[w] \in {"upload", "head", "update"} =>
               pc'[w] = pc[w] /\ cur'[w] = cur[w] /\ isPublished'[w] = isPublished[w]
<1>1. \A w \in Worker : Stays(w) => Linked(w)'
    BY StayLinked
<1>2. ASSUME NEW t \in Target, downloads'[t] = downloads[t], downloads[t] # None
      PROVE  leads(t, downloads[t])'
    <2>1. PICK record \in Download : record = downloads[t] /\ leads(t, record)
        BY <1>2 DEF TypeOK, LinkInv, LinksLead
    <2>2. leads(t, record)'
        BY <2>1, LeadsLast
    <2> QED
        BY <1>2, <2>1, <2>2 DEF leads
<1>3. ASSUME downloads' = downloads, \A w \in Worker : Linked(w)'
      PROVE  LinkInv'
    BY <1>2, <1>3 DEF LinkInv, LinksLead
<1> USE DEF broker, locals, stores, history
<1>4. ASSUME NEW w \in Worker,
             \/ \E m \in Message : Deliver(w, m)
             \/ Validate(w)
             \/ pc[w] = "state" /\ GetState(w)
             \/ GetCSVtoExcelStructure(w)
             \/ Return(w)
             \/ Crash(w)
             \/ CancelContext(w)
      PROVE  LinkInv'
    <2>1. downloads' = downloads
        BY <1>4 DEF Deliver, Validate, GetState, GetCSVtoExcelStructure, Return, Crash, Die,
                    CancelContext
    <2>2. ASSUME NEW v \in Worker
          PROVE  Stays(v)
        <3>1. CASE \E m \in Message : Deliver(w, m)
            BY <3>1 DEF Deliver, Goto, TypeOK
        <3>2. CASE Validate(w) \/ (pc[w] = "state" /\ GetState(w)) \/ GetCSVtoExcelStructure(w)
            BY <3>2 DEF Validate, GetState, GetCSVtoExcelStructure, Goto, Fail, TypeOK
        <3>3. CASE Return(w)
            BY <3>3 DEF Return, DropLocals, Goto, TypeOK
        <3>4. CASE Crash(w)
            BY <3>4 DEF Crash, Die, DropLocals, Goto, TypeOK
        <3>5. CASE CancelContext(w)
            BY <3>5 DEF CancelContext
        <3> QED
            BY <1>4, <3>1, <3>2, <3>3, <3>4, <3>5
    <2> QED
        BY <1>1, <1>3, <2>1, <2>2
<1>5. ASSUME NEW w \in Worker, AddMetaDataToExcelStructure(w)
      PROVE  LinkInv'
    <2>1. /\ downloads' = downloads
          /\ isPublished' = isPublished
          /\ pc'[w] \in {"upload", "writekey", "error"}
          /\ pc'[w] = "upload" => isPublished[w]
        BY <1>5 DEF AddMetaDataToExcelStructure, Goto, Fail, TypeOK
    <2>2. Linked(w)'
        BY <2>1
    <2>3. \A v \in Worker \ {w} : Stays(v)
        BY <1>5 DEF AddMetaDataToExcelStructure, Goto, Fail, TypeOK
    <2> QED
        BY <1>1, <1>3, <2>1, <2>2, <2>3
<1>6. ASSUME NEW w \in Worker, WriteKey(w)
      PROVE  LinkInv'
    <2>1. downloads' = downloads /\ cur' = cur /\ pc'[w] \in {"upload", "error"}
        BY <1>6 DEF WriteKey, Goto, Fail, TypeOK
    <2>2. ASSUME pc'[w] = "upload"
          PROVE  hasKey(vaultPathXLSX(ev(w)))'
        <3>1. vaultPathXLSX(ev(w)) \in FileName /\ attempt[w] \in Nat
            BY <1>6, BusyMessage, EventNames DEF WriteKey, ev, TypeOK
        <3>2. vault' = [vault EXCEPT ![vaultPathXLSX(ev(w))] = attempt[w]]
            BY <1>6, <2>2 DEF WriteKey, Goto, Fail, TypeOK
        <3>3. vault'[vaultPathXLSX(ev(w))] # NoKey
            BY <3>1, <3>2 DEF TypeOK, NoKey
        <3> QED
            BY <2>1, <3>3 DEF hasKey, ev
    <2>3. Linked(w)'
        BY <2>1, <2>2
    <2>4. \A v \in Worker \ {w} : Stays(v)
        BY <1>6 DEF WriteKey, Goto, Fail, TypeOK
    <2> QED
        BY <1>1, <1>3, <2>1, <2>3, <2>4
<1>7. ASSUME NEW w \in Worker, UploadXLSXFile(w)
      PROVE  LinkInv'
    <2> DEFINE b == BucketOf(isPublished[w])
               f == generateS3FilenameXLSX(ev(w))
               k == vaultPathXLSX(ev(w))
    <2>1. /\ downloads' = downloads /\ cur' = cur /\ isPublished' = isPublished
          /\ vault' = vault
          /\ pc[w] = "upload" /\ pc'[w] \in {"head", "error"}
        BY <1>7 DEF UploadXLSXFile, Goto, Fail, TypeOK
    <2>2. ~isPublished[w] => hasKey(k)
        BY <2>1 DEF LinkInv
    <2>3. ASSUME pc'[w] = "head"
          PROVE  s3'[b][f] # None /\ s3'[b][f].by > 0
        <3> DEFINE object == [by |-> attempt[w], whole |-> sheet[w] = "all"]
        <3>1. b \in Bucket /\ f \in FileName
            BY <2>1, BusyMessage, BucketType, EventNames DEF ev
        <3>2. object # None /\ object.by > 0
            <4>1. object # None
                BY <2>1, StoredIsSome
            <4>2. attempt[w] > 0
                BY <2>1 DEF AttemptInv, busy
            <4> QED
                BY <4>1, <4>2
        <3>3. s3' = [s3 EXCEPT ![b][f] = object]
            BY <1>7, <2>3 DEF UploadXLSXFile, uploadBucket, Goto, Fail, TypeOK
        <3> HIDE DEF object, b, f
        <3> QED
            BY <3>1, <3>2, <3>3 DEF TypeOK
    <2>4. Linked(w)'
        BY <2>1, <2>2, <2>3 DEF hasWorkbook, hasKey, ev
    <2>5. \A v \in Worker \ {w} : Stays(v)
        BY <1>7 DEF UploadXLSXFile, Goto, Fail, TypeOK
    <2> QED
        BY <1>1, <1>3, <2>1, <2>4, <2>5
<1>8. ASSUME NEW w \in Worker, GetS3ContentLength(w)
      PROVE  LinkInv'
    <2>1. /\ UNCHANGED <<downloads, cur, isPublished, s3, vault>>
          /\ pc[w] = "head" /\ pc'[w] \in {"update", "error"}
        BY <1>8 DEF GetS3ContentLength, Goto, Fail, TypeOK
    <2>2. Linked(w)'
        BY <2>1 DEF LinkInv, hasWorkbook, hasKey, ev
    <2>3. \A v \in Worker \ {w} : Stays(v)
        BY <1>8 DEF GetS3ContentLength, Goto, Fail, TypeOK
    <2> QED
        BY <1>1, <1>3, <2>1, <2>2, <2>3
<1>9. ASSUME NEW w \in Worker, pc[w] = "update", PutDownload(w)
      PROVE  LinkInv'
    <2> DEFINE record == [access |-> BucketOf(isPublished[w]),
                          file |-> generateS3FilenameXLSX(ev(w)),
                          size |-> numBytes[w]]
    <2>1. /\ UNCHANGED <<cur, isPublished, s3, vault>>
          /\ pc'[w] \in {"nil", "error"}
          /\ downloads' \in {downloads, [downloads EXCEPT ![TargetOf(ev(w))] = record]}
        BY <1>9 DEF PutDownload, Put, Goto, Fail, TypeOK
    <2>2. \A v \in Worker : Stays(v)
        BY <1>9, <2>1 DEF PutDownload, Goto, Fail, TypeOK
    <2>3. ASSUME NEW t \in Target, downloads'[t] # downloads[t]
          PROVE  leads(t, downloads[t])'
        <3>1. t = TargetOf(ev(w)) /\ downloads'[t] = record
            BY <2>1, <2>3 DEF TypeOK
        <3>2. cur[w] \in Message
            BY <1>9, BusyMessage
        <3>3. hasWorkbook(record.access, record.file)
            BY <1>9 DEF LinkInv
        <3>4. record.access = "private" => hasKey(vaultPathXLSX(ev(w)))
            BY <1>9 DEF LinkInv, BucketOf
        <3>5. record.file = generateS3FilenameXLSX(ev(w))
            OBVIOUS
        <3> HIDE DEF record
        <3> QED
            BY <2>1, <3>1, <3>2, <3>3, <3>4, <3>5 DEF leads, hasWorkbook, hasKey, ev
    <2>4. LinksLead'
        BY <1>2, <2>3 DEF LinksLead
    <2> QED
        BY <1>1, <2>2, <2>4 DEF LinkInv
<1>10. CASE (\E m \in Message : Revoke(m)) \/ (\E s \in Subject : Publish(s)) \/ UNCHANGED vars
    <2>1. UNCHANGED <<pc, cur, isPublished, downloads>>
        BY <1>10 DEF Revoke, Publish, vars
    <2>2. \A v \in Worker : Stays(v)
        BY <2>1
    <2> QED
        BY <1>1, <1>3, <2>1, <2>2
<1> QED
    BY StepCases, <1>4, <1>5, <1>6, <1>7, <1>8, <1>9, <1>10

-----------------------------------------------------------------------------
\* The initial states satisfy the invariant.
LEMMA InitIInv == Init => IInv
<1> SUFFICES ASSUME Init PROVE IInv
    OBVIOUS
<1>1. TypeOK
    BY InitType
<1>2. \A b \in Bucket, f \in FileName :
          s3[b][f] # None => s3[b][f].by = 0 /\ s3[b][f].whole
    <2>1. ASSUME NEW b \in Bucket, NEW f \in FileName
          PROVE  s3[b][f] = IF CsvIn(b, f) THEN [by |-> 0, whole |-> TRUE] ELSE None
        BY DEF Init
    <2> QED
        BY <2>1
<1>3. WholeInv
    BY <1>2 DEF Init, WholeInv, OnlyWholeWorkbooks
<1>4. ReleaseInv
    <2>1. \A f \in FileName : s3["public"][f] # None => ~(s3["public"][f].by > 0)
        BY <1>2 DEF Bucket
    <2>2. \A t \in Target : downloads[t] = None
        BY DEF Init
    <2>3. \A w \in Worker : ~isPublished[w]
        BY DEF Init
    <2>4. \A u \in Subject : published[u] => u \in released
        BY DEF Init
    <2> QED
        BY <2>1, <2>2, <2>3, <2>4 DEF ReleaseInv, NoPrerelease, PublicLinksStand, isPublic
<1>5. ExportInv /\ AttemptInv /\ IsolationInv
    BY <1>2 DEF Init, ExportInv, CommittedIsExportedOrReported, AttemptInv, IsolationInv, busy
<1>6. LinkInv
    BY DEF Init, LinkInv, LinksLead
<1> QED
    BY <1>1, <1>3, <1>4, <1>5, <1>6 DEF IInv

LEMMA Invariance == Spec => []IInv
<1>1. IInv /\ [Next]_vars => IInv'
    BY TypeStep, WholeStep, ReleaseStep, ExportStep, AttemptStep, IsolationStep, LinkStep
    DEF IInv
<1> QED
    BY InitIInv, <1>1, PTL DEF Spec

\* No workbook cut short by the end of a context reaches a bucket.
THEOREM WholeWorkbooks == Spec => []OnlyWholeWorkbooks
<1>1. IInv => OnlyWholeWorkbooks
    BY DEF IInv, WholeInv
<1> QED
    BY Invariance, <1>1, PTL

\* No export is public before its instance or filter output has been released, and
\* no handler shows one as published that has not.
THEOREM NoPrereleaseHolds == Spec => []NoPrerelease
<1>1. IInv => NoPrerelease
    BY DEF IInv, ReleaseInv
<1> QED
    BY Invariance, <1>1, PTL

\* A public link is never left on a filter output whose flag was taken back.
THEOREM PublicLinksStandHolds == Spec => []PublicLinksStand
<1>1. IInv => PublicLinksStand
    BY DEF IInv, ReleaseInv
<1> QED
    BY Invariance, <1>1, PTL

\* No message is lost.
THEOREM NoneLost == Spec => []CommittedIsExportedOrReported
<1>1. IInv => CommittedIsExportedOrReported
    BY DEF IInv, ExportInv
<1> QED
    BY Invariance, <1>1, PTL

\* Every link leads to a workbook that can be fetched and, if private, to a key.
THEOREM LinksLeadHolds == Spec => []LinksLead
<1>1. IInv => LinksLead
    BY DEF IInv, LinkInv
<1> QED
    BY Invariance, <1>1, PTL

\* An attempt that no conflicting attempt overlaps ends with its object, its key
\* and its record in agreement.
THEOREM IsolatedExports == Spec => []IsolatedExportConsistent
<1>1. ASSUME IInv, NEW w \in Worker, pc[w] = "nil", alone[w]
      PROVE  /\ downloads[TargetOf(ev(w))] = xlsxRecord(w)
             /\ xlsxObject(w) = [by |-> attempt[w], whole |-> TRUE]
             /\ isPublished[w] \/ vault[vaultPathXLSX(ev(w))] = attempt[w]
    BY <1>1 DEF IInv, IsolationInv, KeyKept, ObjectKept, RecordKept, busy
<1>2. IInv => IsolatedExportConsistent
    BY <1>1 DEF IsolatedExportConsistent
<1> QED
    BY Invariance, <1>2, PTL

-----------------------------------------------------------------------------
\* The records as an observer sees them.
records == [t \in Target |-> IF downloads[t] = None THEN "none" ELSE downloads[t].access]

\* A step of a call that is no update, of the broker or of the context is seen by
\* no observer.
LEMMA UnseenStep ==
    ASSUME NEW w \in Worker,
           \/ \E m \in Message : Deliver(w, m)
           \/ Validate(w)
           \/ GetState(w)
           \/ GetCSVtoExcelStructure(w)
           \/ AddMetaDataToExcelStructure(w)
           \/ WriteKey(w)
           \/ UploadXLSXFile(w)
           \/ GetS3ContentLength(w)
           \/ Crash(w)
           \/ CancelContext(w)
    PROVE  UNCHANGED <<published, released, downloads, committed, reported>>
BY DEF Deliver, Validate, GetState, GetCSVtoExcelStructure, AddMetaDataToExcelStructure,
       WriteKey, UploadXLSXFile, GetS3ContentLength, Crash, Die, CancelContext, broker,
       stores, history

\* An update is an export of the message, or nothing.
LEMMA UpdateSeen ==
    ASSUME IInv, NEW w \in Worker, pc[w] = "update", PutDownload(w)
    PROVE  [Contract!Next]_Contract!vars
<1> DEFINE m == cur[w]
           out == TargetOf(Event[m])
           link == BucketOf(isPublished[w])
<1>1. m \in Message /\ out \in Target /\ SubjectOf(Event[m]) \in Subject
    BY BusyMessage, EventNames DEF IInv
<1>2. UNCHANGED <<released, committed, reported>>
    BY DEF PutDownload, broker, history
<1>3. CASE UNCHANGED <<downloads, published>>
    BY <1>2, <1>3 DEF Contract!vars
<1>4. CASE Put(w)
    <2>1. downloads' = [downloads EXCEPT ![out] =
                           [access |-> link,
                            file |-> generateS3FilenameXLSX(ev(w)),
                            size |-> numBytes[w]]]
        BY <1>4 DEF Put, ev
    <2>2. records' = [records EXCEPT ![out] = link]
        <3>1. downloads \in [Target -> Download \cup {None}]
            BY DEF IInv, TypeOK
        <3>2. downloads'[out].access = link /\ downloads'[out] # None
            BY <1>1, <2>1, <3>1, StoredIsSome DEF IInv
        <3>3. \A u \in Target \ {out} : downloads'[u] = downloads[u]
            BY <2>1, <3>1
        <3> QED
            BY <1>1, <3>2, <3>3 DEF records
    <2>3. link = "public" => SubjectOf(Event[m]) \in released
        BY <1>1 DEF BucketOf, IInv, ReleaseInv, ev, busy
    <2>4. link \in {"private", "public"} /\ (link = "public") = isPublished[w]
        <3>1. isPublished[w] \in BOOLEAN
            BY DEF IInv, TypeOK
        <3> QED
            BY <3>1 DEF BucketOf
    <2>5. published' = IF m \in {n \in Message : isFilterJob(Event[n])}
                       THEN [published EXCEPT ![SubjectOf(Event[m])] = (link = "public")]
                       ELSE published
        BY <1>1, <1>4, <2>4, FilterJob DEF Put, flagPut, ev
    <2>6. Contract!Export(m)
        BY <1>1, <1>2, <2>2, <2>3, <2>4, <2>5 DEF Contract!Export, records
    <2> QED
        BY <1>1, <2>6 DEF Contract!Next, Contract!Export
<1> QED
    BY <1>3, <1>4 DEF PutDownload

\* The return of a handler is a commit, a report, or nothing.
LEMMA ReturnSeen ==
    ASSUME IInv, NEW w \in Worker, Return(w)
    PROVE  [Contract!Next]_Contract!vars
<1> DEFINE m == cur[w]
<1>1. /\ m \in Message /\ TargetOf(Event[m]) \in Target
      /\ pc[w] \in {"nil", "error"}
      /\ UNCHANGED <<published, released, downloads>>
    BY BusyMessage, EventNames DEF IInv, Return, stores
<1>2. CASE pc[w] = "nil"
    <2>1. reported' = reported /\ committed' \in {committed, committed \cup {m}}
        BY <1>2 DEF Return
    <2>2. downloads[TargetOf(Event[m])] # None
        BY <1>1, <1>2 DEF IInv, ExportInv, ev
    <2>3. downloads[TargetOf(Event[m])].access \in Bucket
        BY <1>1, <2>2 DEF IInv, TypeOK, Download
    <2>4. CASE committed' = committed
        BY <1>1, <2>1, <2>4 DEF Contract!vars
    <2>5. CASE committed' = committed \cup {m}
        <3>1. Contract!Commit(m)
            BY <1>1, <2>1, <2>2, <2>3, <2>5 DEF Bucket, Contract!Commit
        <3> QED
            BY <1>1, <3>1 DEF Contract!Next
    <2> QED
        BY <2>1, <2>4, <2>5
<1>3. CASE pc[w] = "error"
    <2>1. reported' = reported \cup {m}
        BY <1>3 DEF Return
    <2>2. committed' \in {committed, IF CommitOnError THEN committed \cup {m} ELSE committed}
        BY <1>3 DEF Return
    <2>3. Contract!Report(m)
        BY <1>1, <2>1, <2>2 DEF Contract!Report
    <2> QED
        BY <1>1, <2>3 DEF Contract!Next
<1> QED
    BY <1>1, <1>2, <1>3

\* A step of the handlers or of what is around them is a step of Exports, or none.
LEMMA ExportsStep ==
    ASSUME IInv, [Next]_vars
    PROVE  [Contract!Next]_Contract!vars
<1>1. CASE UNCHANGED <<published, released, downloads, committed, reported>>
    BY <1>1 DEF Contract!vars
<1>2. ASSUME NEW m \in Message, Revoke(m)
      PROVE  UNCHANGED <<published, released, downloads, committed, reported>>
    BY <1>2 DEF Revoke, stores, history
<1>3. ASSUME NEW s \in Subject, Publish(s)
      PROVE  [Contract!Next]_Contract!vars
    <2>1. Contract!Publish(s)
        BY <1>3 DEF Publish, broker, history, Contract!Publish
    <2> QED
        BY <2>1 DEF Contract!Next
<1>4. UNCHANGED vars => UNCHANGED <<published, released, downloads, committed, reported>>
    BY DEF vars, broker, stores, history
<1> QED
    BY StepCases, UnseenStep, UpdateSeen, ReturnSeen, <1>1, <1>2, <1>3, <1>4

LEMMA ExportsInit == Init => Contract!Init
BY DEF Init, Contract!Init

\* For any workers, messages, faults and attempts, an observer sees the exporter
\* do what Exports promises.
THEOREM ExportsImplemented == Spec => ImplementsExports
<1>1. IInv /\ [Next]_vars => [Contract!Next]_Contract!vars
    BY ExportsStep
<1> QED
    BY Invariance, ExportsInit, <1>1, PTL DEF Spec, ImplementsExports, Contract!Spec

=============================================================================
