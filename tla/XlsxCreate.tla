------------------------------ MODULE XlsxCreate ------------------------------
(***************************************************************************)
(* The export pipeline: XlsxCreate.Handle of handler/handler.go, run by    *)
(* the one worker of every running instance of the service, against the    *)
(* stores the instances share: the two S3 buckets, the vault, and the XLS  *)
(* download records of the dataset API and of the filter API.              *)
(*                                                                         *)
(* Every call to another service is a step of its own, so two attempts on  *)
(* the same output interleave anywhere between two calls, an instance may  *)
(* die between two calls, and the handler's context may end between two    *)
(* calls.  How one CSV file becomes a sheet (a goroutine, an io.Pipe and a *)
(* scanner) is module CsvStream; here it is one step with its outcomes.    *)
(***************************************************************************)
EXTENDS Integers, SheetRows

CONSTANTS
    Worker,              \* one worker goroutine per instance of the service
    Message,             \* the messages of the cantabular-csv-created topic
    Event,               \* Event[m]: what message m decodes to
    Name,                \* file names without extension; the dataset versions too
    Instance,            \* dataset instance IDs ("" is the empty ID)
    FilterOutput,        \* filter output IDs ("" in an event that has none)
    MaxAllowedRowCount,
    CommitOnError,       \* does the consumer commit a message whose handler failed?
    MaxAttempts,         \* bound: deliveries in one behaviour
    MaxFaults,           \* bound: calls that fail, crashes, revocations, cancellations
    None                 \* no worker, no object, no download record

FileName == [base : Name, ext : {"csv", "xlsx", ""}]
EventRecord == [decodes : BOOLEAN, instanceID : Instance, version : Name,
                rowCount : Int, fileName : FileName, filterOutputID : FilterOutput]
Subject == Instance \cup FilterOutput       \* what carries a published state
Target == Name \cup FilterOutput            \* what carries a download record

\* The handler checks no name: a file may be called something else than .csv.
ASSUME EventAssumption == Event \in [Message -> EventRecord]

\* The dataset API and the filter API give their own IDs.
ASSUME SubjectAssumption == Instance \cap FilterOutput \subseteq {""}
ASSUME NumberAssumption ==
    /\ MaxAllowedRowCount \in Nat
    /\ MaxAttempts \in Nat
    /\ MaxFaults \in Nat
    /\ CommitOnError \in BOOLEAN

Bucket == {"public", "private"}
Object == [by : Nat, whole : BOOLEAN]       \* by = 0: the CSV exporter wrote it
Download == [access : Bucket, file : FileName, size : Nat]
NoKey == -1

ASSUME NoneAssumption ==
    None \notin Worker \cup Message \cup Object \cup Download

VARIABLES
    owner,        \* owner[m]: the worker the broker has assigned m to, or None
    committed,    \* the messages whose offset is committed
    attempts,     \* deliveries so far
    faults,       \* faults so far
    pc,           \* pc[w]: the next call of w's handler
    cur,          \* cur[w]: the message w handles, or None
    attempt,      \* attempt[w]: its delivery number, which is also its PSK
    ctxDone,      \* has the context passed to w's handler ended?
    isPublished,  \* local of Handle
    sheet,        \* the rows in w's workbook: none, some or all of the CSV's
    numBytes,     \* local of Handle: which upload's size Head returned
    published,    \* state of every dataset instance and filter output
    s3,           \* s3[b][f]: the object under key datasets/f of bucket b
    vault,        \* vault[f]: the key stored under the path that ends in f
    downloads,    \* downloads[t]: the XLS download record of t
    alone,        \* history: did no conflicting attempt overlap w's?
    released,     \* history: the subjects their publishers ever published
    reported      \* history: the messages some handler returned an error for

broker == <<owner, committed, attempts>>
locals == <<cur, attempt, ctxDone, isPublished, sheet, numBytes>>
stores == <<published, s3, vault, downloads>>
history == <<alone, released, reported>>
vars == <<broker, faults, pc, locals, stores, history>>

-----------------------------------------------------------------------------
isFilterJob(e) == e.filterOutputID # ""
SubjectOf(e) == IF isFilterJob(e) THEN e.filterOutputID ELSE e.instanceID
TargetOf(e) == IF isFilterJob(e) THEN e.filterOutputID ELSE e.version

BucketOf(pub) == IF pub THEN "public" ELSE "private"

generateS3FilenameCSV(e) == e.fileName

\* strings.Replace(FileName, ".csv", ".xlsx", 1): a name without .csv is kept, and
\* the workbook then takes the place of its source.
generateS3FilenameXLSX(e) ==
    [e.fileName EXCEPT !.ext = IF @ = "csv" THEN "xlsx" ELSE @]

vaultPathCSV(e) == e.fileName

\* The path of the new key is made of the version, not of the file name.
vaultPathXLSX(e) == [base |-> e.version, ext |-> "xlsx"]

\* Two messages whose attempts write the same object, key or record.
Conflict(m, n) ==
    \/ generateS3FilenameXLSX(Event[m]) = generateS3FilenameXLSX(Event[n])
    \/ vaultPathXLSX(Event[m]) = vaultPathXLSX(Event[n])
    \/ TargetOf(Event[m]) = TargetOf(Event[n])

ValidateEvent(e) == e.rowCount <= MaxAllowedRowCount /\ e.instanceID # ""

\* The event of the message w handles.
ev(w) == Event[cur[w]]
Goto(w, label) == pc' = [pc EXCEPT ![w] = label]
Fault == faults < MaxFaults /\ faults' = faults + 1

\* Mutants of Fail: the error is lost (errors.Wrap of nil), or retried in place.
FailWithNil(w) == Goto(w, "nil")
RetryInPlace(w) == Goto(w, "validate")

\* Mutant of Fail: an error of the vault is logged only.
LogKeyError(w) == Goto(w, IF pc[w] = "writekey" THEN "upload" ELSE "error")

\* Handle returns the error of the call.
Fail(w) == Goto(w, "error")

\* Mutant: calls made with context.Background().
BackgroundContext(w) == TRUE

\* A call made with w's context fails once the context has ended, and before
\* that only by a fault.
ContextLive(w) == ~ctxDone[w]
ContextCallFails(w) == IF ContextLive(w) THEN Fault ELSE UNCHANGED faults

-----------------------------------------------------------------------------
\* Upstream has put every CSV file in the bucket of the state its subject had
\* then, encrypted under a key in the vault when it is not published.
CsvIn(b, f) == \E m \in Message :
    /\ generateS3FilenameCSV(Event[m]) = f
    /\ BucketOf(published[SubjectOf(Event[m])]) = b

Init ==
    /\ owner = [m \in Message |-> None]
    /\ committed = {}
    /\ attempts = 0
    /\ faults = 0
    /\ pc = [w \in Worker |-> "idle"]
    /\ cur = [w \in Worker |-> None]
    /\ attempt = [w \in Worker |-> 0]
    /\ ctxDone = [w \in Worker |-> FALSE]
    /\ isPublished = [w \in Worker |-> FALSE]
    /\ sheet = [w \in Worker |-> "none"]
    /\ numBytes = [w \in Worker |-> 0]
    /\ published \in [Subject -> BOOLEAN]
    /\ \A s \in Subject : published[s] => s # ""
    /\ s3 = [b \in Bucket |-> [f \in FileName |->
                IF CsvIn(b, f) THEN [by |-> 0, whole |-> TRUE] ELSE None]]
    /\ vault = [f \in FileName |-> IF CsvIn("private", f) THEN 0 ELSE NoKey]
    /\ downloads = [t \in Target |-> None]
    /\ alone = [w \in Worker |-> TRUE]
    /\ released = {s \in Subject : published[s]}
    /\ reported = {}

\* The consumer group hands an assigned message to the instance's one worker.
Deliver(w, m) ==
    /\ pc[w] = "idle"
    /\ owner[m] = None
    /\ m \notin committed
    /\ attempts < MaxAttempts
    /\ attempts' = attempts + 1
    /\ owner' = [owner EXCEPT ![m] = w]
    /\ Goto(w, "validate")
    /\ cur' = [cur EXCEPT ![w] = m]
    /\ attempt' = [attempt EXCEPT ![w] = attempts + 1]
    /\ alone' = [v \in Worker |->
          IF v = w
          THEN \A u \in Worker \ {w} : pc[u] = "idle" \/ ~Conflict(cur[u], m)
          ELSE alone[v] /\ (pc[v] = "idle" \/ ~Conflict(cur[v], m))]
    /\ UNCHANGED <<committed, faults, ctxDone, isPublished, sheet, numBytes,
                   stores, released, reported>>

\* Handle: unmarshal and validate the event.
Validate(w) ==
    /\ pc[w] = "validate"
    /\ IF ev(w).decodes /\ ValidateEvent(ev(w)) THEN Goto(w, "state") ELSE Fail(w)
    /\ UNCHANGED <<broker, faults, locals, stores, history>>

\* The published state is read once, here, and used until the end.
GetState(w) ==
    /\ \/ /\ ContextLive(w)
          /\ isPublished' = [isPublished EXCEPT ![w] = published[SubjectOf(ev(w))]]
          /\ Goto(w, "csv")
          /\ UNCHANGED faults
       \/ /\ ContextCallFails(w)
          /\ Fail(w)
          /\ UNCHANGED isPublished
    /\ UNCHANGED <<broker, cur, attempt, ctxDone, sheet, numBytes, stores, history>>

IsInstancePublished(w) == pc[w] = "state" /\ ~isFilterJob(ev(w)) /\ GetState(w)
isFilterPublished(w) == pc[w] = "state" /\ isFilterJob(ev(w)) /\ GetState(w)

\* The CSV object the attempt reads, and whether it can be read and decrypted.
csvObject(w) == s3[BucketOf(isPublished[w])][generateS3FilenameCSV(ev(w))]
csvReadable(w) ==
    /\ csvObject(w) # None
    /\ isPublished[w] \/ vault[vaultPathCSV(ev(w))] = csvObject(w).by
csvParses(w) == csvReadable(w) /\ csvObject(w).by = 0

\* GetCSVtoExcelStructure.  When the context has ended it returns nil with the
\* rows read so far, unless the ended context made the download fail first.  A
\* workbook in the place of the CSV file may parse or not.
GetCSVtoExcelStructure(w) ==
    /\ pc[w] = "csv"
    /\ \/ /\ csvReadable(w)
          /\ \E rows \in RowsReturned(ctxDone[w]) :
                sheet' = [sheet EXCEPT ![w] = rows]
          /\ Goto(w, "metadata")
          /\ UNCHANGED faults
       \/ /\ IF csvParses(w) THEN ContextCallFails(w) ELSE UNCHANGED faults
          /\ Fail(w)
          /\ UNCHANGED sheet
    /\ UNCHANGED <<broker, cur, attempt, ctxDone, isPublished, numBytes,
                   stores, history>>

\* Its reads of the filter, dataset and Cantabular APIs all take the context.
AddMetaDataToExcelStructure(w) ==
    /\ pc[w] = "metadata"
    /\ \/ /\ ContextLive(w)
          /\ Goto(w, IF isPublished[w] THEN "upload" ELSE "writekey")
          /\ UNCHANGED faults
       \/ /\ ContextCallFails(w)
          /\ Fail(w)
    /\ UNCHANGED <<broker, locals, stores, history>>

\* Unpublished: a new key goes to the vault (no context) before the upload.
\* A write that fails may have been applied.
WriteKey(w) ==
    LET written == [vault EXCEPT ![vaultPathXLSX(ev(w))] = attempt[w]]
    IN  /\ pc[w] = "writekey"
        /\ \/ /\ vault' = written
              /\ Goto(w, "upload")
              /\ UNCHANGED faults
           \/ /\ Fault
              /\ vault' \in {vault, written}
              /\ Fail(w)
        /\ UNCHANGED <<broker, locals, published, s3, downloads, history>>

\* Mutant: "it is assumed that the file is always published" (handler.go:517).
AlwaysPublic(w) == "public"

uploadBucket(w) == BucketOf(isPublished[w])

\* Upload or UploadWithPSK of the whole workbook.
UploadXLSXFile(w) ==
    LET stored == [s3 EXCEPT ![uploadBucket(w)][generateS3FilenameXLSX(ev(w))] =
                      [by |-> attempt[w], whole |-> sheet[w] = "all"]]
    IN  /\ pc[w] = "upload"
        /\ \/ /\ ContextLive(w)
              /\ s3' = stored
              /\ Goto(w, "head")
              /\ UNCHANGED faults
           \/ /\ ContextCallFails(w)
              /\ s3' \in {s3, IF ContextLive(w) THEN stored ELSE s3}
              /\ Fail(w)
        /\ UNCHANGED <<broker, locals, published, vault, downloads, history>>

\* Mutant: the size of the CSV file.
CsvFile(w) == generateS3FilenameCSV(ev(w))

headFile(w) == generateS3FilenameXLSX(ev(w))

\* Head of whatever object now is under the key.
GetS3ContentLength(w) ==
    LET object == s3[BucketOf(isPublished[w])][headFile(w)]
    IN  /\ pc[w] = "head"
        /\ \/ /\ ContextLive(w)
              /\ object # None
              /\ numBytes' = [numBytes EXCEPT ![w] = object.by]
              /\ Goto(w, "update")
              /\ UNCHANGED faults
           \/ /\ ContextCallFails(w)
              /\ Fail(w)
              /\ UNCHANGED numBytes
        /\ UNCHANGED <<broker, cur, attempt, ctxDone, isPublished, sheet,
                       stores, history>>

\* Mutant: a filter.Model without IsPublished, which goes out as false.
ZeroFlag(w) ==
    IF isFilterJob(ev(w))
    THEN [published EXCEPT ![ev(w).filterOutputID] = FALSE]
    ELSE published

\* The flag a PUT leaves: UpdateFilterOutput writes back what GetState read, which
\* may be stale; PutVersion sends none.
flagPut(w) ==
    IF isFilterJob(ev(w))
    THEN [published EXCEPT ![ev(w).filterOutputID] = isPublished[w]]
    ELSE published

\* PutVersion or UpdateFilterOutput of the download record, with that flag.
Put(w) ==
    /\ downloads' = [downloads EXCEPT ![TargetOf(ev(w))] =
                         [access |-> BucketOf(isPublished[w]),
                          file |-> generateS3FilenameXLSX(ev(w)),
                          size |-> numBytes[w]]]
    /\ published' = flagPut(w)

PutDownload(w) ==
    /\ \/ /\ ContextLive(w)
          /\ Put(w)
          /\ Goto(w, "nil")
          /\ UNCHANGED faults
       \/ /\ ContextCallFails(w)
          /\ (ContextLive(w) /\ Put(w)) \/ UNCHANGED <<downloads, published>>
          /\ Fail(w)
    /\ UNCHANGED <<broker, locals, s3, vault, history>>

UpdateInstance(w) == pc[w] = "update" /\ ~isFilterJob(ev(w)) /\ PutDownload(w)
UpdateFilterOutput(w) == pc[w] = "update" /\ isFilterJob(ev(w)) /\ PutDownload(w)

\* Mutant: locals kept in the shared XlsxCreate value.
KeepLocals(w) == UNCHANGED <<locals, alone>>

\* The locals of a handler die with it.
DropLocals(w) ==
    /\ cur' = [cur EXCEPT ![w] = None]
    /\ attempt' = [attempt EXCEPT ![w] = 0]
    /\ ctxDone' = [ctxDone EXCEPT ![w] = FALSE]
    /\ isPublished' = [isPublished EXCEPT ![w] = FALSE]
    /\ sheet' = [sheet EXCEPT ![w] = "none"]
    /\ numBytes' = [numBytes EXCEPT ![w] = 0]
    /\ alone' = [alone EXCEPT ![w] = TRUE]

\* The handler returns; the consumer commits if it still owns the message.
Return(w) ==
    LET m == cur[w]
    IN  /\ pc[w] \in {"nil", "error"}
        /\ Goto(w, "idle")
        /\ owner' = [owner EXCEPT ![m] = IF @ = w THEN None ELSE @]
        /\ committed' = IF owner[m] = w /\ (pc[w] = "nil" \/ CommitOnError)
                        THEN committed \cup {m} ELSE committed
        /\ reported' = IF pc[w] = "error" THEN reported \cup {m} ELSE reported
        /\ DropLocals(w)
        /\ UNCHANGED <<attempts, faults, stores, released>>

-----------------------------------------------------------------------------
\* The environment of the handlers.

\* The instance dies, or exits, in the middle of the handler.
Die(w) ==
    /\ pc[w] # "idle"
    /\ Goto(w, "idle")
    /\ owner' = [m \in Message |-> IF owner[m] = w THEN None ELSE owner[m]]
    /\ DropLocals(w)
    /\ UNCHANGED <<committed, attempts, stores, released, reported>>

Crash(w) == Fault /\ Die(w)

\* The group takes a message away from a worker that goes on handling it.
Revoke(m) ==
    /\ owner[m] # None
    /\ Fault
    /\ owner' = [owner EXCEPT ![m] = None]
    /\ UNCHANGED <<committed, attempts, pc, locals, stores, history>>

CancelContext(w) ==
    /\ pc[w] \notin {"idle", "nil", "error"}
    /\ ~ctxDone[w]
    /\ Fault
    /\ ctxDone' = [ctxDone EXCEPT ![w] = TRUE]
    /\ UNCHANGED <<broker, pc, cur, attempt, isPublished, sheet, numBytes,
                   stores, history>>

\* An instance or a filter output is published.  Its publisher never takes it
\* back; only UpdateFilterOutput may.
Publish(s) ==
    /\ s # "" /\ ~published[s]
    /\ published' = [published EXCEPT ![s] = TRUE]
    /\ released' = released \cup {s}
    /\ UNCHANGED <<broker, faults, pc, locals, s3, vault, downloads, alone, reported>>

\* Nothing to consume: every worker waits for the next message.
AwaitMessages ==
    /\ \A w \in Worker : pc[w] = "idle"
    /\ committed = Message \/ attempts = MaxAttempts
    /\ UNCHANGED vars

Handle(w) ==
    \/ Validate(w)
    \/ IsInstancePublished(w)
    \/ isFilterPublished(w)
    \/ GetCSVtoExcelStructure(w)
    \/ AddMetaDataToExcelStructure(w)
    \/ WriteKey(w)
    \/ UploadXLSXFile(w)
    \/ GetS3ContentLength(w)
    \/ UpdateInstance(w)
    \/ UpdateFilterOutput(w)
    \/ Return(w)

Environment ==
    \/ \E w \in Worker : Crash(w) \/ CancelContext(w)
    \/ \E m \in Message : Revoke(m)
    \/ \E s \in Subject : Publish(s)

Next ==
    \/ \E w \in Worker : Handle(w) \/ \E m \in Message : Deliver(w, m)
    \/ Environment
    \/ AwaitMessages

Spec == Init /\ [][Next]_vars

\* Every call returns (the clients have timeouts), goroutines are scheduled, and
\* the broker goes on offering a message that is not committed.
Fairness ==
    /\ \A w \in Worker : WF_vars(Handle(w))
    /\ \A m \in Message : WF_vars(\E w \in Worker : Deliver(w, m))

FairSpec == Spec /\ Fairness

-----------------------------------------------------------------------------
\* Properties.

busy(w) == pc[w] # "idle"

\* The object, key and record w's attempt is to leave behind.
xlsxObject(w) == s3[BucketOf(isPublished[w])][generateS3FilenameXLSX(ev(w))]
xlsxRecord(w) == [access |-> BucketOf(isPublished[w]),
                  file |-> generateS3FilenameXLSX(ev(w)),
                  size |-> attempt[w]]

\* Every variable has its type; a busy worker has a message, an idle one none.
TypeOK ==
    /\ owner \in [Message -> Worker \cup {None}]
    /\ committed \in SUBSET Message
    /\ attempts \in Nat
    /\ faults \in Nat
    /\ pc \in [Worker -> {"idle", "validate", "state", "csv", "metadata", "writekey",
                          "upload", "head", "update", "nil", "error"}]
    /\ cur \in [Worker -> Message \cup {None}]
    /\ attempt \in [Worker -> Nat]
    /\ ctxDone \in [Worker -> BOOLEAN]
    /\ isPublished \in [Worker -> BOOLEAN]
    /\ sheet \in [Worker -> Sheet]
    /\ numBytes \in [Worker -> Nat]
    /\ published \in [Subject -> BOOLEAN]
    /\ s3 \in [Bucket -> [FileName -> Object \cup {None}]]
    /\ vault \in [FileName -> Nat \cup {NoKey}]
    /\ downloads \in [Target -> Download \cup {None}]
    /\ alone \in [Worker -> BOOLEAN]
    /\ released \in SUBSET Subject
    /\ reported \in SUBSET Message
    /\ \A w \in Worker : busy(w) <=> cur[w] \in Message

\* A workbook cut short never reaches a bucket.  GetCSVtoExcelStructure returns
\* nil with part of the rows when the context ends (handler.go:306-314); what
\* stops Handle from uploading them is that every later read takes the context.
OnlyWholeWorkbooks ==
    \A b \in Bucket, f \in FileName : s3[b][f] # None => s3[b][f].whole

isPublic(t) == downloads[t] # None /\ downloads[t].access = "public"

\* Nothing is made public before its publisher has published it: an XLSX object in
\* the public bucket, and a record with a public link, are of a message whose
\* instance or filter output has been released, and so is the flag itself,
\* whatever was read when and written back when (handler.go:98-114, 631-636).
NoPrerelease ==
    /\ \A f \in FileName : s3["public"][f] # None /\ s3["public"][f].by > 0 =>
          \E m \in Message : /\ f = generateS3FilenameXLSX(Event[m])
                             /\ SubjectOf(Event[m]) \in released
    /\ \A t \in Target : isPublic(t) =>
          \E m \in Message : /\ t = TargetOf(Event[m])
                             /\ SubjectOf(Event[m]) \in released
    /\ \A s \in Subject : published[s] => s \in released

\* A stale attempt may take the flag of a published filter output back, but never
\* under a public link: a record that gives one is of a message whose subject the
\* APIs show as published (UpdateFilterOutput, handler.go:631-638).
PublicLinksStand ==
    \A t \in Target : isPublic(t) =>
        \E m \in Message : t = TargetOf(Event[m]) /\ published[SubjectOf(Event[m])]

\* A message leaves the topic exported, or with an error of its handler behind
\* it where the consumer commits such messages: none is lost in a crash, a
\* rebalance or a cancellation (Handle's returns, handler.go:75-164).
CommittedIsExportedOrReported ==
    \A m \in committed :
        \/ downloads[TargetOf(Event[m])] # None
        \/ CommitOnError /\ m \in reported

\* An attempt that returns nil, and that no conflicting attempt overlapped,
\* leaves the object, its key and its record in agreement, whatever attempts
\* died before it (handler.go:137-163, 546-561).
IsolatedExportConsistent ==
    \A w \in Worker : pc[w] = "nil" /\ alone[w] =>
        /\ downloads[TargetOf(ev(w))] = xlsxRecord(w)
        /\ xlsxObject(w) = [by |-> attempt[w], whole |-> TRUE]
        /\ isPublished[w] \/ vault[vaultPathXLSX(ev(w))] = attempt[w]

\* A workbook of an attempt is in the bucket; a key is in the vault.
hasWorkbook(b, f) == s3[b][f] # None /\ s3[b][f].by > 0
hasKey(f) == vault[f] # NoKey

\* The record of t is of a message, whose workbook can be fetched and read.
leads(t, record) == \E m \in Message :
    /\ t = TargetOf(Event[m])
    /\ record.file = generateS3FilenameXLSX(Event[m])
    /\ hasWorkbook(record.access, record.file)
    /\ record.access = "private" => hasKey(vaultPathXLSX(Event[m]))

\* A download record leads to a workbook of its target: whatever attempts fail,
\* die or overlap after it, the object it names is in its bucket, and the vault
\* has a key for it if it is private (handler.go:137-161, 546-561).
LinksLead == \A t \in Target : downloads[t] # None => leads(t, downloads[t])

\* A fault-free attempt on an encrypted CSV file succeeds whatever the published
\* state, as the header of dp-cantabular-xlsx-exporter-private.feature has it.
EncryptedCsvExports ==
    \A w \in Worker :
        /\ pc[w] = "error" /\ faults = 0
        /\ s3["private"][generateS3FilenameCSV(ev(w))] # None
        => ~(ev(w).decodes /\ ValidateEvent(ev(w)))

\* What an observer of the topic and of the APIs sees, as Exports has it.
Contract == INSTANCE Exports WITH
    subject <- [m \in Message |-> SubjectOf(Event[m])],
    target <- [m \in Message |-> TargetOf(Event[m])],
    flagged <- {m \in Message : isFilterJob(Event[m])},
    records <- [t \in Target |-> IF downloads[t] = None THEN "none"
                                 ELSE downloads[t].access]

\* Every message is settled: handled until its offset is committed, through the
\* faults the bound admits (handler.go:75-164).
EveryMessageSettles == Contract!EveryMessageSettles

\* Whatever the workers, crashes, rebalances and faults do, an observer of the
\* topic and of the APIs sees records put for messages, never public before
\* their subject, a filter output's with the flag that fits it, and messages done
\* with after that or after a report (handler.go:75-164, 613-643).
ImplementsExports == Contract!Spec

=============================================================================
