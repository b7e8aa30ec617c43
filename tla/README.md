# Verification of dp-cantabular-xlsx-exporter

TLA+ models of the exporter, their TLC configurations, and TLAPS proofs. Paths
such as `handler.go:314` are relative to `src/handler`, `src/service` or `src`.

| module | models | checked by | proved in |
| --- | --- | --- | --- |
| `XlsxCreate` | `Handle` and the calls it makes, over several instances | `MCXlsxCreate*.cfg` | `XlsxCreateProofs` |
| `CsvStream` | the download of `GetCSVtoExcelStructure`, `StreamAndWrite` | `MCCsvStream*.cfg` | `CsvStreamProofs` |
| `DatasetSheet` | the rows and column widths of `GetCSVtoExcelStructure` | `MCDatasetSheet.cfg` | `DatasetSheetProofs` |
| `MetadataSheet` | `AddMetaDataToExcelStructure` | `MCMetadataSheet.cfg` | `MetadataElementsProofs`, `MetadataSheetProofs` |
| `XlsxUpload` | `SaveExcelStructureToExcelFile`, `UploadXLSXFile` | `MCXlsxUpload.cfg` | `XlsxUploadProofs` |
| `Service` | `run`, `Init`, `Start`, `Close`, `registerCheckers` | `MCService*.cfg` | `ServiceProofs` |
| `System` | the handlers of `XlsxCreate` in processes that start, shut down and are replaced | `MCSystem.cfg` | `SystemProofs` |

What a component promises is a specification of its own, which the detailed one
implements and the others rely on:

| promise | to | implemented by | relied on by |
| --- | --- | --- | --- |
| `Exports` | those who send messages and read the records | `XlsxCreate` | |
| `SheetJob` (with `SheetRows`) | the worker and its handler | `CsvStream` | `XlsxCreate` |
| `Upload` | the handler | `XlsxUpload` | `XlsxCreate` |
| `Process` (with `ProcessLife`) | the messages | `Service` | `System` |

## The system

The service consumes `cantabular-csv-created` messages. For each it reads a CSV
file off S3, builds an Excel workbook in memory, adds a metadata sheet, uploads
the workbook to S3, and writes its link and size to the dataset API or to the
filter API. It persists nothing of its own.

**Export pipeline** (`handler/handler.go`). State: the locals of one `Handle`.
Operations, in order: unmarshal and validate (77-96); read the published state
(98-114); `GetCSVtoExcelStructure`; `AddMetaDataToExcelStructure`; a new key to
the vault and the upload, or the upload alone when published (502-582); `Head`
for the size (144); `UpdateInstance` or `UpdateFilterOutput` (152-161). Every
call to another service may fail, may fail when it has been applied, and may be
the last thing the process does. A message may be delivered again, to another
instance, while the first still handles it. The published state is read at the
start and used for minutes, and for a filter job written back at the end. What must
hold: no part of a workbook in a bucket, nothing public that was never published, no
message lost, and object, key and record that fit together.

**CSV download and sheet building** (`handler.go:249-438`,
`s3_stream_writer.go`). State: an `io.Pipe`, a download goroutine that copies the
S3 body into it, a `bufio.Scanner`, the sheet. Hard: a reader and a writer that
block on each other, nine early returns, a context that ends at any time. What
must hold: a sheet returned without error is the whole file, and no job hangs.

**Workbook upload** (`handler.go:443-582`). The same the other way round: a
goroutine writes the workbook, the S3 client reads it. What must hold: only a
whole workbook becomes an object, after its key; the writer always ends.

**Dataset sheet** (`handler.go:116-129, 202-207, 340-396, 409-434`). State: the
output row, the stream writer or the sheet, the widths of the columns. Hard: the
row count that chooses between the two ways comes with the event and is trusted;
an array of 500 columns, excelize's limits on widths, rows and columns. What must
hold: every row is in the sheet whatever the event says, and only a file that Excel
has no room for fails.

**Metadata sheet** (`handler/metadata.go`). State: the row counter, two column
widths, a latched error. Sequential; it reads the dataset, filter and Cantabular
APIs in between. What must hold: rows in order, none after the first error, and
the error reported.

**Service life cycle** (`main.go`, `service/`). State: the consumer group with
one worker, the health checker that starts and stops it, the HTTP server, the
shutdown context. Hard: health reports against the shutdown, steps that hang, the
deadline against the last step. What must hold: no message is taken once the
consumer is stopped, the process always ends, and its exit status tells.

**Configuration, test producer, component tests**: environment variables, a
developer's tool and test code, not modelled. **dp-kafka, dp-healthcheck, dp-s3,
the vault and the API clients** are libraries that are not in the repository;
what is said of them below is how this code uses them.

Interaction: `Service` starts and stops the consumer, whose worker calls
`Handle`; `Handle` builds the two sheets and then uploads them, one after the
other; the instances meet only in Kafka, S3, the vault and the APIs. Processes
are replaced while their messages are under way, which is what `System` is about.

## XlsxCreate

One worker per instance (`OneAndOnlyOneWorker`, `initialise.go:31`), so a worker
stands for an instance. `pc[w]` is the next call of its handler, and each call is
an action, with its failures. Stores: `s3`, `vault`, `downloads`, `published`.

- An object is who wrote it (`by`, the number of the attempt; 0 is the CSV
  exporter upstream) and whether it is whole. The key of an attempt is its number:
  `NewPSK` draws a fresh one. So is the size `Head` returns: two workbooks may
  have different sizes, so the size tells which upload it is of.
- The ID `""` is an empty one. A file is a name and an extension.
- `ContextCallFails`: a call that takes the context fails for certain once it has
  ended, otherwise at the cost of one fault. `WriteKey` takes no context. A
  failed `WriteKey`, upload or update may have been applied.
- `GetCSVtoExcelStructure` is one step with the outcomes `SheetJob` allows, which
  are the same operator `RowsReturned` in both: the whole sheet; an error; or, when
  the context has ended, nil and part of the rows (`handler.go:314`).
- Failures of `NewStreamWriter` and `SetDefaultFont` are part of that step's
  failure; those of the sheet's renaming are part of the metadata step's, of `NewPSK` part of
  `WriteKey`'s, of `PathUnescape` part of the upload that fails when stored.
- Whether the consumer commits a message whose handler returned an error is
  decided in dp-kafka: `CommitOnError` is a constant, and both values are checked.
- A call that is applied after it has been given up as failed is applied at that
  moment; later arrival is not modelled.
- `UpdateFilterOutput` PUTs the published flag with the record, as `GetState` read it
  (`handler.go:631-636`; `flagPut`): a stale false may take back what was published in
  between. The filter API is taken to store the flag it is sent. `UpdateInstance` sends
  none. `released` (history) are the subjects their publishers have published, which
  they never take back; `published` is what the APIs show.
- `ValidateEvent` checks no name, nor does the model: `generateS3FilenameXLSX` leaves a
  name without `.csv` as it is, and the workbook then takes the place of its source. A
  later delivery reads that workbook as CSV, which may parse or not (`csvParses`). That
  it is overwritten is what the code does, and nothing in the repository says which
  names an event may have, so it is no finding; it is in the list of hazards.
- Assumed (`SubjectAssumption`): the dataset API and the filter API give IDs of their
  own. Of the events only their type is assumed (`EventAssumption`).

Checked (`export_safety`): `OnlyWholeWorkbooks` (the nil of `handler.go:314` is
harmless only because every later call but `WriteKey` takes the same context);
`NoPrerelease` (no public object, public link or published flag of what was never
released, whatever was read when and written back when); `PublicLinksStand` (a flag
that is taken back takes the public link with it, since both are of the same read);
`CommittedIsExportedOrReported`, `IsolatedExportConsistent`, `LinksLead`; and
`ImplementsExports`: for an observer of the records, of the published flags and of what
is committed or reported, the system is `Exports`.
`IsolatedExportConsistent` is about attempts no conflicting attempt
overlapped, whatever died before them: with overlap it is false, since the vault
path and the object name are shared. `LinksLead` is what is left of it when attempts
do overlap: a link in a record leads to a workbook that is there, and to a key if it
is encrypted, though the workbook, or the key, may be of another attempt, and the size
in the record too. A dataset job and a filter job of the same
version share the path of their key (`handler.go:546`), not the object.

Bounds: two workers, a dataset job and a filter job of one version, the latter with a
file without `.csv` (`unnamed`), three deliveries (so a message is redelivered while the other is under way), two faults: a crash
and a rebalance, or a cancellation and a failed call. Workers are symmetric.
`export_liveness` has a filter job with a `.csv` file and an event over the row limit,
and four deliveries; symmetry is off. Fairness: calls return, since the clients have timeouts; workers are
scheduled; the broker offers an uncommitted message again. `EveryMessageSettles`
needs `CommitOnError`: otherwise a message that can only fail is redelivered for
ever, which is the policy and no defect of the handler.

## CsvStream

`fetched`, `offered`, `buffered` and `placed` count the rows read off S3, held by
a blocked `Write`, in the scanner, and in the sheet; the kind of a row (placed,
refused, too long for the scanner) is all its content. The goroutine of a job is
indexed by the job because it can outlive it. `downloadCtxLive` is the context of
the download: it ends with the worker's, and, by the deferred `cancelDownload` of
`handler.go:272`, when the job returns. Then a call to S3 or a read of its body fails;
a `Write` to the pipe, which knows no context, goes on waiting for its reader.
`NewStyle`, which may fail, runs beside the download already. Half a row at the end of a failed
download is not modelled: the scanner hands it on as a row before `Err`, and the
job fails just after. A row that is too long is never wholly buffered. A job
whose context was cancelled while the scanner is empty ends as the download ends.

Checked (`csv_stream`): `NilIsWhole`, `NilEndsDownload`, `NoMutualWait`,
`ImplementsSheetJob`, `EveryStepCounts`, and `EveryJobReturns` under fairness of the
worker and of the download goroutine (goroutines are scheduled, S3 and vault calls
return). `NoMutualWait` says that the worker or its download can go on, whatever the
pipe, the scanner and the file hold; `EveryStepCounts` that each step of either lowers
`stepsLeft`, a number of steps that bounds those still to come. Bounds: two jobs, so that what one leaves
behind meets the next, files of at most two rows of any kind, so that a file is
several chunks and a chunk several rows.

## DatasetSheet

The download is `CsvStream`'s; here rows arrive one after the other. A file is a
sequence of rows of cells, a cell the length of its text, whether `ParseFloat` takes
it for a number, and then the length of its `%f` form, which is what `colStr` is
measured by (`handler.go:344-358`). That form is longer than the text for `1` and
shorter for `0.123456789`, so the two lengths are independent. `doLargeSheet` is the
choice by the event's row count; a large file goes
through the stream writer (`streamed`) and is in the sheet (`rows`) once flushed, a
small one goes into the sheet at once and its columns are measured
(`columnWidths`), then set (`setWidths`). excelize refuses a row after `TotalRows`
(1048576), a row of more than `TotalColumns` cells (16384) and a width over its maximum:
no other failure of it is modelled here, they are `CsvStream`'s.

Checked (`dataset_sheet`): `NilHasEveryRow`, `OnlyTooLargeFails`, `TextsFit`. `TextsFit`
is about what the code measures, not about what Excel shows: a number whose text is
longer than its `%f` form is promised room for the latter only. Bounds:
files of at most four rows where a sheet has three; rows of one to four cells where
a sheet has three columns and two of them can be measured; texts at, one below and over
the maximum width; numbers longer and shorter in their `%f` form; row counts of the
event that are negative, zero, at the choice and over it.

## MetadataSheet

The code walks the answers with a statement per row; the model walks `todo`, the
same rows as a sequence of elements: an item (skipped when its text is empty), a
heading, a gap, or a date, whose failure to parse returns at once. `pc` is the next
call. Each call, and each of the two cells of an element, may fail; a cell's failure
is latched (`procErr`), and its row counter stays where it is. A text is its length.
`Details`, `Dimensions` and `History` are the rows before and after the calls,
`GetFilterDimensions` and `GenerateCustomTitle` the functions of these names.

Checked (`metadata_sheet`): `NilIsComplete`, `WidthFits`, `NoCellRewritten`. Bounds: a
dataset, a filter and a custom job; lists that are absent, empty, or of entries with
empty, short and overlong texts; versions whose date parses or does not. Lists of
one or two entries do, since each entry is walked as the one before it.

## XlsxUpload

A workbook is a number of chunks. `ReturnError` closes the pipe and returns
without waiting; `ReturnLocation` waits for `wgUpload`. `pipe` keeps the first way
it was closed, as `io.Pipe` does. Checked (`xlsx_upload`): `StoredIsWhole`,
`LocationEndsWriter`, `NoMutualWait`, `EveryStepCounts`, `ImplementsUpload` (with it, that
the key is there before the object, which is `KeyBeforeObject` for short), and, under
fairness, `WriterEnds`: the writer never stays blocked with the workbook, which is what
`CsvStream`'s download goroutine does on its early returns. Bound: four chunks, two or more being enough
for a failure between chunks.

## Service

`pc` is where `run` is, `closer` the step of the goroutine `Close` starts. Any
step may fail or never be taken: only `run`, the deadline and the health checker
are fair. `Report` is a subscribed consumer's `OnHealthUpdate`. `down` are the
dependencies that are down, `registered` those a checker is added for, `seenDown`
(history) those that were down when the health checker last had something new to
report. Assumed:
`HealthCheck.Stop` returns only when no report is under way, which is what
`Close` relies on by calling it first (`service.go:134`). The worker's message is
not followed: `Consumer.Stop` does not wait for it, and what becomes of it is
`System`'s.

Checked (`service_life`): `NothingTakenAfterStop`, `TakesOnlyWhenHealthy`,
`NilIsGraceful`, `StopEndsProcess`, `HealthyServiceConsumes`, `ImplementsProcess`,
and in `TypeOK` that
`svcErrors` never holds more than its capacity, so no send blocks. The one bound is `Dependency`: the
dataset API, which is checked, and the filter API, which is not, since the
dependencies of either sort behave alike. `StopEndsProcess` ends where `run` returns;
the deferred `otelShutdown(context.Background())` of `main.go:70-72`, which has no
deadline and still runs before the process ends, is left out with OpenTelemetry. What
is shown is that nothing in the service itself keeps the process.

## System

Each instance of `XlsxCreate` gets a process that lives as `ProcessLife` says, which
`Service` implements: `Start`, `Report`, `BeginShutdown`, `StopConsumer`,
`EndProcess`. A message is delivered only where the process takes it, a handler
steps only where the process is alive. `Consumer.Stop` does not wait for the handler,
and what the broker does with the message under way is not this code's to say, so
`StopConsumer` keeps it assigned or frees it for another instance, while the handler
goes on. `EndProcess`, after `Close` or by its timeout, ends the handler wherever it
is, and `NextInstance` replaces the process.

Checked (`deployment`): `SystemTypeOK` (with it, that no handler survives its
process) and `EveryMessageSettles`. The safety of the exports in the deployment is proved
of any number of processes, shutdowns and messages (see Proofs) and not checked again. Bounds: two processes, one message, two shutdowns, so that
both deliveries can be interrupted, one fault besides, and four deliveries, so that
the bound on deliveries never ends a behaviour that the code would go on with.
Fairness, besides `export_liveness`'s: a process that starts is up or fails, a healthy
one is told to consume, one that shuts down ends (`StopEndsProcess` of `Service`), and
the orchestrator replaces it. `StopConsumer` is not fair: `Consumer.Stop` may hang.

## Proofs

Each `*Proofs` module has one inductive invariant `IInv`, a lemma per group of
actions, `Invariance == Spec => []IInv`, and the theorems. They hold for every
value of the constants, under the named assumptions of the modules only.

- `XlsxCreateProofs` (any workers, messages, events, attempts and faults): type
  correctness, all six safety invariants and `ImplementsExports`.
  `OnlyWholeWorkbooks` is not inductive: `WholeInv` adds that a cut sheet is of a
  handler whose context has ended and gets no further than the metadata step.
  `ReleaseInv` adds that what a handler holds to be published has been released, and, of
  an instance, whose flag no handler writes, is published still.
  `ExportInv` adds that a handler about to return nil has put its record. `AttemptInv`
  says that an attempt's number is not upstream's. `IsolationInv` says, at each `pc` of an attempt nobody overlaps, that no
  attempt under way conflicts with it and that the key, the object, the size and the
  record are as it left them. `LinkInv` says, of any attempt, that its object is
  there at its update, and its key, or that of a later attempt, from its upload on;
  `StoresLast` that nothing takes either away again.
- `CsvStreamProofs` (any files, jobs and chunk size): `ScanInv` says that no row is
  lost or duplicated between S3 and the sheet (`placed + buffered + offered =
  fetched`) and that `io.EOF` is the end of the file. `ImplementsSheetJob` follows:
  without a cancelled context the sheet is whole. `ProgressInv` says that a
  download that is over has closed its pipe, and so has a worker that waits for one, and
  that no overlong row is in the scanner's buffer, from which `NoMutualWait`;
  `EveryStepCounts` is proved action by action.
- `XlsxUploadProofs` (any workbook): `PipeInv` says that until the worker gives up,
  an `io.EOF` in the pipe is of a writer that has written all, from which
  `ImplementsUpload`; `ClosedInv` that a writer that has ended, or a worker that has
  returned an error, has closed the pipe, from which `NoMutualWait`.
- `DatasetSheetProofs` (any files, row counts and limits): `RowsInv` says that the rows
  so far are all in the stream writer or all in the sheet, `MeasuredInv` that each
  cell so far has been measured, `SetInv` that the widths set are those measured.
- `MetadataElementsProofs`: for any lists of texts, dimensions, versions and related
  content the rows of a request are elements. The lists are flattened, and the title
  summed, by recursion: `SetInduction`, from the well-foundedness of `<`, is induction on
  a set of numbers, and `Recursion` that a first value and steps define a function.
- `MetadataSheetProofs` (any requests, texts and width limit): `RowsInv` says that the
  row in hand is free until both its cells are placed, `WidthInv` that each text in
  column B has been measured. `FilledInv` is what `NilIsComplete` needs: the rows of the
  request are those placed, those in hand and those of the calls to come, and the placed
  ones are in the sheet, each in the row that the elements before it leave it, unless a
  cell has failed. What is assumed (`RequestAssumption`,
  `TextAssumption`) is the types of the answers and a width limit above zero.
- `ServiceProofs` (any dependencies): `CloserInv` says what each step of the shutdown
  leaves behind, `StartInv` what is there before it, `ReportInv` that good health is
  reported only of a check that found the dataset API up. From these and
  `ShutdownInv`, every step maps to a step of `Process` or to a stutter
  (`ImplementsProcess`).
- `SystemProofs` (any workers, messages, shutdowns): `IInv` of `XlsxCreateProofs` is
  an invariant of `System` too, so its six safety invariants hold of the deployment.
  The steps of `XlsxCreate` are covered by its lemmas; `DieStep` and `BrokerStep` are
  the two that are new: a handler that is ended, a message taken from one that goes on.
  `LifeUnseen` says that what a process goes through by itself changes no store and
  settles no message, so that the deployment implements `Exports` as well.

What this says of termination: `NoMutualWait` and `EveryStepCounts` hold of every file
and every workbook. One of the two parties can always go on, by a step that needs no
fault; each step lowers a natural number; the steps of other jobs leave it alone. With
the fairness of the two, a job returns and a writer ends. That last conclusion is about
fairness, and is the part only TLC draws, for small files and workbooks.

Only model-checked: the liveness properties (`EveryMessageSettles`, in one process
and in the deployment, `EveryJobReturns`, `WriterEnds`, `StopEndsProcess`,
`HealthyServiceConsumes`), which rest on fairness and are beyond the prover.

## What the code does otherwise than it says

- `export_encrypted_csv`: the header of
  `features/dp-cantabular-xlsx-exporter-private.feature` says that the XLSX of an
  encrypted CSV, published, is stored in the public bucket. The code looks for the
  CSV of a published instance in the public bucket only, so an instance published
  after its CSV was written fails at every attempt.
- `csv_stream_leak`: a job that fails at a row (one that does not parse, that excelize
  refuses, or that is too long for the scanner) leaves its download in a `Write` with
  what the scanner has not read. Nobody reads from the pipe again, nobody closes it, and
  `cancelDownload` ends no `Write`: the rest of the chunk, the S3 body and the goroutine
  are held for good, beside those of the next file, in spite of the one worker.
- `csv_stream_cancel`: the error for a cancelled context wraps a nil error and is
  nil.
- `service_unchecked`: `README.md:60` says that dependent services are health checked.
  No checker is added for the filter API, the population types API or Cantabular, so
  with `STOP_CONSUMING_ON_UNHEALTHY` messages are taken while one of these is down.

Seen and not modelled: `README.md:22` gives 5s for `GRACEFUL_SHUTDOWN_TIMEOUT`,
`config/config.go:83` 25s; the comment of `UpdateInstance` speaks of a state it does
not set.

## Not modelled

- `config/config.go` reads environment variables into one value, once; the values
  that matter are constants or variables of the modules. `cmd/producer` sends one
  event and keeps nothing. `features/steps` is test code.
- The construction of the clients in `service/initialise.go` has no state but what it
  returns: it is the one step `ServiceInit`, which may fail. OpenTelemetry is left
  out, with it that `main.go:70-72` loses `otelShutdown`'s error (it is assigned to a
  variable that is not returned).
- Whether a value is written as a number (`handler.go:344`), how a date is printed,
  and the limit of excelize on the length of a cell are about contents; a text is its
  length. `GetVersions` asks for 100 versions (`metadata.go:276`): the model has the
  versions it answers with.
- Half a row at the end of a failed download, and a call that is applied after its
  caller has given it up and gone on: see `CsvStream` and `XlsxCreate`.
- Kafka, S3, the vault, excelize and the API clients are outside the repository and
  modelled as this code uses them; their own retries and rebalances are steps of the
  environment.

## Plan

Done: the modules above, their promises and refinements, their composition, and the
proofs. What is left is outside what can be said faithfully of this code: a call that
arrives late needs the timeouts of the clients, and the liveness of the promises an
argument about fairness that the prover does not do.
