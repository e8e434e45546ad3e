# NAT request intake: formal verification

TLA+ modules, TLC runs and TLAPS proofs about `nat_request_intake`. The service takes files of NAT
requests (by HTTP or by e-mail), refuses invalid and repeated rows, sends the rest to a NAT service as
tasks, has the results aggregated and enriched, and e-mails the outcome to the sender.

Paths below are relative to `src/`; `nat/` is `app/features/nat/`.

## 1. The system

One PostgreSQL database, one API, five workers, the outside services they call.

| Component | State it keeps | Operations | Talks to |
|---|---|---|---|
| Intake upload (`nat/services/intake`) | `nat_intakes`, `nat_batches`, `nat_tasks`, stored file | `POST /intake`, `/intake/internal` | row rules, deduplication, disk |
| Row rules (`nat/services/validation`, `validators`, `transformation`) | none | read, validate, expand a file | |
| Deduplication (`nat/services/deduplication`) | `nat_dedup_keys` (unique `key_hash`, a window of minutes) | check, purge, register | the upload's transaction |
| `nat_task_status_worker` | `nat_tasks.status`, `error_message` | dispatch queue, poll queue | NAT |
| `nat_batch_notify_worker` | `nat_batches.notified_at`, `processing_paused` | stop all-failed batches, notify | aggregator |
| Aggregation and SPIN (external) | `aggregation_tasks` | completes or fails a row | database |
| `assomi_worker` | `assomi_tasks`, a result CSV | enqueue, process one task | ASSOMI |
| ASSOMI client (`assomi_client.py`, `code_msg.py`) | the `code_msg` sequence, in memory of each process | offer values until one is served | ASSOMI |
| Client credentials (`app/core/client_credentials.py`) | a cached token in each process | get, invalidate | Keycloak |
| `intake_result_email_worker` | `nat_batches.result_emailed_at` | claim, classify, attach, send | SMTP, results builder |
| Manual SPIN and ASSOMI uploads | a batch that enters at a later stage | upload, call SPIN, mark | SPIN |
| Pause API | `processing_paused`, `single_stage_only`, global pause | pause, resume | all claims |
| Email poller (`email_poller`) | the `\Seen` flags, `email_messages` | poll cycle | IMAP, upload API, SMTP |
| Sender whitelist (`app/features/email`) | `email_senders` | create, update, delete | email poller |
| Results builder and downloads (`nat/services/results`) | none | sheet plan, workbook, single files | database, disk |
| Listings and monitoring (`nat/services/listing`) | none | nine filtered, sorted, paged lists | database |

How they interact: a worker opens a transaction, claims one row with `SELECT .. FOR UPDATE SKIP LOCKED`,
calls an outside service while it holds the row locks, writes the answer and commits. There is no
message between workers; the next stage finds its rows by their columns. Uploads meet each other in the
unique key of `nat_dedup_keys`. The poller meets the rest of the system at the upload endpoint only.
Reads lock nothing: under READ COMMITTED each statement of a download or a list sees a moment of its own.

What is hard to test in it, each with its line under `hazards` in `PROJECT.json`:

* **claim and answer are two moments**, and replicas, pauses and uploads step in between;
* **a commit after an outside call**: a crash or a lost answer repeats a request, notification or mail;
* **a check before a lock wait**: the 409 check of the pause API, the pause read by `INSERT .. SELECT`;
* **the end of the deduplication window**: purge, unique key and rollback of concurrent uploads;
* **four systems without a common transaction** in the poller: mailbox, intake, SMTP and database;
* **queues that must not starve**: transient errors at the head of a queue, unfinished batches that no
  claim selects, a mailbox stuck behind one message;
* **a counter in memory that wraps around** while the service still refuses old values of it, and that a
  restart or a second replica starts over;
* **a life measured at two places**: a token expires at Keycloak and in the cache by different clocks;
* **one truth written several times**: outcome, monitoring counters and readiness are decided in SQL and
  again in Python; the count of a list and the list are two statements;
* **reads of several moments** put together into one workbook;
* **rows that leave a file at four places**, and parts of a stage of which one has no file.

What makes each part correct is stated as the properties of section 3.

## 2. Modules

| Module | What it is |
|---|---|
| `NatPipeline` | the core: rows of one database, all workers, manual uploads, pause API, aggregator |
| `BatchLife` | abstract: the life of a batch; `NatPipeline` refines it |
| `NatPipelineProofs` | the inductive invariant of the core, its safety, the refinement |
| `ResultDownload` | `NatPipeline` and a download that reads it statement by statement |
| `DownloadProofs` | such a download is that of the batch's end |
| `IntakeContract` | abstract: what an upload promises, in one step |
| `IntakeDedup` | `IntakeService.process` as one transaction, row by row; refines `IntakeContract` |
| `IntakeDedupProofs` | its inductive invariant, the refinement, and what the contract is for |
| `EmailPoller`, `EmailPollerProofs` | `poll_once` as steps between four systems that may fail |
| `CodeMsg`, `CodeMsgProofs` | the calls of the ASSOMI client, value by value |
| `ServiceToken`, `TokenProofs` | calls with a client-credentials token |
| `RowRules`, `Workbook`, `Listing` | pure operators: a file's rows, an intake's workbook and mail, the lists |
| `Ordering` | sequences in a given order: sorting and selecting, without recursion |
| `Requests` | composes `ServiceToken`, `RowRules`, `Workbook`, `Listing`: a behaviour asks one thing and answers it |
| `DataLemmas` | lemmas about sequences: in order, selected, one after the other; induction over numbers |
| `RequestProofs` | what the answers to files, reports and lists are, for any input |
| `MC*` | the small instances of each |

### NatPipeline

State: one variable per column that the claims read (`paused`, `single`, `notified`, `emailed`, `task`,
`agg`, `assomi`, `gpaused`), the program point of each worker (`pc`), the batch whose rows its
transaction holds (`claim`), and counts of what the outside world has seen (`sends`, `notices`, `mails`,
`told`). A task status is reduced to what a claim tells apart: `ready` is `NULL`, `unsent` is `NULL` with
an `error_message`, `inflight` is any of `NON_TERMINAL_NAT_STATUSES`, and so on.

Correspondence of actions: `Claim*` is the SELECT of a `claim_for_*` method, with its `WHERE` in the
operator of the queue (`Dispatchable`, `Pollable`, `Notifiable`, `AssomiClaimable`, `Mailable`), and
oldest row first. `*Ok`, `*Rejected`, `*Done`, `*Transient`, `*Failed` are the branches that follow the
call, each up to its commit or rollback; `*Lost` is a call that took effect and whose answer was never
recorded. `End*` is an empty claim: on to the next queue or to sleep. `Abort` is an exception or crash:
`SQLAlchemyUnitOfWork.__aexit__` rolls back, the loop starts again. `EnsureRead` and `EnsureCommit` are
two steps, because `INSERT .. SELECT` reads the pause before its rows are visible; `ON CONFLICT DO
NOTHING` settles two replicas. `PauseCheck` and `PauseApply` are the check and the UPDATE of
`IntakeProcessingService`; the UPDATE waits while a worker holds the row. `SpinCall*` and `SpinMark*`
are the call and the second commit of a manual SPIN upload. `PendingDispatch`, `InProgress`, `Completed`
and `FailedTasks` are the counters of the monitoring list, each from the SQL that computes it.

Every claim joins `nat_batches` without `OF`, so a claim of any row locks its batch: one lock per batch
is exact. `NatPipelineProofs!RowLocks` is about this.

`BatchLife` is what the pipeline promises of a batch without all this: it comes in at the stage of its
source, goes through the stages in order and ends with one outcome; a hold keeps it from being handed on and
enriched, a limit to its entry stage from being handed on and reported; every report tells the outcome.
`ImplementsLife` of `NatPipeline` maps rows to stages; claims, calls, lost answers and late reads change
nothing of it.

### ResultDownload

`Ask` reads the batch; `ReadNext` reads its `assomi_tasks` row, then its `aggregation_tasks` row, then its
`nat_tasks`, in the order of `IntakeResultsService`, while every action of `NatPipeline` may step in
between. `Ended` decides from what was read whether there is a workbook.

### IntakeDedup and IntakeContract

Variables: `keys`, the committed rows of `nat_dedup_keys`; `put`, `purged` and `sweep`, what each open
transaction has inserted, deleted and selected for deletion; `verdict`, the row results; `stored` and
`batch`, the file and its tasks. READ COMMITTED is written out: `Visible(u)` is what is committed plus
the own changes; `Holders(u)` are the transactions an INSERT of the same `key_hash` waits for. A DELETE
reads its rows at once and deletes them one by one in no fixed order. `Deadlocked(u)` is a cycle of
waits, which PostgreSQL resolves by aborting one member. Each row has a step for its check and two for
its registration (time and savepoint, then the INSERT), since `register_if_absent` reads the clock
before it waits.

`IntakeContract` has no keys and no transactions: an upload is open until one step accepts a set of
rows, refuses the file or fails without verdict. A row may be accepted only if every equal accepted row
is more than `Window` older, and refused as repeated only for an earlier row of the file or an accepted
row that counted at some moment of the upload. The mapping is `rows <- rows`, `told <- verdict` at the
end, `outcome` from `pc`; `accepted`, `arrived` and `closed` are history variables. `Commit` of
`IntakeDedup` is what `AcceptNat` of `NatPipeline` does in one step.

### EmailPoller

`pc` follows `_process_uid`: headers, Message-ID check, whitelist, fetch, upload, reply, audit row, flag.
`Kind` says what a message is: with a file, without one, without a From address, one whose reply cannot
be composed, one whose row cannot be stored. The intake is that of `IntakeContract`, reduced to whole
files: `taken` are the files within the window. `Enlist` adds or removes a sender at any moment; the
whitelist is loaded once a cycle. `lost` is a history variable: outcomes of a message that
the poller failed to record. Faults: an IMAP error, an upload refused, lost, or answered unreadably, an
SMTP error before or after delivery, a lost commit, a failed flag, an exception or crash at any point.

"unreplyable" rests on Python's library: `_decode_subject` keeps the line break of a folded ASCII Subject,
and assigning it to a header of `email.message.EmailMessage` (default policy) raises `ValueError`.

### CodeMsg

`current` is the sequence of a process, in memory: `NextCode` wraps from `CodeMax` to `CodeMin`, `Restart`
counts from `CodeStart` again. `Send` offers the current value; the service serves it once (`Serve`),
refuses a value it knows (`Refuse`), denies the request (`Deny`), or the answer is lost or unusable
(`Fault`). `Answers` is an answer as far as the client looks at it (status, XML or not, code, message,
subscribers) and `Verdict` is what the client makes of it; `OnTaken`, `OnInfo`, `OnPermanent`,
`OnTransient` and `Exhausted` are the branches that follow. `Settle` ends a task without a call: files
unreadable, or no login in them. `Rows` is the result CSV. The three ends of a task are `AssomiDone`,
`AssomiFailed` and `AssomiTransient` of `NatPipeline`. `Forget` lets the service accept a value again.

### ServiceToken

`issued`, `bornAt` and `revoked` are Keycloak's; `cached` and `expires` the provider's. `Begin` and `Retry`
run `GetToken`: the cached token, or a new one once `IsExpired`. `Issue` and `Receive` are the two ends of
Keycloak's answer; the provider counts from the second. `Arrive` is where the service judges the token;
`Retry` follows the first 401, `Finish` any other answer; `NoToken` and `Lost` are failures of the two
journeys. `Tick` lets time pass, at most `MaxLag` for a message under way. The providers of the API, the
workers and the poller are the same machine; the three clients differ in what they make of no answer
(`Unanswered`). A process makes one call at a time, as its worker does.

### RowRules, Workbook, Listing, Requests

`RowRules`: a cell says what the parsers return for it (blank, a date as written and with or without an
offset, an address with prefix and port, a region, or not readable as such). `FileError` and `ParsedRows`
read a file by its header names; `RowErrors` composes the validators in their order; `Axis` and `Tasks` are
the expansion of IP columns and its product; `Response` is the whole answer, with `valid_rows` as the
number of tasks, which is what the code counts; `RowStats` is what the monitoring list counts from the
stored errors. Deduplication is reduced to repeats within the file.

`Workbook`: `SheetPlan` chooses sheets and titles of the stages, `Merged` puts parts of one stage together,
`Sanitized` makes titles unique and short, `WorkbookOf` is the workbook of what can be read;
`IntakeResults` is what becomes of it: the workbook, `"empty"`, or `"exception"` when a file that belongs in
it is not in UTF-8, since `load_csv_rows` decodes strictly (`Loads`); `Download`, `AssomiDownload` and
`SourceDownload` are the single files, which are sent as they are; `Mail` and `Says` are the attachment and
what the text says of it; an exception ends the cycle, so no mail of it is sent. A path is
`<<name, lines, decodes>>`, `NoPath` or `Gone`. Accepted uploads decode, since `file_parser.py` read them as
strictly, and XLSX needs no encoding; the files of the stages may have any.

`Listing`: parameters with their words, the clauses they become, `From` for the statement that counts and
the one that lists, order, limit and offset. `Holds`, `Joined` and `Selected` give PostgreSQL's meaning to a
statement: outer joins, NULL in comparisons, `ILIKE` with its escape; these and `Matches` are external.
`Orders` is every sequence of the rows that the ORDER BY allows: rows that tie may come in any order.
`Consistent` is what the schema and the uploads guarantee of the rows of a database.

`Requests` has two variables, `subject` and `reply`; `Answer` evaluates the operators of the endpoint for
one of the constants' inputs. A walk through a list asks for page after page up to `LastPage`
(`WalkReplies`); each page is a statement of its own, which breaks ties anew. A behaviour about `"token"` takes the steps of `ServiceToken` instead.

## 3. Runs

All runs check deadlock but `dedup`, where every upload ends, and `requests` and `encoded`, where an
answered request is over.

| Run | Checks | Shows |
|---|---|---|
| `nat` | `TypeOK`, `PauseIsBarrier`, `NotifiedOnlyWhenSettled`, `OneOutcomeTold`, `OnceUnlessLost`, `MonitoringAgrees`, `DownloadStaysReady`, `ImplementsLife` | one NAT batch of two tasks from upload to mail, with pauses at any time and a lost answer |
| `manual` | `PipelineSafe`, `EveryBatchReported` | a SPIN and an ASSOMI upload, one row per cycle, mail ignoring the pause: safe over two faults, and reported |
| `replicas` | `ClaimStaysTrue`, `PipelineSafe`, `WholeWorkbook` | two of every worker compete for one batch while its results are downloaded |
| `live` | `EveryBatchReported`, `PollContinues` | nothing is left behind; with a batch limit polling survives pauses and a dead NAT send endpoint |
| `dedup` | `KeysMatchBatches`, `FileWithBatch`, `ImplementsContract`, `EveryUploadEnds` | two uploads around the end of the window, all failures; the refinement, and the end of every deadlock |
| `mail` | `SeenIsRecorded`, `OnlyLostRepeated`, `OutcomeIsTrue` | no message vanishes; repetitions only for lost outcomes |
| `mail_live` | `EveryMailHandled` | every message whose handling does not raise is handled in the end |
| `code_msg` | `NoValueTwice`, `OneRequestServed`, `RowsAnswerFile`, `GivesUpOnlyWhenAllRefused`, `EveryTaskDecided` | two replicas across the wrap-around, any values taken at first |
| `requests` | `OnlyRevokedRefused`, `RetryIsSafe` | calls with tokens of a short life |
| | `TasksCoverRow`, `NoErrorHidesAnother`, `EveryRowAccounted` | uploaded files: expansion, findings, accounts |
| | `WorkbookHasAll`, `DownloadIsWhole`, `MailTellsAttachment` | workbooks, single files and mails of an intake |
| | `CountMatchesList`, `FiltersSplitList`, `WalkShowsAll`, `LikeIsSubstring` | the nine lists: filters, count, order, pages |
| `emailed_pause` | `PauseRefusedOnceEmailed` (violated) | finding 1 |
| `folded` | `ProcessedIsAudited` (violated) | finding 2 |
| `encoded` | `ResultsAnswered` (violated) | finding 3 |

`PipelineSafe` is the conjunction of the four safety properties that `nat` checks one by one and
`SingleStageStops`. Distinct
states: `nat` 230,952, `manual` 33,916, `replicas` 169,320 (symmetric), `dedup` 689,760, `requests`
250,244, `live` 21,300.

`PROJECT.json` gives each property of a passing run a mutant: a plausible bug in a mapped definition that
violates it (an operator named `<definition>_<bug>` beside the definition). The pure properties compare an
operator with a definition of another kind: `TasksCoverRow` says bit by bit which addresses a cell denotes,
`NoErrorHidesAnother` judges each part in an otherwise flawless row, `EveryRowAccounted` counts `valid_rows`
as places of tasks and says when that count fits the others, `DownloadIsWhole` says of which files a workbook
is made, and that there is none exactly when one of them cannot be decoded, `LikeIsSubstring` looks for the
text itself, `WalkShowsAll` puts the pages of a reader together.

### Findings

1. `emailed_pause`: `IntakeProcessingService` checks `result_emailed_at` before its UPDATE waits for the
   lock of the mail worker; the router promises 409 for a finished intake.
2. `folded`: a folded Subject makes the reply raise after the file was accepted. The row of the audit
   log is never written, and messages with a higher UID are never read.
3. `encoded`: `.env.example` ships `cp1251` as the encoding of ASSOMI's files, their header is Cyrillic, and
   `load_csv_rows` decodes a workbook's files as `utf-8-sig` only. So the results of a completed intake are
   an exception, where the router documents a workbook, 404 or 409. The file of ASSOMI alone is still served,
   and mailed when the attachment is `assomi_csv`, as shipped.

### Observations

What the code does, with no text in the repository that says otherwise or none that a run could check:

* A file with the same row twice, whose first row exceeds an expansion limit, has its second refused as
  "already accepted": `deduplication_service.py` counts a row as seen before it is decided.
* An upload whose answer timed out is retried and refused as a repeat; the audit row and the reply say
  rejected although the file was accepted. `OutcomeIsTrue` excuses this with `lost`.
* When SPIN accepts a single-stage upload and its answer is lost, the batch is never paused, and ASSOMI
  starts. `SingleStageStops` says that it stops after ASSOMI then, without a mail.
* One date with an offset and one without in a row raise `TypeError`: the whole file fails (`Raises`).
* Two spellings of one address are no repeat. A second column of the same header is accepted; the last wins.
* A network is listed whole before the expansion limit is looked at.
* All tasks of a batch tie in `created_at`, so pages of the default order may repeat or skip some. In the
  model every page breaks ties anew; `WalkShowsAll` asks for each row once only where the order is total,
  and otherwise for as many rows as were told, in order.
* The count and the list are two statements; a row that appears in between is in one of them only.
* `valid_rows` is the number of tasks: one row with a /28 is answered as one row in all, fourteen accepted,
  none rejected. The reply by mail prints it as accepted rows; the monitoring list has total minus rejected.
  `EveryRowAccounted` says that these agree exactly when every accepted row has one task.
* Without a batch limit (`NAT_TASK_STATUS_WORKER_PROCESS_ALL_NON_TERMINAL=true`, as shipped) a ready task
  whose dispatch keeps failing keeps the worker in its dispatch loop, and nothing is polled. `PollContinues` is
  about a worker with a limit.
* With `combined_xlsx` and `cp1251` the mail worker raises at the oldest such batch in every cycle, so no
  later result is mailed.
* With `combined_xlsx` the mail reports success without an ASSOMI sheet when only that file is missing.
* With a `spin_matched_path` of blanks only, the Python trims what SQL does not.

### Bounds

* `nat`: one batch is enough because rows of two batches meet only in the order of a queue, in
  `BatchLimit` and in the global pause; `manual` has two batches, a limit of one and two faults. Two tasks are
  needed for "one completed, one not". One fault: every property that counts says "one more per fault". In
  `manual` nobody calls the pause API, so that all are reported; manual batches with pauses are in the
  theorem `AllSafe`.
* `replicas` has two of each worker and no pause, with symmetry among replicas; one task, since what
  replicas contend for is a row.
* `Requests` of `NatPipeline` has one element: two pause requests of one batch only repeat UPDATEs.
* `Window` 1, `MaxTime` 2: the clock of `IntakeDedup` runs to twice the window, so that a key can expire
  before, between and after the check, the purge and the registration. Two uploads suffice for each
  pairwise conflict; the proofs are for any number.
* `EmailPoller` counts up to `Cap` = 4 with `MaxFaults` = 2; without a fault or a raise nothing repeats.
  A message that raises does so in every cycle, and its counters stop at `Cap`: `uploads` and `lost`
  saturate together. `PollerAssumption` says `MaxFaults <= Cap`; it is what `OnlyLostRepeated` needs.
* `code_msg`: three values, start in the middle, so that a call can begin after the wrap-around, before it
  and on it; two replicas, four tasks, one fault (`MaxFaults`).
* Tokens: `Lifetime` 5, `Skew` 2, `MaxLag` 1, `MaxClock` 8, `MaxTokens` 3: one token runs out, the next is
  revoked, the third serves. `2 * MaxLag <= Skew` is what the skew is there for: it covers the way of the
  token and the way of the call.
* Files: addresses of four bits, limits of six, files of up to four rows, dates in half days. Every prefix
  length occurs, /31 and /32 among them, aligned and unaligned, inside and across the operator's networks.
* Reports: two output files per stage, titles of at most five characters, so that titles collide and are
  cut; an attachment of nine units is just too large or not. One of ASSOMI's files and one of SPIN's are not
  in UTF-8; `encoded` has the one intake of the shipped settings.
* Lists: two databases of three intakes and of one, pages of one and two rows. Sorting by text columns and
  by status is not enumerated, and the case that `ILIKE` ignores is left out. Text filters: every pattern
  of up to two of four characters against every value of up to three.

Everything in a `cfg` is a constant; no definition is replaced. `AggResults` leaves out `"blank"` in
`nat`, where `DownloadStaysReady` fails with it (the last observation). The theorems `DownloadStays` and
`WorkbookIsWhole` have a hypothesis instead; `replicas` includes `"blank"`, and `WholeWorkbook` does not ask
for the end of such a batch.

### Fairness

* `NatPipeline`: each worker's `while True` catches every exception, sleeps and goes on: weak fairness of
  its step. Which answer a call gets is the outside world's choice: strong fairness of definite answers,
  of settled polls for `PollContinues`, and all of `ServiceFairness` as the hypothesis of
  `EveryBatchReported`. Exceptions and restarts come to an end (`<>[][..]`).
* `IntakeDedup`: weak fairness of an upload's steps and of deadlock resolution; a request handler runs to
  its end. No fairness of failures.
* `EmailPoller`: weak fairness of `Step`: `_poll_loop` survives every exception and a crashed container
  is restarted. Faults are bounded by `MaxFaults`; none is ever forced.
* `CodeMsg`: weak fairness of `Client(w)`, a loop like the others, and of `Service(w)`: a request is
  answered or times out. `EveryTaskDecided` has the hypothesis that the service does not come to refuse
  every value for ever; it need not forget any.

## 4. Proofs

All for any number of workers, batches, tasks, uploads, messages, values and tokens, and for files, rows,
networks, intakes, reports, texts, filters and databases of any size.

| Theorem | Property |
|---|---|
| `NatPipelineProofs!TypeCorrect` | `TypeOK` |
| `!RowLocks` | `Holding`: no two transactions hold one batch |
| `!Invariance` | `TypeOK /\ Inv` |
| `!ClaimsStayTrue` | `ClaimStaysTrue` |
| `!PauseBarrier` | `PauseIsBarrier` |
| `!NotifiedSettled` | `NotifiedOnlyWhenSettled` |
| `!SingleStage` | `SingleStageStops` |
| `!Implements` | `ImplementsLife` |
| `!OneOutcome` | `OneOutcomeTold` |
| `!AtLeastOnce` | `OnceUnlessLost` |
| `!AllSafe` | `PipelineSafe` |
| `!MonitoringTrue` | `MonitoringAgrees`, for a finite set of tasks |
| `!DownloadStays` | `DownloadStaysReady`, without `"blank"` |
| `DownloadProofs!WorkbookIsWhole` | `WholeWorkbook`, without `"blank"` |
| `IntakeDedupProofs!DedupInvariance` | `DedupInv` |
| `!KeysAreTasks` | `KeysMatchBatches` |
| `!FileKept` | `FileWithBatch` |
| `!Implements` | `ImplementsContract` |
| `!ContractMeansNoEarlyRepeat` | `IntakeContract` accepts no request twice within the window |
| `!NoneTwiceInWindow` | the same of `IntakeDedup` |
| `EmailPollerProofs!PollInvariance` | `PollInv` |
| `!SeenRecorded`, `!OutcomeTrue`, `!LostRepeated` | `SeenIsRecorded`, `OutcomeIsTrue`, `OnlyLostRepeated` |
| `CodeMsgProofs!CallSoFar` | `SeqInv` |
| `!NoneTwice`, `!ServedOnce`, `!GivesUpRefused` | `NoValueTwice`, `OneRequestServed`, `GivesUpOnlyWhenAllRefused` |
| `!RowsAnswered` | `RowsAnswerFile` |
| `TokenProofs!TokenTypes` | `TokenTypeOK` |
| `!RefusedOnlyWhenRevoked`, `!SafeRetry` | `OnlyRevokedRefused`, `RetryIsSafe` |
| `RequestProofs!RowsAccounted` | `EveryRowAccounted` |
| `!EveryErrorTold` | `NoErrorHidesAnother` |
| `!DownloadsAreWhole` | `DownloadIsWhole` |
| `!MailIsTrue` | `MailTellsAttachment` |
| `!TasksAreRow` | `TasksCoverRow` |
| `!WorkbooksHaveAll` | `WorkbookHasAll` |
| `!LikeIsTrue` | `LikeIsSubstring` |
| `!CountsAreRight` | `CountMatchesList` |
| `!SplitsAreWhole` | `FiltersSplitList` |
| `!WalksAreWhole` | `WalkShowsAll` |

Assumptions: `PipelineAssumption` (disjoint sets of workers, finitely many batches, every task in
a batch and every batch with a task), `DedupAssumption`, `PollerAssumption`, `CodeAssumption`,
`TokenAssumption`, each in the module that declares the constants. Hypotheses beyond them stand in the
theorem. `RowAssumption`, `WorkbookAssumption` and `ListingAssumption` bound the settings; `NullAssumption`
says that NULL is no word and no truth value. `RequestAssumption` says of the inputs what their makers
guarantee: a file is a table of cells as the parsers return them; no two readable output files of a stage are
one file; a file that ASSOMI completed has its header line, which `assomi/csv_io.py` always writes; numbers in
a title can be told apart. Of the lists it says: a database is `Consistent` (primary and foreign keys, the
unique keys that make a batch the only one of its intake and a stage the only one of its batch, and one
message per intake, since every upload of the poller makes an intake of its own); a filter has the
parameters of its list (`FilterOf`); the columns that order a walk hold numbers (`Numeric`), where a text
stands for its place in the collation.

**Pipeline.** None of the safety properties is inductive: a worker that commits writes what it decided at
its claim, so one must know that the claim is still true. `Inv` has four parts. `Holding`: a worker holds
a batch exactly while it calls out, and no two hold the same one; proved alone first. `Fresh`: nothing
happens to a batch before its upload has committed. `Chain`: each stage has left its row before the next
starts. `ClaimHolds`: what a claim selected still holds. The step of `ClaimHolds` rests on
`LockProtects`: whoever changes the columns a claim relies on either holds the lock or is an action that
leaves them (the lemmas `*Writes`, one per action). From `Inv` the row states only move forward
(`AggMoves`, `AssomiMoves`, `TaskMoves`, `NoticeMoves`, `SpinMoves`, `MailMoves`), so a classified outcome
stays (`OutcomeStays`), and counts grow only with their record or with `faults`.

**Download.** A later stage is read first, and what was read as ended stays as it was read; so when the
reads together say that the batch has ended, each of them is the batch's last word.

**Deduplication.** `DedupInv` says: an accepted registration whose key is gone has expired (`Gone`); and of
each upload, every verdict so far is one the contract allows, the open rows are the first of their kind
(`Judged`); `put[u]` are its rows registered so far, no open transaction shares a key with another, and an
equal accepted registration has expired (`Inserted`); what a sweep leaves alone counts (`Swept1`); file,
batch and registrations come and go together (`Kept`). The refinement follows by cases: `Receive` is
`Arrive` of the contract, `Commit` is `Accept`, `Reject` is `Refuse` or `Fail`, `Fails`, `SaveFails` and
`Crash` are `Fail`, `CommitLost` a `Fail` whose rows were taken, and every other step stutters.

**Poller.** `PollInv`: a message uploaded, answered or recorded once more often than its outcome was lost
is seen, or it is the current one and the program point says how far it has come; a Message-ID has one row
at most. The current message is one of `todo` because `<` is well founded on the naturals.

**Sequence.** What a call has offered lies between its first and its current value, counted across the
wrap-around, and was refused; so after as many refusals as there are values, every value was refused.
What the process has spent lies below the current value.

**Tokens.** The cached expiry is at most `MaxLag` later than the true one, a call is under way for `MaxLag`
at most, and the skew covers both: a token that was cached as valid is refused only if it was revoked.

**Life cycle.** `ImplementsLife` follows from `LifeInv`: the types, `Inv`, `NotifiedOnlyWhenSettled`, and
that a worker's request is one its upload knows. Each action is a step of one batch or of none; that an
`AggCreate` finds its batch entered, and a handed-over batch is not taken back, is what the invariant is for.

**Result file.** `RowsAnswered` carries along, for every login of the list so far, which answer its own call
got; the rows are the known logins selected from the list, so equal lengths and equal places say the rest.

**Requests.** An answer is what its endpoint makes of the request (`AnsweredRight`), so each property becomes
a lemma about operators, for any input. Recursion over data is done with sets of numbers for which the claim holds
(`Iteration`, `FlattenSteps`), since the induction theorems of the library take an operator. An axis of
networks is counted over `Powers`, a recursive function, because powers of two are beyond the provers.
`EveryErrorTold` shows that each part of a row is judged by itself and joins the parts (`CleanJoins`).
`RowsAccounted` counts the tasks of a file as places in its accepted rows (`InsideCounted`); that each row has
some is `RowCovered`. `DownloadsAreWhole` collects the files of all sheets, part by part (`PlanFiles`): they
are what can be read of the upload, of the stages and of ASSOMI. `WorkbooksHaveAll` unfolds the sheets of a stage into lines, separate or merged: each line has one place, and
places keep the order of the files; a title is tried at most as often as there are sheets before it, so one of
the tries is free.

**Lists.** The text of a filter matches itself and nothing else: from which places the rest of a pattern
matches is computed from its last character back, and `Escaped` and `Before` distribute over
concatenation. Each join of a list finds exactly the rows linked to the row it starts from (`LinkedRows`),
of which there is at most one, and FROM names the tables of all clauses; so the statement that counts and
the one that lists both select one tuple per row found, and nothing is crossed. Splitting a list by a
parameter adds clauses of which exactly one holds for a row. In a walk, a later place of one order holds no
row that belongs before an earlier place of another order of the same rows (`PlacesAgree`, by counting);
so pages that break ties differently are in order together, and by division they reach the total.

Only model-checked: the liveness properties, since fairness and ENABLED are beyond the prover
(`EveryBatchReported`, `PollContinues`, `EveryUploadEnds`, `EveryMailHandled`, `EveryTaskDecided`). Every
safety invariant and action property of a passing run is stated by a theorem.

## 5. Plan

What is left:

1. Larger instances: three uploads in a cycle of waits, two batches of two tasks.
2. A further reading of the code that is only partly modelled: attachments of the mail parser, the
   administration of senders.

## 6. Not modelled

* HTTP routers, authentication, configuration: declarations that hand a decoded request to a service. The
  settings that change behaviour are constants of the modules.
* Schema and migrations. Where a statement depends on a uniqueness or a foreign key, its module says so.
  `email_messages.nat_intake_id` is not unique in the schema; `Consistent` assumes one message per intake
  because every upload of the poller makes its own intake.
* Encodings and wording: date formats, dotted addresses, CSV quoting, XLSX (trailing empty cells of a row
  are trimmed), archives, MIME and XML. A cell, a path or an answer is what its parser returns.
* `aggregation_tasks` is owned by a service that is not in this repository; `AggCreate` and `AggFinish` are
  what the code here reads of it. `nat_aggregation_queue` is not used by this code.
* Names and contacts of senders, and the fields of the ASSOMI header other than `code_msg`.
* PostgreSQL beyond row locks, one unique key and the meaning of the list statements. A foreign-key check
  takes a KEY SHARE lock on the batch row for an instant, which can make `SKIP LOCKED` skip it once; the
  next cycle finds it again. A claim may use a `gpaused` a moment old; `PauseIsBarrier` is about the batch
  pause and says nothing of it.
* Clocks: all uploads share one, and so do Keycloak, the provider and the service. Hosts whose clocks
  differ shorten or lengthen the window by as much; the provider's clock is monotonic and only its rate
  matters.
