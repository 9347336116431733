# Verification of the document intelligence assurance hub

TLA+ models of the server of this repository and of the page that submits to it,
with the TLC runs that check them on small instances and TLAPS proofs for every
value of their constants.
`PROJECT.json` lists components, runs, mutants, the source lines behind every
definition, hazards, findings and theorems.

    tlc -workers 2 -config Retention.cfg Retention.tla      # one run
    tlapm QuotaLedgerProofs.tla                             # the proofs

## The system and its hard parts

A browser checks a document and submits it (`POST /api/runs`); the server parses
the form, and a generator takes the document through six stages: it reads the
pages itself, asks a model provider, believes only what the pages bear out,
decides on an action, and streams events back. A person then acts on the run, and
everything about it is deleted after 24 hours or on request; anonymous figures
stay. State is in Neon (PostgreSQL, one statement or one PL/pgSQL function per
call, no transaction over two calls) and in a private Blob store; development and
the tests run on in-memory adapters. Server processes are short-lived and many. So
the hard part is what happens *between* calls: overlapping requests, a call that
fails after it took effect, a process that dies, a stream that is cancelled; and
rules that are written down in several places and have to agree.

| Component | State | Operations | Must hold |
|---|---|---|---|
| Quota and provider budget (`server/security/rate-limit.ts`, migrations 1, 2, 4-6) | `daily_usage`, `model_budget_reservations` | reserve, mark/clear dispatch, settle, release, sweep of stale leases | the daily budget holds, nothing is charged twice, every lease closes, both adapters decide alike |
| Run execution (`server/workflow/*`, `server/http/responses.ts`) | locals of the generator, row, document, reservation | the stages, one retry, settlement, catch block, abort, cancel | no orphan document, no uncovered request, no unpaid result |
| Document grounding (`server/workflow/document-grounding.ts`) | extraction, PDF, OCR worker, timers | import, load, extract, render, recognise, time out, abort | the call ends, nothing stays open, a timeout is not an abort, text belongs to its page |
| Field evaluation, outcomes, action policy (`execute-run.ts`, `domain/*`) | none | verdict on a field, outcome, status of the action | nothing passes that the document does not bear out |
| Stage and workflow actions (two handlers, `workflow-panel.tsx`, `run-data.ts`) | `workflow_events`, what a page knows | offer, request, check, insert | what is offered is served, a handoff is earned |
| Run repository (`server/repositories/run-repository.ts`) | `runs`, `run_results`, `run_steps`, `workflow_events`; Maps and counters in memory | one statement each; figures | one indivisible operation each, deleted is final, the figures of both adapters agree |
| Retention (`cron-handler`, `deletion-token`, `document-handler`, `document-store`) | rows, `document_cleanup_jobs`, Blob store | purge, Delete now, retry, document read | no document lost, none served once gone, one bad document does not stop the rest |
| Submission (`runs-handler.ts`) | `run_submission_claims`, rows, quota | claim, reserve, create, release | one executor per run, one charge per key |
| Upload parsing and validation (`multipart.ts`, `file-validation.ts`, `run-schema.ts`, `workbench-controls.tsx`) | the form, its checks, a request being read | select, validate, submit, read, parse, validate again | what is parsed can be executed, nothing is refused for what the page checked |
| Metrics cache, request limits (`metrics-handler.ts`, `abuse-control.ts`, migration 3) | process-local cache, `public_rate_limit_windows` | look up, fill, invalidate; consume | limits hold over all processes, no snapshot survives its invalidation or lifetime, no failed fill is promised |
| Workbench page (`workbench-view.tsx`, `workflow-panel.tsx`) | React state and refs of one page | submit, cancel, stream, load details, act, repeat, replace | late answers never mix runs, one submission at a time |
| Operations and guidance UI, pricing, container, scripts | | | not modelled |

Interaction: `runs-handler` parses the request, claims the key, reserves quota and
starts the generator; the generator grounds the document, evaluates the provider's
claims, writes rows and documents and settles the reservation; the cron job and the
handlers of deletion act on the same rows and documents without telling it; the
sweep inside the ledger's own functions closes leases that a dead generator left;
the metrics count what became of all of it.

## Modules

| Module | Models | Kind |
|---|---|---|
| `QuotaLedger`, `MCQuotaLedger` | the ledger, one action per SQL function | component |
| `MemoryLedger` | the in-memory ledger, on the same variables | abstract |
| `QuotaLedgerProofs` | theorems about the ledger, and that it answers and acts as the one in memory | proofs |
| `RunExecution`, `RunExecutionProofs` | `executeRun` with the ledger as instance `L` | composition, proofs |
| `Grounding`, `GroundingProofs` | `groundDocument` with its timers, PDF and OCR worker | component, proofs |
| `Evaluation` | field verdict, outcome, policy, states of an action | operators |
| `Review`, `MCReview` | evaluation, the page's panels, both routes and the repository's guard on one run | composition |
| `Intake`, `MCIntake` | the form's checks, reading and parsing a request, the executor's second validation | composition |
| `RunStore` | what the repository promises about one run | abstract |
| `RunTables` | the statements on four tables with their snapshots and row locks, shown to implement `RunStore` | component, refinement |
| `RunReads`, `MCRunReads` | a read of a run, four queries among those statements | component |
| `RunTablesProofs` | theorems about `RunTables` and `RunReads` | proofs |
| `RunFigures`, `MCRunFigures` | the anonymous figures of both repositories and the tiles made of them | two implementations compared |
| `Retention`, `RetentionProofs` | expiry, Delete now, cleanup jobs, document reads | component, proofs |
| `Submission`, `MCSubmission`, `SubmissionProofs` | `handleRunsPost` | component, proofs |
| `MetricsReads`, `MCMetricsReads` | the reads of the metrics, with the limiter and the cache of each process | component |
| `MetricsProofs` | theorems about `MetricsReads` and `RunFigures` | proofs |
| `Workbench` | one page of the workbench | component |
| `PageProofs` | theorems about `Workbench`, `Intake` and `Review`, whose names differ so that one module can extend all three | proofs |

**QuotaLedger.** Rows of `model_budget_reservations` are `reservations`; the
counters of `daily_usage` are `spend`, `bucketUsage`, `globalUsage`. Every
function that locks the day row is one action, since that lock is taken before
anything is read that is then written. Callers pass their own time, up to `Skew`
behind the clock. Costs are whole units; a sum of costs is the cardinality of the
set of units, so that it can be reasoned about without recursion.

**MemoryLedger.** The same calls written from `InMemoryQuotaRepository`: it walks
all reservations where the SQL walks stale days, takes the day of a lease from
the reservation where the SQL takes it from the row, and so on. `AnswersAsInMemory`
compares the two answers to every call in every state: the decision on a run with its
reason, what a settlement charged, whether a mark or a release took effect, what a
snapshot counts as held. `ActsAsInMemory` says that a step of the database's ledger
which is some call with some arguments is that call, with those arguments, of the other.
The reason of a denial is where they differ, and `SameReason` names both cases. For a
custom live run with its browser's live runs and everyone's uploads used up, the SQL
says `live_run_limit` and the Map `global_custom_upload_limit` (migration 4 looks at the
browser first, `rate-limit.ts:185` at the uploads). And the SQL says `live_disabled`
before any limit, and without the sweep the Map does first (migration 4, line 201;
`rate-limit.ts:219`); the handler never asks for a live run then.

**RunExecution.** `run.at` is the call the generator awaits. `Call(do, ok,
failed)` is one awaited call: it takes effect and returns, or it fails having
taken effect or not. `Abort` (the request's signal) may happen between any two
calls, `Cancel` (the stream's `cancel()`) ends the generator at its next yield,
`Elsewhere` is a metrics request whose snapshot sweeps leases, `Crash` ends
everything. The ledger is the real one (`L == INSTANCE QuotaLedger`), with one
reservation.

**Grounding.** `call` is what the caller sees and `op` the extraction behind it,
which is raced but never stopped: it goes on after a timeout or an abort until it
sees the signal or its libraries answer. A step runs from one await to the next. A
library may answer, fail or stay silent for ever; only timers fire. What a page
says is `"text"` or `"thin"`; what is kept of a page is where it came from.

**Evaluation, Review.** A text is what is read in it: amounts with or without a
currency, or tokens. A value has one reading, an evidence any number, and `Cut` says
which reading is a part of which longer one (`"890.00"` in `"1890.00"`), since the
code looks for the evidence as a substring of the page. `Decide` takes every claim
a provider can make of every page; one field is evaluated in detail, the others
come as verdicts. `earned` is an independent statement of what the document bears
out (`Backed`), against which `HandoffIsEarned` holds the whole chain. `Replay`
sends the samples of `fixtures.ts` through the same operators: their totals are amounts
of whole cents with a currency (`Totals`), the rest of their values tokens, and a sample
whose total differs from the reference may differ in the amount or in the currency
alone. The page (`view`) knows a run as of its last load; the handler
checks what it reads and the repository has the last word, with the run changing in
between.

**Intake.** Sizes are in steps of the limits and bytes arrive in chunks; a request
reveals its form when its body has been read. A file is its size, declared type,
real format and pages; labels are their typed, cleaned and key forms. `checks` are
the page's overlapping validations, with the selection they were started for. A request
is refused in the handler's order, from the limiter to the quota; what the claim and
the quota do is Submission's, so that `Open` only chooses among their refusals. No
input limits the length of a label, so `BodySize` counts the labels beside the document,
and a request of the page may be too large by them.

**RunTables.** A statement is a start, which fixes the snapshot its sub-queries
read, and an end. Statements that lock the row wait for its holder and then
re-read only the locked row: READ COMMITTED as PostgreSQL defines it. The
refinement mapping shows `RunStore` what the public may read of the tables between two
commits (`Readable`); each statement's effect on it is indivisible.

**RunReads.** A reader does not get that in one step. `readPublicRun` queries the row and
then, if there are details to show, the trace, the result and the events, by three
statements without a transaction (`run-repository.ts:1350`, `1829`). `ReadRow` and
`ReadDetail` are these four, with any statements of `RunTables` in between. So a run
that is deleted meanwhile may be shown completed without a result, and a staging with
its result and without its step to a reader who began before it was answered;
`ReadIsWhole` says what remains true: unless the run is deleted, a read fits the status
it shows, lacks no earlier step, and has what any reviewer had been told before.

**RunFigures.** The calls of the executor, of Delete now and of the purge reach
both repositories: `memory` with its running `counters`, and `rows`. Each figure has two
texts, as in the code: `MemoryOrigins`, `MemoryCosts`, `MemoryLifecycle`, `Recount` and
`MemoryLists` are the loops over the runs, which add to counters and to the entries of a
Map, with `Date.UTC` for the start of a day; `RowsOrigins`, `CostSummary`, `CostByModel`,
`CostByFamily`, `RowsLifecycle`, `RowsUsage` and `RowsLists` the statements, which count
and sum rows, group by a column, filter families and truncate dates. The tiles are made
by one function from either list, the latest `RunLimit` runs in the order of their
creation, in any order where that is equal. A page issues its statements together and
without a transaction (`metrics-handler.ts:450`): `StatementsAddUp` relates figures of
one statement and holds of every answer; the rest of `FiguresAddUp` relates statements
of one state, and so holds of an answer during which no run changes. Between
two statements the figures of all time and the confirmed costs only grow
(`FiguresOnlyGrow`).
An answer to `saveResults` may be lost, so that a run is
completed and then marked failed. A run ends within a tick of its creation and a day
has two ticks. A sum is the number of the units its terms are made of (`Units`,
`Sum`), and so a cardinality, as in the ledger: costs are whole numbers of a unit, and
rounding to it, averages and the number of confirmed runs by provider are left out. Results
whose usage is not trusted are stored without tokens and without a cost
(`execute-run.ts:849-852`), and a price is paid by the token: that is what
`FiguresAssumption` says of `Result`.

**Retention.** The purge is a list walked with awaits in between, so two
invocations may hold the same job. Time is relative: a run carries the ticks it
has left, a job its rank among the overdue ones, which makes the state space
finite without a bound on time. Invocations end within a tick and executors live
shorter than one: `maxDuration` of a function is minutes, a lifetime is a day.

**Submission.** A request carries its key and the call it waits for. The clock
only orders claims and their expiry. What follows `Create` belongs to
RunExecution and is the single step `Execute` here.

**MetricsReads.** The limiter's function is two steps, up to the lock on the
global row of the minute window and after it, because that lock is what makes
its two counters agree; the deletion of old windows waits for the lock too. The
cache is one value per process: nothing, a promise being fulfilled by a reader,
or a snapshot with the time it expires. A snapshot is the set of changes to runs
that all of its sources had seen. The clock a reader uses is the one it read
when its request began, as in the code.

**Workbench.** `page.request` is `requestRef`: `runAssurance`, `cancelRun` and
`requestReplacement` each take its next value, and `job` says what for. Aborting a
controller removes what it aborts from the model, since an aborted fetch only
rejects. `details` and `fields` are the runs whose data the page holds. The state
that React has rendered is the current state, with one exception that matters:
`executeAction` goes on, after its answer, with the handlers of the render in which
it was clicked, so an action carries the file they knew.

### Assumptions the models share

- A call that fails has, by the time it is reported, taken effect or not. A
  request that the network delivers later still is outside the models.
- Faults (failing calls, dying processes) are bounded by `MaxFaults`; which ones
  and when is free.
- An SQL function that first locks its rows is atomic.
- A process settles a promise and runs what waits for it in one step; a call of
  the limiter ends before its window is old enough to be deleted.
- In `RunExecution` calls to the provider either fail or return; what was
  extracted is abstracted there and enumerated in `Review`.
- Whether a value or an evidence occurs on a page, and what a file's bytes are, are
  inputs: parsers of text, PDF and images are not modelled.

## Runs

| Run | Properties | Bounds | Shows |
|---|---|---|---|
| `quota_ledger` | `BudgetRespected`, `SpendIsSettledCost`, `ClosedIsFinal`, `SweepKeepsDispatched`, `AnswersAsInMemory`, `ActsAsInMemory`, `TypeOK` | 2 live reservations, 1 browser, costs {2,3}, budget 4, 2 days, skew 1 | the budget holds, nothing is charged twice or given away by a sweep, both adapters answer and act alike, but for the reason of two kinds of denial |
| `grounding` | `NothingIsHeld`, `AnswerIsTrue`, `GroundingEnds` | up to 3 pages and one too many | every call ends, nothing stays open, an abort is told from a timeout, text is read from its page |
| `run_execution` | `NoOrphanBlob`, `CallsAreCharged`, `PaidAsUsed`, `VerdictsAgree`, `AdmittedRunCloses` | 1 or 2 attempts, 2 fields, 2 faults, 2 days | the executor's safety, and that the reservation of every admitted run closes |
| `run_cancel` | `CancelledRunIsClosed` (violated) | 1 field, no fault | finding 1 |
| `run_tables` | `HandledOnce`, `ReadIsWhole`, `ImplementsStore` | 1 stage, 2 actions, 2 reviewers, 1 step, one read, 1 tick, at which the run expires | refinement, uniqueness, finality; a read in four queries fits itself and what was told, unless the run is deleted |
| `run_figures` | `SameFigures`, `FiguresAddUp`, `FiguresOnlyGrow` | 2 runs of three kinds with four results, 4 ticks, no cutoff or one at tick 2, a list of 1 run | loops and statements give the same figures, those of one state add up, and deletion takes nothing from them |
| `review` | `HandoffIsEarned`, `OfferedIsServed`, `ReviewedOrReady`, `ReplayIsExpected` | 6 readings (amounts with, without and of another currency, one that rounds, one that contains another, a token), 7 pages, 9 samples with totals in 2 currencies | from a claim to an event, no table contradicts another and no handoff is unearned |
| `intake` | `ParsedIsExecutable`, `PageSubmitsChecked`, `IntakeTypeOK` | 2 selections, files up to 2 and bodies up to 4 steps, chunks up to 2, 7 lists of labels | parsed is executable, what the page checked is not what it is refused for |
| `retention` | `NoLostDocument`, `NothingComesBack`, `DocumentsGo` | 2 runs, 2 deleters, purge, reader, 1 fault, 1 refused document, batch 1 | nothing lost, revived or served; a document that can be deleted is |
| `submission` | `OneExecutor`, `DrawsAreUsed`, `TypeOK` | 3 requests, 2 keys, quota 2, 1 fault, 2 ticks | one executor, one charge, no leak without fault |
| `workbench` | `ShownIsActive`, `OneRunAtATime`, `RepeatedWasValidated` | 4 values of the counter, 2 files | runs never mix, one submission, a document that is sent unvalidated was validated and sent before |
| `metrics_reads` | `LimitsHold`, `SnapshotsAreFresh`, `PromisesAreKept` | 3 readers, 2 processes, 3 browsers, 1 change, 2 sources, limits 1 and 2, 1 fault, 2 ticks; lifetime, window and windows kept 1 | limits over all processes, fresh snapshots, promises kept |

The `violation` run is finding 1 below; the other findings are definitions that no
run checks.

Why the bounds suffice: a property about two actors needs two and a third that
observes or repeats.

- Ledger: costs 2 and 3 under a budget of 4 make one reservation fit and two
  overflow; actual costs 1 and 5 are below and above what is reserved. Two days let a
  lease cross midnight; in `run_execution` every lease does, since the day is as long
  as the lease. Two attempts is the code's maximum. Two fields make a field in the
  middle and a last one. Two faults make a fault and a fault of its handler.
  One browser uses up its own live and recorded runs and everyone's uploads, whose limit is
  below its own, which is where the two adapters give different reasons; the budget and
  the leases do not depend on browsers, and of other limits the theorems tell.
- Grounding: three pages make a first, a middle and a last one, with a gap between
  the pages that are looked at; a fourth is refused.
- Review: one field goes through the evaluation in detail; the others enter the
  outcome by their verdicts, of which any three sets behave as one of those listed.
  The cited page is the first or one that does not exist. The totals of samples
  are one amount in two currencies and another amount, so that a total and its reference
  may differ in either.
- Intake: a chunk of two can pass a limit it did not reach before; the forms of the
  page and those of other clients differ in what they may contain. Three labels of which
  two share a key are among the lists, and one label that leaves the document no room.
  Only custom runs of the page are modelled, as only they have a form to check.
- Figures: a run of each provider, source and origin; results with a trusted usage and
  without. The outcomes `conflict` and `incomplete` are counted like the others and
  do not occur. The clock passes two days, a month and the lifetime of a document.
  A list of one run of two makes the other one leave it, as the real limit of
  `METRICS_RUN_LIMIT` runs does.
- Workbench: four values of the counter are a run shown, one being validated, and two
  more to cancel, replace or repeat it.
- Metrics: three browsers, each with one read, exceed the global limit of two
  without exceeding their own; two of three readers share a browser in other
  behaviours and exceed that. Two sources let a change fall between them.
- Retention: one refused document at the head of a batch of one is the worst case of
  starvation for the real batch of 100.

`CHECK_DEADLOCK FALSE` is set where callers make one request each and the clock
is bounded (`RunTables`, `RunReads`, `Submission`, `MetricsReads`, `RunFigures`), where the counter
or the selections of a page are (`Workbench`, `Intake`), and where the work ends
(`Grounding`, `Review`): the system may stop there. Elsewhere deadlock is checked.

### Fairness

- Execution (`FairSpec` of `RunExecution`): the generator's awaited calls end
  (functions have a maximum duration) or the process crashes; the clock ticks; and
  a snapshot keeps being asked for (`WF` of the ledger's `Snapshot(now)`), since
  the operations page polls the metrics and every submission sweeps as well. A
  ledger nobody calls closes no lease. Nothing makes a client abort.
- Grounding: timers fire, a refused image is refused, a worker that is being made is
  made or fails, and terminating one ends. Nothing else a library is asked for need
  ever be answered, so `GroundingEnds` rests on the timers alone for the call, and for
  the release of a worker on its library making it.
- Retention: the cron job runs, invocations end, and the clock goes on (`SF`,
  because a tick waits for invocations to end).

## Findings

1. `run_cancel`: `cancel()` while a status or a field is being written ends the
   generator at its yield (`execute-run.ts:518`); no catch block runs and the run
   stays in progress, with its document, until it expires.

The modules state five more promises that the code does not keep. No run checks
them; put one in the place of its run's invariants to see how it fails.

2. `RetriedIsCharged` of `RunExecution`: when the attribution of a second attempt
   cannot be written after its mark, undoing the mark erases the evidence of the first
   attempt (`execute-run.ts:666`). If the settlement fails too, the sweep releases the
   reservation of a run that called the provider (`docs/architecture.md:103`).
3. `DeletedRunHasNoDetails` of `RunTables`: `tombstoneRun` (`run-repository.ts:1710`)
   deletes what its snapshot shows; an event that commits while it waits for the row
   lock survives, hidden (`docs/architecture.md:122`).
4. `ClaimedOnce` of `Submission`: `claimedRunId` is set before the claim is awaited
   (`runs-handler.ts:165`), so a claim call that fails releases the claim another
   request of the same key holds (`tests/contract/routes/runs-route.test.ts:500`).
5. `LoadingIsHonest` of `Workbench`: a submission that fails its validation raises the
   counter by which the page knows late answers (`workbench-view.tsx:774`); the details
   of the last run are dropped when they come and the panel loads them for ever.
6. `ReviewIsOffered` of `Review`: the page of a consistent run of unverified origin has
   no control for the review it asks for (`workflow-panel.tsx:109`), though the server
   would allow two (`docs/architecture.md:39`).

Disagreements that came up while modelling and are parts of the models:

- `createWorkflowEvent` answers the second of two overlapping equal actions
  `id_collision`, since its snapshot does not show the event it conflicts with
  (`run-repository.ts:1189`).
- `reprocessActiveRun` compares the file with the one of the click
  (`workbench-view.tsx:748`), so a document exchanged meanwhile is submitted again
  without being validated; `RepeatedWasValidated` therefore asks that it was validated
  when it was sent first, not that it is still the one selected.
- A replacement that is answered while the next document is validated leaves the page
  running, with the picker disabled, until the user cancels (`workbench-view.tsx:725`);
  `OneRunAtATime` excepts it (`replaced`).
- When the signal aborts while the last page is rendered, the OCR worker is started all
  the same and nothing terminates it (`document-grounding.ts:293`); `NothingIsHeld`
  excepts it (`worker.late`).
- A run whose answer to `saveResults` was lost has been completed and failed, and
  enters the estimates of completed runs, which `docs/architecture.md:69` denies of a
  failed dispatched request.
- A sample whose outcome is clear though its fixture expects otherwise has the action
  `needs_review` and may be approved all the same (`workflow-actions.ts:121`).
- A failed run with guarded results is offered `replace_document` by page and handler
  and refused it by the repository; `OfferedIsServed` excepts it.
- Evidence `890.00` is borne out by a page that says `1890.00`, as evidence is looked for
  as a substring; `Cut` and `PartOf` state it.
- `validate()` of an earlier file marks a newly selected one valid
  (`workbench-controls.tsx:177`); the run validates again, so nothing unchecked leaves.
- The server compares keys of labels where the page compares cleaned labels: two labels
  the page accepts may be refused; and since it limits the body where the page limits the
  document, a document of the limit with very long labels is refused as too large.
- A read of a run that is deleted between its queries shows a completed run without
  details (`run-repository.ts:1829`); `ReadIsWhole` excepts it.
- The in-memory `markFailed` and `setStatus` ignore that details were deleted; under the
  executor's protocol this is not reached.

## Proved

`QuotaLedgerProofs`, from `LedgerAssumption` alone (the sets are finite, costs are
numbers, the lease and day are positive):

- `TypeCorrect`: `TypeOK`, inductive by itself: no row reserves more than `Budget`, which
  `WithinBudget` establishes, and none is charged more than it reserved, by `Capped`.
- `BudgetTheorem`: `BudgetRespected`, inductive with `TypeOK`. A sweep moves cost
  from pending to spent or drops it (`ReconciledBudget`), a settlement moves at
  most what was reserved (`SettleKeepsBudget`), a reservation adds what it tested
  (`ReserveKeepsBudget`). The lemmas on `Total` (union, single term, equal terms)
  stand in for arithmetic on sums.
- `ClosedTheorem`: `ClosedIsFinal`, since every action tests `pending`.
- `SpendTheorem`: `SpendIsSettledCost`, inductive with `TypeOK`.
- `SweepTheorem`: `SweepKeepsDispatched`. `ReconciledDispatched` says that
  reconciling a day leaves no dispatched row released, and every other action
  changes one row and names its new status.
- `AnswerTheorem` and `MemoryTheorem`: `AnswersAsInMemory` and `ActsAsInMemory`, without a
  mapping, since both ledgers are about the same state. `RowsInv` is the invariant they
  need: absent rows are blank, and a pending row is uncharged and ends on its own day or
  later, which is why the stale days of the SQL (`StaleIsExpired`, with `DayOfMonotone`)
  hold all the expired rows that the Map is walked for. `SameSweep`, `SameVerdict`,
  `SameCharge` and `SameSnapshot` compare the parts, `SameAnswers` every answer and
  `SameCalls` every call.

`GroundingProofs`, from `GroundingAssumption` (there is at least one page):

- `ReleaseTheorem`: `NothingIsHeld`. It speaks of calls and extractions that are over;
  `IInv` says what is open while they are not: an open PDF belongs to an open call that
  its extraction has not left (`PdfInv`), and a worker made in time is waited for, at
  work or doomed, depending on where the extraction is (`WorkerInv`).
- `AbortTheorem` and `AnswerTheorem`: `AnswerIsTrue`. The timer aborts the extraction by
  the signal it shares with the caller, so `AbortInv` adds that an extraction which
  failed as aborted finds its call ended, and its failure is never the answer. `ReadInv`
  says which images have been rendered, and which read, at each point: always the first
  of those that must be looked at, so that an extraction that has not failed has them
  all. That these pages can be listed in order is an induction (`SetInduction`), stated
  of a set of numbers instead of a predicate.

`SubmissionProofs`, from `SubmissionAssumption` (requests and keys are finite sets,
the bounds are numbers):

- `OneExecutorTheorem`: `OneExecutor`. It says nothing of how a request comes to
  execute, so it is not inductive; `ExecutorsOwnRows` adds that each executor's row
  is there, and that one row has one executor. The primary key of `runs` carries
  the argument, not the claims, which expire.
- `TypeTheorem`: `TypeOK`, whose conjunct `Held <= Quota` bounds the reservations a
  browser ever drew. `TypeInv` adds that a request past its reservation has one, so
  that settling or releasing it draws nothing new; the proof counts with the
  theorems on finite cardinalities.
- `DrawsTheorem`: `DrawsAreUsed`. `DrawInv` says who is on the way to a run: as long as
  no call has failed, a claimed key has a request past its claim (`Backed`), and while
  claims last only one (`Sole`); nobody draws before the reservation (`Undrawn`). Each
  reservation that nobody works on took a fault of its own (`LostInv`), which compares
  cardinalities.

`RunExecutionProofs`, from `RunAssumption` (costs, lease and bounds are numbers, and an
exact cost is below the full one) where costs and faults are counted:

- `OrphanTheorem`: `NoOrphanBlob`. `KeyInv` adds that a run at work, from its first
  stage to its last write, has its key in its row, so that storing the document needs
  no guard, and that the job is deleted after the document. `Onward` and `Checked` say
  that a run at work goes on working or into the catch block, which never returns;
  the ledger's operations stay opaque, since they touch neither row nor document.
- `ChargeTheorem`, `PaidTheorem`, `VerdictTheorem`: `CallsAreCharged`, `PaidAsUsed` and
  `VerdictsAgree`, with the ledger's operations expanded. One invariant, `FullInv`, since
  the parts need each other: which stage waits for which call (`StageInv`), where the
  provider may still be called (`Early`) and what a call that left is charged to
  (`ChargeInv`), where less than the reservation may be charged (`Cheaper`, `Late`), and
  what the client was told (`VerdictInv`). `LedgerStep` and `Swept` say what an operation
  and a sweep can make of the one reservation; then there is one lemma per action.

`RunTablesProofs`, from `TablesAssumption` (names of callers, stages and statuses
differ, bounds are numbers):

- `StoreTheorem`: `ImplementsStore`. Every step maps to a step of `RunStore` or to a
  stutter; `TypeInv` is the invariant it needs: the status of a row that was not deleted
  is none of the two of a deleted one, and only the purge removes a run as expired, once
  it is.
- `OnceTheorem`: `HandledOnce`. `ProtocolInv` says that the executor is done before a
  reviewer can ask; `OnceInv` that what was staged is proposed no more, and that every
  event, and every event a snapshot shows, has a reviewer who was told he created it.
- `ReadTheorem`: `ReadIsWhole`. `ContentsInv` says that the tables of a run that is not
  deleted fit its status and what reviewers were told; `Growth`, proved of every step
  (`NextGrows`), that they only grow until then. So whatever fits what a read began with
  goes on fitting (`FitsStill`), and each detail fits when it is read (`ViewInv`).

`RetentionProofs`, from `RetentionAssumption` (runs are finitely many numbers, bounds
are numbers):

- `DocumentTheorem`: `NoLostDocument`. `RowInv` adds that a running run has its key and
  that jobs are of deleted runs; `WorkInv` adds that who cleans up does so for deleted
  runs only, and that who is about to delete a job has deleted its document, which
  nobody stores again. That a backlog of zero hides nothing is a fact on cardinalities.
- `FinalTheorem`: `NothingComesBack`, step by step from `IInv`: no action stores,
  gives a key to or schedules a run that is deleted (`Final`), and a reader decides
  to serve only a run that is active then.
- `TypeTheorem`: `TypeOK`. Time is relative, so its ranges are the point: `Numbers` says
  that the time left never falls below zero and that a job is never further overdue than
  there are runs, because a tick numbers the overdue jobs by their order.

`MetricsProofs`, of two modules. Of `MetricsReads`, from `MetricsAssumption` (limits and
lengths of time are numbers, and `Nobody` is not a reader):

- `LimitTheorem`: `LimitsHold`. The lock on the global row makes a function two steps:
  `LockInv` says that its holder knows the count of its window, `CountInv` that a window
  counts no less than it allowed, exactly that without failing calls, and that one
  that is gone is too old to be made again.
- `FreshTheorem` and `PromiseTheorem`: `SnapshotsAreFresh` and `PromisesAreKept`. `FreshInv`
  carries what must be shown from the reader who makes a snapshot (`MakerOk`) to the
  cache (`SnapshotInv`), to those who wait for it (`JoinerOk`) and to what they were
  shown (`ShownOk`). A maker owes the changes of an invalidation only as long as the cache
  still holds its own promise.

Of `RunFigures`, from `FiguresAssumption` (runs are finitely many, tokens and costs are
numbers and no cost is without tokens, the expiry buckets are in ascending order, a month
is a number of days) and `SubmissionAssumption` (the providers and families of runs are
those the statements filter by). No lemma is an induction over a sum: `SumMonotone`,
`SumGrows`, `SumOfParts` and `SumOfSums` (the sum over disjoint sets is the sum of their
sums, by a bijection between the units) are facts on cardinalities.

- `SameFiguresTheorem`: `SameFigures`. `FiguresInv` has three parts. `FiguresType`: both
  repositories hold the same rows, which is not evident, for `markFailed` asks in one
  and not in the other whether the details are gone, and `markProviderDispatched`
  whether it was called before. `RowsInv` gives the reason: an executor at work has
  neither failed its run nor lost its document, since a run at work is younger than
  the lifetime of a document, and it fails what it has stored only if the answer was
  `lost`. `CountersInv`: the running counters are the cardinalities and sums over the
  rows. From there each loop is compared with its statement: `SumOfOnes` turns a counter
  that is added to into a number of rows, `SameGroups` the entries of a Map into groups,
  `SameDates` the two ways to begin a day and a month, and `SameLifecycle` the time that
  remains into the time of expiry.
- `FiguresAddUpTheorem`: `FiguresAddUp`, from the same invariant. `OutcomesAddUp` and
  `GroupsAddUp` cut the completed runs by outcome, model and family; `MonthBeforeDay` is
  the arithmetic by which today is part of this month; `ReadableAgree` and
  `ReviewsAgree` compare what is published of a run with what can be read of it, for
  every list of the latest runs.
- `FiguresOnlyGrowTheorem`: `FiguresOnlyGrow`, step by step: `RunsGrow` says of every action
  that no run leaves the table and none loses what it is counted for.

`PageProofs`, of three modules. Of `Workbench`, from `WorkbenchAssumption` (files are a
finite set without the sample and without nothing, one request or more):

- `ShownTheorem` and `OneRunTheorem`: `ShownIsActive` and `OneRunAtATime`, by one
  invariant. `JobInv`: only the current value of the counter is awaited by a running
  page. `PostingInv`: nothing of an earlier run is left when a submission leaves.
  `PanelInv`: what is held, awaited or acted upon is of the panel's run, and an answer
  that is not carries an older value of the counter, by which the page drops it.
- `RepeatTheorem`: `RepeatedWasValidated`, an action property. By `SentInv` the document
  the panel can repeat has been sent, and a value the counter has not reached was used for
  nothing; `SubmittedAnew` shows the other ways to send a file come out of a validation.

Of `Intake`, from `IntakeAssumption` (limits are positive, a file has a size, types and a
number of pages, labels have a length, there are forms with two fields; it does not say
that a document of the limit fits in a body):

- `IntakeTypeTheorem`, `ParsedTheorem`, `CheckedTheorem`: `IntakeTypeOK`,
  `ParsedIsExecutable` and `PageSubmitsChecked`, by `IntakeInv`. `CheckInv`: however many checks of
  selections run, at most one check of a submission does, and it is of the file that was
  captured. `SenderInv`: who submits has passed that check. `PageSize` bounds its request by the
  document of the limit and its labels, and so says when it can be too large.
  `ParsedInv`: what is parsed passes the second validation, which sees the same upload;
  `KeysCounted` makes of the pairwise comparison of keys that there are as many as labels.

Of `Review`, from `EvaluationAssumption` and `ReviewAssumption` (readings are amounts with a
currency; no text, no outcome and no set of readings is `Null`):

- `HandoffTheorem`: `HandoffIsEarned`. `PassIsBacked` and `DecidedEarns` lead from a claim
  to an outcome: a field that passes is borne out by the page, and a positive outcome has
  only such fields. `RunInv` keeps it with the run; `PageInv` says that a handoff that
  was checked may be posted whatever becomes of the run meanwhile.
- `OfferedTheorem` and `ReviewedTheorem`: `OfferedIsServed` and `ReviewedOrReady`, which
  compare tables that are written down in the page, in both routes and in the repository,
  state by state of `RunInv`. The one control that is refused, the `replace_document` of a
  guarded run that failed after its results were stored, is excepted in the statement.
- `ReplayTheorem`: `ReplayIsExpected`, by `ReplayedOutcome`, for totals of whole cents in
  any currencies, the only ones samples have: `WordIs` says that normalization leaves such
  values as they are, and `WordMatch` that two match only if both amount and currency do.
- `ReviewTypeTheorem`: `ReviewTypeOK`, with the recipients that fit an event's action.

Only model-checked: liveness (`AdmittedRunCloses`, `GroundingEnds`, `DocumentsGo`), which
is out of the prover's reach. Every invariant and every action property of the passing
runs is a theorem; the types of `Retention` and `Review` are theorems only.

## Not modelled

- The operations and guidance views, which only read the API; tables of prices and
  models; the resource model, a calculation on its own; wiring, cookies and
  identifiers; migration 10, whose columns no property depends on; scripts and the
  container image.
- Authorisation by origin and deletion token, the wording of replies, the listing of
  runs.
- Parsers of PDF, images and text, what is on a page and which bytes a file has.
- The row locks of the ledger's functions (see the plan), the in-memory limiter, and
  the in-memory repository apart from its figures.
- Of the page: public history, deletion receipts, the trace and focus.
- In `RunFigures`: `setStatus` and the steps, which are RunTables', the backlog of
  cleanup jobs, which is Retention's, clocks that differ between processes, the rounding
  of costs, averages, and the number of confirmed runs by provider.

## Plan

Written in this order, the most important first: QuotaLedger, RunExecution,
RunStore/RunTables, Retention, Submission, MetricsReads, Workbench, then Grounding,
Evaluation/Review, Intake, RunFigures, MemoryLedger, RunReads. Next:

1. `QuotaSql`: the row locks of the ledger's functions, shown to implement
   `QuotaLedger` and to be free of deadlock. By reading: days are locked in ascending
   order, a day before its reservations, and a mark locks a single row.
2. The in-memory repository against `RunStore`, and the in-memory limiter against
   the limiter of `MetricsReads`; history and deletion receipts of the workbench.

New questions join the run of their module where its instance can answer them.
