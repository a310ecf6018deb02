# Contract Toaster: a TLA+ model of its reviews, from submission to purge

Contract Toaster reviews a counterparty's Word document against a playbook and
returns a redline. A *review* is submitted over HTTP, reserves its worst-case
cost on a daily counter, is run by a pipeline that may take minutes and cost
dollars, and ends in one of four statuses, after which the reservation is
settled at the actual cost and, a retention window later, its documents are
purged. Two deployments share the API and the tables: AWS (Step Functions,
Lambdas, a scheduled reconciler) and Docker Compose ("DTS": one process with a
worker pool, recovered at its next boot).

This directory models the parts of the program where several processes write
the same few rows, where any call may be the last one a process makes, where
an answer lands on a state that has moved on, and where a mistake costs money,
loses a result, or keeps or destroys a document it should not.

## 1. Inventory

| Component | Code | State it keeps | Operations |
|---|---|---|---|
| Submission API | `backend/src/reviews.py`, `review_routes.py` | rows of `review_submissions`, `reviews`, `daily_spend` | POST /api/reviews and its retries: probe, conditional create, reserve, record, put row, start, record the ARN twice |
| Submission idempotency | `reviews.py:400-569` | the key of each submission row | derive a key from a 10-minute bucket, probe current and previous bucket, create conditionally |
| Spend reservations | `reviews.py`, `persist/handler.py`, `orphan_reconciler/handler.py` | per submission the reservation, the Floor top-up, the released flag | reserve, top up, settle, flag, each at several call sites |
| Daily spend | `reviews.py:1208-1760`, `model_settings.py` | a row per UTC day: reserved, settled, cover-note and preflight cents; the admin's cap | reserve under the cap, top up, settle, gate and ledger a cover note, ledger a preflight, change the cap; each by its own clock |
| AWS pipeline | `infra/lib/nested/pipeline-stack.ts`, `persist`, `mark_running` | an execution per review, named after it | stages with Retry and Catch, an execution timeout, StopExecution |
| Cancel route | `review_routes.py`, `reviews.py` | `cancel_requested_at` | stamp the intent, stop, mark, settle |
| Orphan reconciler | `infra/lambda/orphan_reconciler/handler.py` | none | re-drive submissions without an ARN, end reviews whose execution died, reap slots |
| Concurrency semaphore | `pipeline-stack.ts:468-600` | a counter row, a lock row per slot | acquire, wait, give up, release |
| In-process runner | `backend/src/pipeline_runner.py`, `main.py` | names started, reviews in flight, a thread pool | start, run, poll for cancels, end, settle, shut down |
| Runner recovery | `backend/src/runner_recovery.py` | none | at boot: relabel, settle and flag every orphan |
| Review passes, model client | `scripts/primary_review_pass.py`, `critic_review_pass.py`, `floor_judge.py`, `backend/src/model_client.py` | an attempt, its HTTP requests, the invocation ledger | call, retry, widen the output budget, poll for the cancel, account the usage |
| Reconciliation, hard ledger | `scripts/reconciliation.py`, `hard_ledger.py` | none | pair the issues of the two passes, retain hard rejections, add violated Floor invariants and asserted rules |
| Block transcript compiler | `scripts/block_transcript.py`, `text_fold.py`, `redline_block_apply.py`, `signature_block.py`, `redline_projections.py` | the proven operations, the paragraphs as they are rewritten, what landed and what was refused | prove a transcript against its block, plan edits and whole-block operations, write them in three passes, prove the accepted document |
| Redline change sets | `scripts/redline_generate.py` | issues rolled out so far, the compiled document | compile, roll out an issue that landed in part, compile again, host footnotes, guard the delivery |
| Retention window | `backend/src/retention.py` | the settings row and its parked reduction | raise, park, confirm, cancel, apply after 72 hours |
| Retention and purge | `retention.py`, `purge_scheduler.py`, `purge_worker/handler.py` | legal hold, `purged_at`, object tags, confidential fields | hold, release, catch up, undo, sweep |
| Playbook versions | `backend/src/playbook_versions.py`, `playbook_routes.py`, `release_bundle.py` | version rows, the active pointer, the pinned bundle of a review | upload, approve, activate, roll back, remove, seed; verify and load |
| Users and sign-in | `backend/src/demo_auth.py`, `users.py` | user rows, token versions, sessions, the seed marker | sign in and out, change a password, patch, remove and add users, bootstrap |
| Review tab | `frontend/src/ReviewSubmission.tsx`, `inflightReview.ts` | the review shown, its detail, the stored key, requests out | probe at mount, submit, stall check, poll, cancel, cover note, completion, retry, run again |
| Disposition, cover note, preflight | `review_routes.py`, `disposition.py` | draft, disposition, billed cost | only against the purge (Retention), the counter (DailySpend) and the page (ReviewPanel) |
| Extraction and normalization | `scripts/extraction_normalization_stage.py`, `clause_boundaries.py`, `numbering_index.py`, `playbook_floor.py` | the uploaded bytes, the blocks, the notes | read the upload into blocks, accept every tracked change in the bytes, read them again for the redline, tell what was resolved or not read |
| Leakage scan, prompts, settings, dashboard, stacks | see section 8 | | not modelled |

How they meet. Nothing is shared in memory across components of the backend;
they meet in the tables, the buckets and one Step Functions name space. The
reviews row is written by the API (unconditional put), the runner or the
pipeline's Lambdas, the cancel route and the reconciler or the recovery
(conditional updates), and later by holds, drafts and the sweep. The released
flag is read, and later set, by each of persist, cancel, reconciler, runner and
recovery, with the credit of the counter in between. The execution name is the
only thing that makes two starts of a review one.

What is hard, in the order of what it costs:

* every handler is a sequence of separate calls with no transaction, and may
  be killed or raise between any two of them;
* what a handler read is acted on later: the retention row, the review row of
  a sweep, the user row of a sign-in, the active bundle of a run;
* a client that saw no answer retries, also while its first request still runs;
* Step Functions retries a stage as a whole and cannot stop a Lambda in flight;
* a process restart forgets which executions it has started;
* settle and flag are two calls, and five components make them;
* keys, days and restarts are cut from clocks that two calls read separately;
* a model attempt that fails has been billed, and says so in an exception;
* an answer lands in the browser after the screen has changed its subject;
* cleaning up is somebody else's job, later: reconciler, recovery, TTL, sweep.

What makes it correct: spend is reserved once per review and within the cap of
its day; the counter never falls below what is committed; a reservation is
given back when the review is over and not before; a review ends exactly once
and keeps its result, which carries every hard rejection; what was billed is in
the ledger; every review that started ends, whatever dies; a review runs the
playbook bundle it pinned, and what is served was approved; a held document
survives and a due one goes; an accepted redline reads what its transcript says,
and no signature is struck; a session outlives neither its user nor its
password; and the page shows one review at a time. `PROJECT.json` lists the
hazards at their lines with the properties that cover them.

## 2. Modules

```
 Submission -----------+--> AwsReview --> AwsReviewProps --> MCAwsReview
                       +--> DtsReview --> DtsReviewProps
         ReviewLifecycle (abstract; INSTANCEd by AwsReviewProps, DtsReviewProps)
 Submission, IdempotencyWindow, ReviewPanel ----> MCRequests
 ReviewPanel -----------------------------------> MCReviewPanel
 DailySpend ------------------------------------> MCDailySpend
 AwsReviewProps, DailySpend --------------------> MCReservations
 Retention -------------------------------------> MCRetention
 Semaphore, Retention --------------------------> MCUpkeep
 BlockTranscript --> SpanEdits -----------------> MCTranscript
 RetentionSettings, PlaybookVersions, RedlineChangeSets, Accounts,
   MCTranscript, BlockOps ----------------------> MCComponents
 Reconciliation --> ReviewPipeline    DocumentReading --> MCReading
 DtsReviewProps, ReviewPipeline, MCReading -----> MCRunner

 SubmissionProofs   Submission                     (used by the next two)
 AwsReviewProofs    AwsReviewProps
 RunnerProofs       DtsReviewProps, ReviewPipeline
 RequestProofs      IdempotencyWindow, ReviewPanel, DailySpend
 UpkeepProofs       Semaphore, RetentionSettings, Retention
 AdminProofs        PlaybookVersions, Accounts
 RedlineProofs      BlockOps, RedlineChangeSets    (its lemmas used by the next)
 ReadingProofs      DocumentReading
```

Selection, what is kept of a sequence, is used by BlockOps and DocumentReading.

**Submission** is the POST handler and the three tables. One action is one
DynamoDB or Step Functions call: `Probe`, `Create`, `Reserve`,
`RecordReservation`, `CreateReviewRow`, `CallStart`, `WriteSubmissionArn`,
`WriteRowArn`, in the order of `submit_review`; `HandlerFails` ends a handler
between any two of them. The module also holds the writes other components
make to those tables (`StampCancel`, `MarkCancelled`, `SettlementDue`,
`SettleSpend`, `FlagReleased`). A boolean attribute of a row is the set of the
reviews that have it (`submissions`, `reservation`, `released`, `subArn`,
`rowArn`, `cancelAsked`), the status attribute a function. `made` and `credits`
are history: they count successful reservations and settlements.

**AwsReview** extends it with the execution of each review: `exec` is Step
Functions' status, `task` the stage it is at. Only the stages that write these
tables are distinguished; the persist Lambda is its four calls. A stage in
flight when its execution is stopped goes on writing but enters no next stage
(`EnterStage`). `Rec...` actions are one run of the reconciler, killed at any
call by `RecCrash`.

**DtsReview** extends it with one process: `run` is where the worker pool is
with each review, `proc` whether the process serves, stops, is down or boots;
`Die` forgets every run, handler and started name. Each table write and each
cancel poll of `run_real_pipeline` is an action. `RunFails` is an exception
before the terminal write has returned; `Raises` is a DynamoDB call of the
runner or the recovery that fails, bounded by `MaxFaults`.

**ReviewLifecycle** is the abstract specification of one status: accepted,
begun, finished once. Both deployments are checked to implement it; the
in-process one until a table call fails (`calm` in DtsReviewProps is the statuses
up to then), since a terminal write that raised is followed by another.

**DailySpend** refines what Submission takes as one counter: a row per UTC day,
and every handler finding the row by its own reading of the clock (`today`
advances with `Midnight`, at any moment). `ReserveBegin`/`ReserveSpend` and the
cover note's gate read the cap first and use it in a later call, between which
an admin may have moved it. Who settles a review, and how often, is the subject
of the two modules above; here each reservation is settled once.

**Semaphore** is the gate of the AWS pipeline, two calls per Lambda, with
Retry, Catch, kill, TTL and reaper. It reads nothing of the review tables, and
they nothing of it.

**IdempotencyWindow** refines the one thing Submission takes as given, that a
review is one key: the clock, its buckets, client keys, the two probes of a
request and the conditional create.

**ReviewPipeline** is one run from the inside: `stage` is the pass it is at,
an attempt is an action of the pass's loop (call, succeed, truncate and widen,
refuse, fail, exhaust), and below it each HTTP request of
`OpenRouterModelClient.invoke` with the poll of the cancel flag that precedes
it and those while the answer streams in. `owed` is the usage the client has
counted and no row of the invocation ledger carries yet: each attempt ends in a
row, and one that raised takes its usage from the exception. It extends **Reconciliation**, which is pure: pairing, drops,
retained hard rejections, violated invariants and asserted rules over issues
known by topic and section.

**RedlineChangeSets** is the loop that compiles the reconciled issues: which
edits land in a document is nondeterministic, an issue of which some landed and
some did not is rolled out and everything compiled again, notes on protections
that were not inserted need another issue's insertion as host, and a last guard
decides whether anything is delivered.

**DocumentReading** is the contract on its way to the model and back. `Extract`
is stage 1: paragraphs of runs, each run with the wrappers around it, become
blocks whose ids are their positions (`Blocks`: headings, spans, the preamble,
what is left out with a table of contents) and notes on what was resolved or
not read. `Accept` resolves every tracked change in the bytes, `Reread` is
stage 5 reading the result. Text is a few tokens, those the code decides by: a
number, a marker, blanks, capitals, a sentence.

**BlockTranscript** reads the transcript a model wrote of one block, a segment
per step: the kept and deleted segments are placed one after the other in the
folded text of the block (`FoldMap`: a run of blanks is one space, curly quotes
are straight), or the transcript is rejected; a proven one has offsets into the
block's own text. **SpanEdits** extends it with the writing. `doc` is the live
paragraphs, an atom per character with its run, whether the run is the
paragraph's own, and whether it is struck. `Plan` pairs deletes with inserts,
translates offsets, and cuts edits at tabs (`Units`); `ReplaceUnit` asks the
editing library for the match it was told of, or `RefuseUnit` has it refuse
(library: `Strike`, `Match`, written from how the code uses them); `InsertOne`
places an insertion among runs, at an offset moved by what has landed
(`Shift`); `Deliver` is the accept-all proof, which withholds the document if
what it reads is not what was recorded as written. **BlockOps** is the
whole-block operations beside it: validation, the signature tail of a clause,
planning with its refusals, the placeholder under an emptied heading, and the
two passes of writing over paragraphs that are known by where they came from.

**RetentionSettings** is the window's row; every request is its read and its
write. **Retention** is what happens to one review's documents: the pipeline
that still stores its output, `Hold...` actions that write the row, list, tag,
catch up, audit and undo, drafts and dispositions that read the row and write
it later, and the sweep, each action one table or bucket call, with up to
`MaxFaults` that raise. `covered` is history: the objects an unopposed hold
has listed.

**PlaybookVersions** is the version rows, the active pointer and the artifacts
of one playbook, every change in several calls; `Stop` ends one half-way. A
`Runs` member is a review: it pins the active hash, verifies it, and loads what
is active. **Accounts** is the users table and the sessions: a request reads
its caller's row and later writes by what it read; a bootstrap seeds the
shipped users beside the backend of the previous rollout.

**ReviewPanel** is the Review tab: `panel` is the component's state, `stored`
the session-storage key, `probe`, `post`, `following`, `polls`, `cancels`,
`notes` and `saves` the requests in flight; an action is one turn of the event loop. `listing`, `finished` and
`stopAsked` are the part of the server it can learn of.

**MC modules.** MCRequests, MCReservations, MCUpkeep, MCRunner and MCComponents each
instantiate components that share no variable. A further variable (`subject`,
`moving`), never changed, says which component moves; the others stay in their
initial state. So such a run checks each of its components alone, exactly as
one run per component would, at the cost of the sum of their states and not of
the product; it asks one question of several parts of the system. Interaction
is modelled inside the modules, where the code has it: in the tables of
AwsReview, DtsReview, DailySpend and Retention.

Type definitions are proved of every module section 6 names but
RedlineChangeSets and BlockOps; of the others they document the variables.

## 3. What the runs show

| Run | Instance | What it shows |
|---|---|---|
| `requests` | 3 reviews, 2 handlers, a cap of two and a half reservations; or 3 requests over 3 buckets; or 2 own reviews, 1 reload, 2 requests out | a review reserves once through races, retries and deaths at every call; duplicate submissions have exactly the known causes, and a second submission for one review needs a bucket edge between the two probes; the page shows one review, answers stay with theirs, a reload finds the review submitted, and nothing detaches a running one |
| `reservations` | 1 review, 2 handlers, overlapping retries, persist retried twice; or 3 reviews, a cover note, 2 days, two caps | a released flag stands for a credit; a terminal status is final once the first POST has put the row; each gate sees every commitment of its day but what crossed into it over midnight |
| `aws_progress` | 1 review, 2 handlers, under fairness | a review whose row knows its execution ends; a submission left behind by its POST is started; nothing is credited before its review is over; the deployment implements `ReviewLifecycle` |
| `upkeep` | 3 executions, 2 slots; or 1 review, 1 admin, 1 user, 2 failing calls; under fairness | executions past the gate exceed the slots only by repeated releases, and the wait for a slot ends; an unopposed hold keeps what it listed, and a due review is cleared again and again |
| `components` | 2 admins, 3 windows, 2 reductions; or 2 versions, 2 bundles, 1 review, 1 stop; or 3 issues; or 2 requests, 2 users; or a transcript of up to 3 segments by 2 issues over one of 5 blocks; or up to 3 whole-block operations on one of 6 documents | a withdrawn reduction is never applied and none applies uncontrolled; a review runs the bundle it pinned and what is served was approved; an issue's edits land whole, and protections are named; sessions are current, one request alone never takes the last admin, and a removed user stays removed; whatever edits are refused, the accepted document is what the written ones promise, and with none refused it reads what the model wrote; a clause is struck without a bare heading or a lost signature, and operations on whole blocks never have the document withheld |
| `runner` | documents of up to 3 of 28 kinds of paragraph; or both passes and the judge over two sections of one topic, one retry and one truncation retry each; or 1 review, costs 0 to 3 around a reservation of 2, Floor top-up, one failing table call; under fairness | both readings of a document give the same blocks but for two shapes, and what was resolved or not read is told; usage and ledger agree, and billed calls stay within the price reserved; a cancel stops requests; the result rests on both passes and carries every hard rejection; the run ends; a reservation is credited once; while no table call fails, the counter covers what is committed, the status follows `ReviewLifecycle`, and RUNNING and PENDING reviews end through any restarts; a review cancelled in the queue reaches no model |
| `aws_redrive_dynamodb` | 1 handler, DynamoDB's NULL | violated: the re-drive never selects anything |
| `retention_stamped` | 1 review, 1 admin | violated: a held review is stamped and its fields cleared |
| `panel_late_probe` | 2 own reviews, 1 reload | violated: the panel shows another review's detail |
| `midnight_cap` | 3 reviews at 3, cap 5, 2 days | violated: a day admits reservations above its cap |
| `transcript_tail` | 1 issue, up to 2 segments | violated: an insertion is delivered elsewhere than the model wrote it |
| `reading_block_map` | documents of up to 2 paragraphs | violated: the second reading numbers the blocks differently |

### The violated claims

* **Missing-ARN re-drive.** `ARCHITECTURE.md:238` has the reconciler re-run
  "ensure execution started" for a submission with no `execution_arn`. It
  scans with `attribute_not_exists(execution_arn)`; `create_submission_record`
  writes `"execution_arn": None`, which boto3 stores as a NULL attribute, and
  a NULL attribute exists. The fake table of
  `tests/test_orphan_reconciler_e2e.py` treats None as missing, so the tests
  pass. `NullIsMissing` is that difference: with it `aws_progress` holds,
  without it `aws_redrive_dynamodb` fails.
* **A hold placed while a sweep runs wins** (`docs/data-handling.md:105`,
  `:129`, `RUNBOOK.md:536`). For the objects it does, by their tags
  (`HoldWins`). For the row it does not: the sweep reads a candidate, deletes,
  and then stamps `purged_at` and removes the confidential fields with no
  condition on `legal_hold`, so a hold written after that read is on a row that
  is cleared all the same.
* **The panel shows the review it names** (the comment at
  `ReviewSubmission.tsx:2211`). The mount probe asks only whether a review is
  tracked. One that lands while the first submission of the page is out
  attaches an older review and its polls set `detail`; `attachSubmitted` then
  changes the review and leaves `detail`. `ScreenIsOneReview` holds on every
  page whose probe was not overtaken.
* **The cap holds each day** (`reviews.py:1215`). `settle_spend` takes the
  whole reservation off the row of the day it runs on. Settled after midnight,
  it lowers the new day's counter by money that was never on it, and the day
  then admits more than its cap. `AdmittedWithinCap` is what remains true: the
  amount a gate overlooks is exactly what crossed into its day.

* **A transcript is never repaired** (`block_transcript.py:12`, `:388`). A
  transcript that stops short of its block is completed from the source if its
  last kept or deleted segment is a keep, because a keep changes nothing. But
  insertions may follow that keep: of the block "a b", keep "a" and insert "x"
  is proven as keep "a b" and insert "x", and the accepted text reads "a bx".
  `AuthoredDelivered` is what remains: what is delivered reads as the model
  wrote it, tail included, unless a transcript stops at an insert.
* **Both readings see the same block map**
  (`extraction_normalization_stage.py:1415`). A bold line is a heading, and
  whether a paragraph is one is read off its direct runs
  (`clause_boundaries.py:261`). The runs of an inserted line are inside its
  `w:ins`; once that is accepted they are the paragraph's own. So a bold line
  the counterparty inserted is no heading when the model reads the contract and
  is one when its edits are written (`redline_generate.py:2164`), and every
  later block has another id. `ReadingsAgree` is what remains.

### Divergences seen and written into the properties

These were met while modelling. Each is stated as the exact exception of a
property that holds, or left out of what is claimed.

*Submission, execution, settlement*

* `HoldersBounded`: `release` decrements, then deletes its row, and is retried
  as a whole, so each repeat after the decrement frees a slot someone holds.
  `ConcurrencyBounded` proves that this is the only way past the limit. The
  other direction has no bound: a failed, stopped or timed-out execution never
  gives its unit back, since Catch, TTL and reaper touch the lock row and the
  gate reads the counter (`ARCHITECTURE.md:948` says otherwise). In the end
  every acquisition gives up; `WaitEnds` shows that it does give up.
* `TransitionToError` (`pipeline-stack.ts:655`) writes ERROR and settles
  nothing, and the reconciler takes PENDING and RUNNING rows only, so a failed
  stage keeps its reservation, where `ARCHITECTURE.md:944` has it released.
* A POST refused by the cap leaves its submission row; the client's retry finds
  that row and starts the execution with no reservation (`reviews.py:2349`),
  where `ARCHITECTURE.md:1001` has spend reserved first.
* `CreditedOnce` (DTS): a settler that dies before its flag, a retry after the
  restart and a `_mark_running` that raises credit a reservation twice, because
  `record_stage_failure` protects DONE only. In AWS the same window is open to
  a retried persist Lambda (`persist/handler.py:376`) and to persist racing the
  cancel route, without any fault to charge it to, so there only
  `ReleasedMeansCredited` and `CreditedOnlyWhenOver` are claimed.
* `TerminalFinal` excepts a first POST that has not yet put its row: the put is
  unconditional, and a retry that overlaps it may have started and finished the
  execution by then; `ImplementsLifecycle` of AwsReview is therefore checked
  for retries that do not overlap. In DTS the run that starts early stops at
  `_mark_running`, so the status stays within the lifecycle, but the row put
  afterwards waits for the next boot: `StartedResolves` is checked for retries
  that do not overlap.
* A DTS process that dies between the terminal write and the settlement leaves
  the reservation held until the day is over: the recovery takes non-terminal
  rows only.
* A cancel whose `mark_cancelled` is refused, the review having finished
  meanwhile, is answered CANCELLED all the same (`review_routes.py:1691`).
* `DuplicatesExplained` and `SharedReviewExplained` name the ways two
  submissions of one document, or of one review, come about. A fresh client
  key within two buckets of a derived submission is answered with the old
  review, although `ARCHITECTURE.md:226` mints one to force a new review.

*Daily spend*

* A settlement on a day whose row has no counter yet raises (`reserved +
  :delta` on a missing attribute). `_settle_reservation_safely` swallows it
  and nothing retries, so in DTS the actual cost reaches no row, although
  `reviews.py:1487` says the reservation "still settles".
* The cover-note gate adds reserved and settled cents, and reserved still
  holds the actual cost of settled reviews, so it counts them twice
  (`reviews.py:1662-1664`); it refuses too much, never too little. The other
  way round `reserve_spend` never sees what cover notes and preflights cost.
* `admin_dashboard.py:172` has a settled day converge on reserved = settled;
  across midnight it does not.
* The cover-note gate is a read and a comparison, the Floor top-up
  unconditional, and a cap that cannot be read falls back to the environment's
  (`model_settings.py:852`): all three are accepted in the code's comments, and
  `AdmittedWithinCap` claims nothing against them.

*Retention*

* Two holds placed at once: the one whose audit write fails undoes the row and
  the tags of both. `HoldWins` covers a hold no other change overlapped.
* Tags left behind by a failed audit or by overlapping releases stay on a
  review that is not held, and on AWS the sweep that meets one is denied and
  ends there (`StrayTags` in `CleanAgain`). An output stored by a pipeline that
  read the row unheld, after the catch-up, is untagged.
* `RUNBOOK.md:530` says raising the window "never lowers" it. A forward change
  whose read is out of date may lower it, and clears a reduction parked in
  between without a cancellation; `ReductionControlled` names that case.

*Playbook versions*

* An activation that stops between retiring the prior version and marking the
  new one leaves the pointer's hash with no active row, and the loader then
  runs the playbook on disk under that hash (`pipeline_runner.py:911`).
  `RunsItsBundle` names it.
* Two processes could activate at once, leaving two active rows, and serve a
  version one of them removed and the other re-uploaded: the deployment runs
  one backend process, and so does the instance.
* Between verifying the pinned bundle and loading the active one an activation
  may complete.

*Users*

* Two admin requests that overlap can leave no active admin; `users.py:412-428`
  accepts it. `LastAdminNeverAlone` is what one request at a time guarantees,
  and a bootstrap: unless overlapping requests had emptied the table (`emptied`)
  it puts no shipped user over an admin, since a seed is put unconditionally
  after a get that found nothing (`demo_auth.py:975-988`).
* `update_item` on a row removed meanwhile creates one without `user_type`, and
  a password change in flight across the removal and the re-adding of its user
  takes the new row over (the comment at `demo_auth.py:337` says it cannot).
* `seed_demo_users_once` (`demo_auth.py:1019-1021`) promises the shipped users;
  a bootstrap that died after the first row is followed by one that finds
  existing users and never seeds the second.

*Reading*

* The result of a field is added to a paragraph that does not have it, unless a
  change is pending in it. Once the change is accepted the second reading adds
  it, a second time if it has blanks at its ends (`FieldRepeats`).
* `extraction_normalization_stage.py:374-424` has no tracked change resolved in
  silence. Insertions and deletions in text boxes, placeholders and hidden runs,
  around a field as a whole, of table rows, and an insertion within a deletion
  (whose text neither mode reads: `Overlooked`) are accepted, and no note tells.
  Nor of the old place of a move within a deletion: the walk skips it, and
  accepting removes the deletion whole, counting only that
  (`_splice_accept_all`, :2158-2164; `MovesDeleted`), unless the markers of the
  move or its new place are outside. Of an insertion or a deletion in the old
  place of a move only the move is told. `NothingUnsaid` claims the notes for
  what the model reads, and the sentence on moves for every other move.

*Transcripts*

* Two issues may insert at one offset. Pass 2 writes them in their order, each
  at the offset, that is, before the one already there; the accepted text has
  them reversed, and the accept-all proof withholds the whole redline
  (`SharedPlace` in `AuthoredDelivered`).
* A clause that is replaced (struck, and a paragraph inserted after it) and
  ends in a signature block gets the replacement below the signatures;
  `docs/output-contract.md:261` documents it.
* A clause emptied by delete segments, and not by `delete_block`, leaves its
  heading bare, without the placeholder.

*Passes, redline, page*

* The estimated usage of a stream that the owner's cancel ended is in no ledger
  row. The Floor judge has no checkpoint of its own, only the client's polls. A
  poll that fails counts as "not cancelled" (`MaxBlindSpells`).
* An issue recorded in `edit_failures` because the document failed its round
  trip may land in a later compilation and is then listed as refused as well,
  so `WholeChangeSets` claims one direction.
* A probe that lands late also clears the key a newer submission has written
  (`KeyBringsItBack` excepts such pages). `resetForRetry` leaves the draft of
  the last review, which only such a probe brings back on screen. The stall
  check may attach another tab's review; the comment at
  `ReviewSubmission.tsx:2792` accepts it.

## 4. Bounds, and why they are enough

* **Reviews, Handlers.** Reviews meet in the day's counter and in the worker
  pool, nowhere else: `requests` and the days of `reservations` have several,
  the others one: in `runner` a review waits in the pool for as long as the
  pool likes, which is all another review would do to it. Two handlers give any
  pair of a first POST, a retry and a cancel, and a handler is reused as soon
  as it is free, so any number follow each other. DTS handlers are one at a time: one process, and
  async handlers that make blocking calls.
* **Amounts and caps.** Only sums against the cap matter; the cap of `requests`
  falls between two and three reservations, those of `reservations` and
  `midnight_cap` (5 and 6) between one and two of 3 plus a Floor of 1 and
  exactly on two, so that both branches are taken on either side of a change.
  `runner` has costs below, at and above the reservation.
* **Days.** Two: what crosses one midnight may be on either row, and more days
  repeat it.
* **Admins.** `upkeep` has one: holds of several, one after the other or at
  once, are covered by the theorem `HoldWinsHolds`.
* **MaxPersistRetries, MaxRetries** are `addRetry`'s attempts, 2 in the code;
  liveness runs and the semaphore use 1, one repeat being enough to repeat
  every call.
* **MaxWaitAttempts** is 2 for the code's larger number: first, and last.
* **Width, MaxTime**: buckets of 2 ticks up to tick 4, so two requests
  can be in one bucket, in neighbours, or two apart, on either side of an edge.
* **MaxFaults, MaxStops, MaxBlindSpells** bound calls that raise, operations
  that stop half-way and failed polls. Two faults in `upkeep` let a hold's audit
  fail and its undoing as well; the others are about one thing going wrong.
* **Pipeline.** Two HTTP attempts per invocation, two widenings, one retry and
  one truncation retry per pass: every kind of attempt follows every other
  within the shared budget. Issues are two sections of one topic, the least
  over which pairing by section and by topic differ; hard topics come from the
  violated invariant and the asserted rule.
* **Components.** Three windows around the default; two reductions, so a
  withdrawn one is followed by another (any number is covered by the theorems);
  two versions and two contents, so a
  version's identifier can be reused; three issues, so that two rolled-out ones
  leave a host; four token versions and three writes, so that a user is signed
  in, changed or removed, and added or signed in again. Requests and chosen
  passwords are interchangeable, and symmetric.
* **Documents.** 28 kinds of paragraph: each wrapper that the readings tell
  apart, two changes within each other, struck, inserted and moved headings, each way to look like a heading,
  and the pieces a table of contents can be opened, listed and closed with;
  three paragraphs are the least for a heading, a list and what follows it.
* **Transcripts.** The five blocks are the hazards: blanks at the edges, text
  that repeats within and across another author's run, two paragraphs (one of
  which cannot be found again), a tab, a curly quote. Three segments are the least with a
  replacement between two keeps, two insertions around a deletion, or a split
  blank on both sides; two issues, so that neighbours differ. Six documents
  have no block at all, or a clause of every shape of signature tail, of every
  kind of heading, in a table, empty, and with paragraphs that cannot be found;
  three operations strike a clause, replace it and add another.
* **Panel.** Two own reviews, one older and one submitted; one reload; two
  requests out beside the polls.

Deadlock is off everywhere but in `retention_stamped`: the system may stop (all
requests served, all executions over, the clock at its bound).

## 5. Fairness

* AWS: Step Functions drives an execution it is running (weak fairness of its
  stages together, which includes their failing); the reconciler is scheduled
  for ever and its runs progress; `RecPick`, `RecRedrive` and the calls on the
  way to the transition or the start are strongly fair, since one run handles
  one row at a time and a run that is killed now and then is not killed at the
  same call for ever. A POST that creates a submission goes on or fails: each
  of its calls has a timeout. No client is assumed to retry.
* DTS: a worker thread progresses (every model request has a timeout and the
  attempts are bounded), a stopping container is killed when its grace period
  ends, a dead one is booted (`restart: unless-stopped`), and a boot is not
  killed at the same call for ever. Nothing is assumed of handlers.
* Semaphore: a Lambda returns or times out, and Step Functions goes on.
* Retention: a pipeline ends what it stores, a request that has begun makes its
  next call, and the sweep runs on its schedule. Nobody is assumed to place or
  release a hold.
* DocumentReading has none: nothing is claimed to happen.
* ReviewPipeline: the run makes its next step; requests and streams have
  deadlines. The owner's cancel is not fair.
* `UpkeepSpec` repeats the conditions of Semaphore and Retention, each guarded
  by the component that moves; without the guard the one that stands still
  would be asked to step.

## 6. Theorems

Eight modules prove what section 3 checks on instances for every set of reviews,
handlers, requests, processes, admins, users and versions, every amount, price,
cap, limit and retry count. Three need finiteness, to count: the semaphore's
executions, the reviews whose holds are added up, the issues of a redline.

* **SubmissionProofs.** `SubmissionInv` strengthens the types with: a POST
  past the probe and the create has a submission row; at most one handler
  creates a review, and nothing is reserved before the row exists, nor before
  that handler's own reservation; a cancel that settles found a reservation.
  Alone, "a review reserves once" is not inductive: nothing in it says that the
  handler about to reserve is the first one to. From it
  `SubmissionTypeCorrect`, `CapHolds` (the cap is checked and the counter
  raised in one update) and `ReservesOnce`. Both deployments' proofs use its
  step lemma.
* **AwsReviewProofs.** `AwsInv` adds to `SubmissionInv`: an execution at its
  persist stage has an outcome, and a status DONE is the one decided; whoever
  settles or flags has read a reservation, and whoever starts an execution a
  submission; whoever is about to flag has credited. That last part,
  `CreditBeforeFlag`, ranges over persist, cancel and reconciler and is what
  makes `ReleasedMeansCredited` inductive. `TerminalIsFinal` is an action
  property proved from the same invariant. Where no client retries while its
  first request runs (the hypothesis `~OverlappingRetries`, as in the run
  `aws_progress`), `SerialInv` adds that a review without a row, or whose first
  POST still runs, is untouched by everybody else (`FreshUntouched`), and that
  whoever looks for a reservation to settle has seen the review end
  (`SettlesTheEnded`). So nothing is credited early (`CreditsFollowTheEnd`), and
  every step of POST, cancel, persist, Catch and reconciler is a step of
  `ReviewLifecycle` or a stutter (`AwsImplementsLifecycle`).
* **RunnerProofs**, the process. Under the same hypothesis, which here is the
  code's own (the handlers are `async` functions with blocking calls, so one
  runs at a time): `DtsInv` adds to `SubmissionInv` that what a process holds
  dies with it (`LiveOnly`), nobody runs or settles a review whose row is not
  there (`Fresh`), a run owns its review's status until it has ended it and
  settles after that (`RunsItself`), and the credits given or on the way are at
  most one and one per failed call (`CreditsCounted`). `CreditedOnceHolds`
  follows. With the histories (`WatchedInv`) a review cancelled in the queue
  costs nothing (`CancelledCostsNothing`), and until a table call fails every
  step, deaths and recoveries included, implements `ReviewLifecycle`
  (`DtsImplementsLifecycle`). `CounterCovers` says the same of the money: the
  invariant adds to what the property sums the top-up of a run that has raised
  the counter and not stamped it yet (`Held`), without which the step that
  stamps would not keep it, and that only a handler that made a reservation
  records one (`MadeFirst`). The sum is a fold; `SumMoves` bounds how it changes
  when one term does, from a minimal counterexample instead of induction.
* **RunnerProofs**, the passes of one review. `PipelineInv` bounds an attempt
  and its requests (`CallBounded`), the usage not in the ledger (`Owing`),
  ties the judge's three sets to what it is asked (`Judging`), counts billed
  calls by the invariants left behind (`Billing`) and late requests by the one
  past its poll (`CancelCounted`). `UsagePaidHolds` and `CancelStopsHolds`
  follow. `Justifying` adds what each stage contributes to a result: an answer
  that settles every issue and rule, a verdict on every invariant, an outcome
  weighed from both. `ResultJustifiedHolds` then needs `PairsAgree`: in whatever
  order issues are paired, a pair agrees in topic, and in section where the
  critic dropped the issue.
* **RequestProofs**, the idempotency window. The row that answered a route's
  probe still stands and submit_review missed it only in a later bucket
  (`Found`, `Missed`): `SecondRowNeedsEdge`. For `DuplicatesHold` a derived key
  is that of its bucket, and a row seen in the table did not answer the later
  probe (`Probed`). **The panel.** `PanelInv` says what ties an answer to the
  screen it lands on: until the probe is over the panel is as it was mounted
  (`Untouched`), while a submission is out the screen is empty, the poll loop
  and the held keys are about the review shown (`Coupled`), a detail that says
  done is right and ends the loop (`DoneIsDone`), and what is on screen is about
  the review shown (`OnlyThisReview`); all but `Coupled` on pages whose probe
  was not overtaken. The four panel properties of `requests` follow.
* **RequestProofs**, the daily counters. `SpendInv` is the types with four parts. `Covers`: a
  row's counter is at least what its day owes less what crossed into it.
  `FreshRows`: a day without a row has no counter. `PricedUnderCap`: whoever is
  about to reserve has a price within the cap it read. `ReadsCover`: a cover
  note's gate compares at least what its day had committed when it read. The
  last two carry a value from one call to a later one; without them the step
  that admits says nothing about the day. `AdmittedWithinCapHolds` follows from
  them action by action.
* **UpkeepProofs.** The semaphore: the counter's range, and `Covered`, which
  bounds the executions past the gate by the counter plus repeated releases;
  `ConcurrencyBounded` follows. The settings: `SInv` adds to the types that an
  id is taken once and by one request (`IdsTaken`, `IdsApart`), and that what a
  request or the sweep read is the parked reduction as it still is, or another
  one is parked by now (`ReadsAgree`): so a write conditional on the id applies
  what was parked, and never what was withdrawn (`WithdrawnHolds`,
  `ReductionIsControlled`). Legal holds: `HoldInv` says how far a hold that no
  other one overlaps has come with its tags (`TagsSoFar`), and that whatever a
  hold has covered is tagged and nobody at work takes tags away
  (`CoveredTagged`), which is `HoldWins` (`HoldWinsHolds`).
* **RedlineProofs.** `PlanInv`: nothing is planned before the transcript is
  validated, a planned deletion is of a block without ambiguous signature
  lines, and what was struck or marked is what such deletions cover; the tail
  is never covered, so no signature goes. `PaperInv`: the paper holds the
  document's paragraphs and exactly the ones inserted (`PaperHolds`), and what
  is struck and what takes the placeholder is what the written deletions cover
  (`DeletionsShow`); when all is written (`PlanStands`), a struck clause has
  its last struck paragraph marked, or a replacement on paper. `GateInv` is the
  order: the paper is sorted by the one order of marks, a block's own paragraphs
  before the ones inserted after it, those in the transcript's order; insertions
  are written in turn, and a placed one lands behind every mark below its own
  (`PlaceIs`, `PlacedInOrder`). What the gate compares, the accepted paper and
  what the plan promises, have then the same marks, each once, in the same order
  (`AcceptedHas`, `ExpectedHas`), so they are equal (`SortedEqual`) and the gate
  opens (`GateOpens`). It rests on what joining, inserting, selecting and
  flattening do to the elements of a sequence and to its order (`JoinedHas`,
  `InsertedHas`, `InsertedSorted`, `KeptHas`, `FlattenedHas`, the folds by the
  least prefix for which they fail), and on where the tail starts (`TailFacts`);
  `Kept` is a recursive function, which the provers can expand, where
  `SelectSeq` is opaque to them. Together they are
  `ClausesAlwaysStruckCleanly`, for every document and transcript. Of the change
  sets: every compilation either settles or rolls one more issue out
  (`RedlineInv`, which counts passes against issues left), so the bound on
  passes is never what decides, and what settles is whole
  (`WholeChangeSetsHold`) and names its protections (`ProtectionHolds`).
* **ReadingProofs.** The invariant is short (`ReadingInv`: what each step leaves
  is a function of the upload); the work is in that function, which folds over
  runs, fields and paragraphs. A fold is reasoned about through the sequence of
  its intermediate results (`Folds`, `Follows`) and the least place where a claim
  about them fails; `SequencesGrow` turns that into induction over sequences, for
  what `Kept` does (`KeptAppend`, `KeptTwice`, `KeptMapped`). From there, up the
  model: an accepted run is walked, hidden and stopped as before and reads as
  plain (`AcceptedRun`), so a paragraph's accepted text is its resulting text
  (`ResultingIs`), its fields run as before (`FieldRunsStay`,
  `FieldEventsStay`), the same tables of contents are left out
  (`OmittedStays`), and a paragraph that accepting leaves bare had no text and
  stood in no block (`ContentShrinks`). The blocks are then the same one by one
  (`BlocksStay`), which is `ReadingsAgreeHolds`. For `NothingUnsaidHolds`: a run
  with ink that is not left out gives its paragraph text (`ResultingInked`), the
  results of fields are only appended to it (`FoldsKeep`), and a paragraph with
  text heads a block or is in that of the last heading before it
  (`ContentInBlock`); what the walk stops at is told before and after
  (`ReadOrTold`), and so is each change (`ChangeTold`); a move that no deletion
  is around is counted when it is accepted (`MoveCounted`). The proof found the
  statement false for changes within each other, which no document of the
  instance had: the exceptions above, and the kinds of paragraph that show them.
* **AdminProofs.** Versions: a review verified while nobody wrote since resolves
  what it pinned (`VersionsInv`, `PinnedIsRun`). For one process, which is how
  the backend is deployed, `ServedInv` carries the approval from the gate that
  checks a version to the write that activates it (`PastGate`), and what is
  served was approved (`ServedApprovedHolds`); with two processes it is false,
  for a content can be replaced between the two. Users: `AccountsInv` says that
  a session of a row's version is of its password and no row holds a version
  that was ended (`SessionsInv`), that a request nobody disturbed is still an
  active admin's and leaves one (`Undisturbed`), and that a bootstrap seeds
  before anybody is served unless the table was emptied (`SeedsFirst`):
  `SessionsCurrentHolds`, `LastAdminHolds`, `RemovedStaysHolds`.

Assumptions are those of the modules, and TLC evaluates them in every run:
amounts, prices, versions and limits natural or positive numbers, bounds on
stops, faults and writes natural numbers, `NoReview` and `Null` not reviews,
windows natural numbers, a Floor and the issues of a redline finite, a paragraph
of an upload a record of its fields with a sequence of runs
(`ParagraphsAssumption`).

Only model-checked: everything under fairness (`ReviewEnds`, `StartedResolves`
and the other eventualities); and `AuthoredDelivered`, where what is compared is
computed character by character: the folded text of a block and its offsets, the
matches the editing library finds, the offsets moved by what has landed.

## 7. What the model takes for granted

* Submission, AwsReview and DtsReview have one day; the days are DailySpend's.
* Table reads are consistent. Settlers read the submission through a secondary
  index, which DynamoDB serves with a delay.
* A restart takes longer than a second: `is_orphaned` compares whole seconds.
* The age threshold of the re-drive (120 s) outlasts the POST that created the
  row.
* The AWS pipeline settles at zero, as its Lambdas do (`MOCK_PIPELINE_ACTUAL_USD_CENTS`).
* The DTS process runs the real pipeline; the mock one is for development.
* Ownership and authentication checks precede every handler and are left out;
  what a session is worth is Accounts' subject.
* `SUPERSEDED` and the other statuses no component modelled here writes are not
  in `Terminal`.
* The sweep lists its candidates at once, and a review's objects in one call.
* Polls of one review from two loops of the page are one request; a request out
  when the page is reloaded does not reach the server; terminal outcomes are
  one. "Check now" and transient poll errors change nothing the properties see.
* A block's text is the few characters that tell its hazards apart. The editing
  library strikes the match it is asked for, counted in its own text, or
  refuses; it keeps other runs as they are. Every heading has one block, as
  `extract_document_paragraphs` makes them.
* The passes on spans and on whole blocks do not meet: a block is patched or
  struck, never both (`Conflicting`), and paragraphs are addressed by element
  when the second begins. Footnotes, and the proofs that rejecting all restores
  the source and that no other part of the package changed, are left out.
* A model's answer is any answer its schema admits over the instance's issues.

## 8. Not modelled, and the plan

The map covers about a fifth of the implementation's lines, and will not come
to cover most of them. The largest files are document analysis
(`leakage_scan.py`, most of `redline_generate.py`, the XML of
`redline_block_apply.py`, the package checks of
`extraction_normalization_stage.py`), prompt and schema
text (`primary_review_pass.py`, `critic_review_pass.py`), request building
(`model_client.py`), read-only routes and rendering (`main.py`,
`SettingsView.tsx` and the other tabs). They transform one value in one thread
with no state that survives the call; what could go wrong there is in the
characters and XML elements a model would abstract away, and a unit test over
real documents reaches it. What such files decide, rather than format, is
modelled: the readings of a document, the attempt loops, the pairing and the ledger, the roll-outs, the
offsets and the placement of a transcript's edits.

Done of the plan so far: DailySpend, Retention with RetentionSettings,
PlaybookVersions, Users (Accounts), ModelClient with the passes
(ReviewPipeline), Reconciliation, RedlineChangeSets, ReviewPanel, the block
transcripts, DocumentReading, and the proofs of section 6. What is left, in the
order of what it would show:

| # | Module | Code | State and actions | To check or prove |
|---|---|---|---|---|
| 1 | proofs of SpanEdits | as the module | | the accept-all proof of `Deliver` makes `AuthoredDelivered` hold whatever lands |
| 2 | Disposition queue | `disposition.py`, `review_routes.py`, the History tab | triage, autosave claims and overwrites of one review by two readers | no recorded decision is silently overwritten |
| 3 | Sign-in throttle | `demo_auth.py` | the failure counter and the lockout, two updates that can be reordered | a lockout is not undone by a late failure |
| 4 | Recovery clocks | `runner_recovery.py` | row and process times in whole seconds | a row of the boot's second is recovered by the next boot at the latest |

A new module's run takes the place of one whose question a theorem or a merged
run answers by then: the project keeps to a dozen runs, so that all of them are
looked at.

Left out for good: the transformations named above, the read-only dashboard and
audit queries, single-row settings writes, single sign-on tokens and group sync
(which a library validates), and the stacks' resource declarations.
