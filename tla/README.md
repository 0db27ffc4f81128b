# Verification of review-writer

review-writer turns a set of papers into a review article. Its Python back end (`review_writer_api`)
keeps users, projects, documents and jobs in PostgreSQL; long work (parsing uploads, planning, writing
sections, drawing figures, calling models) runs as *jobs* that worker processes claim from the table
`workflow_jobs`. Its front end (`frontend/src`, React) has one page per stage: a page loads what the server
has, polls or streams the jobs it follows, keeps what the user types (also in browser storage) and sends it
back under the revision it read. This directory holds TLA+ models of the machinery of the jobs, of the money
they cost and of the pages, the TLC configurations that check them on small instances and TLAPS proofs for
every value of the constants.

All paths below are relative to `src/`.

- [1. The system](#1-the-system)
- [2. The modules](#2-the-modules)
- [3. The runs](#3-the-runs)
- [4. Fairness](#4-fairness)
- [5. The proofs](#5-the-proofs)
- [6. Where the code and what it says disagree](#6-where-the-code-and-what-it-says-disagree)
- [7. Abstractions, and what is not modelled](#7-abstractions-and-what-is-not-modelled)
- [8. What is left](#8-what-is-left)

## 1. The system

| Component | State | Operations | Interacts with | Correct when |
|---|---|---|---|---|
| Job table (`workflow_repository.py`, `job_lifecycle.py`, `repositories.py`) | `workflow_jobs`, `workflow_current_jobs`, projects, cancelled upload batches, paused queues | submit, request cancellation, cancel the rest of a batch, delete / restore / purge a project, pause a queue, claim, renew, release, progress, outcome | users over HTTP, workers, administrators: transactions in any order | a row's status, lease and flag agree; one unfinished job per scope; limits per user and queue; groups in order; deletion and cancellation stick |
| Worker executions (`worker_service.py`, `job_service.py`, `worker_main.py`) | per execution: job, generation, "lease lost" mark | claim, heartbeat thread, checkpoints, handler, outcome, shutdown, crash | job table | a worker that lost its job writes nothing; orphans are picked up; cancellations settle |
| Worker slots (`worker_service.py`, `daemon_executor.py`, `worker_wait_state.py`) | `_futures`, `_waiting_model_jobs`, thread pool | claim, start, lend a slot during a model call, future done, forget | worker executions; callbacks in pool threads | no slot is lost; a slot is lent only while its job waits for a model |
| Compatibility executor (`job_service.py`) | futures by job id, pending set | schedule, run, recover at start | job table without leases | every queued job is scheduled once |
| Delegated model calls (`job_handlers/model_dispatch.py`, `stage_execution.py`) | request and result files, child jobs | delegate, yield, wake up, retry | job table, model gateway | a parent resumes; a result is used once |
| Stage workflow (`workflow_repository.py` 830-1300) | stage rows with revisions, mirrored in the project | compare-and-set, publish under a lease, invalidate downstream | artifact store, job leases | nothing stale is published; a revision names one state |
| Artifact store (`artifact_service.py`) | files and rows | publish, look up | stage workflow, storage clean-up | a row has its file |
| Vector store (`vector_store.py`, `sqlite_vectors.py`) | snapshots (files), a head, a writer lease, borrows | publish, borrow, rank, prune | library jobs, retrieval | one head, its file exists while borrowed |
| Billing (`billing.py`) | accounts, reservations, ledger entries | reserve, settle, release, adjust, reconcile holds of ended jobs | model gateway, job table | reserved = sum of active holds; balance = sum of the ledger; a metered call is charged once |
| Model gateway (`model_gateway.py`, `gateway_app.py`) | idempotent model requests | begin, join, call the provider, finish, settle or release | billing, text admission, job leases | one provider call per key; the request's outcome matches its billing |
| Text admission (`text_routing.py`, `model_concurrency.py`, `text_connections.py`) | quotas of connections, in-process limiters | admit, release, resize | gateway | no quota is exceeded, nobody waits for a free one |
| Conversation, library, discovery, planning, sections, drafts, figures, final (`domain_services/`, `job_handlers/`) | documents | read and write documents, submit jobs | all of the above | see the components they use |
| Projects, users, authentication, administration, HTTP | rows of their own | CRUD | job table on deletion and pause | deletion reaches the jobs |
| Scientific subprocesses, skills, text algorithms, PDF renderer, migrations | - | - | - | not modelled, see section 7 |

The pages of the front end. Every one of them holds a copy of server state that is old as soon as it is there,
and shares the server with jobs, with other tabs and with earlier visits of its own.

| Page (`frontend/src/features/`) | State | Operations | Interacts with | Correct when |
|---|---|---|---|---|
| Figure editor (`images/editor/`) | workspace, undo history, gesture, dialogs | draw, erase, move, label, crop, undo, insert a molecule, save, reopen | traces and results of `figures.py` | a saved figure reopens as it was; no published stroke rubs out what it was not drawn on |
| Images (`images/ImagesPage.tsx`) | selected paper, note form, two queries | choose, note, redraw, approve | `figures.py`, redrawing jobs | a note is stored with its paper |
| Planning (`planning/PlanningPage.tsx`, `useFormDraft.ts`) | payload, kept draft of the outline, commands under way | edit, save, recommend, import, follow the analysis | `planning.py`, analysis jobs, earlier visits | an answer erases nothing from the editor, and nothing its own visit has typed since from the browser (another visit's draft it may, section 6); a finished analysis is shown |
| Outline editor (`planning/OutlineBuilder.tsx`) | list of sections with levels, what was typed into them | add, move, remove, nest, edit the fields, edit the text | text of the outline | the list stays a tree, no section gets another parent or loses its identifier (headings typed into notes apart, section 6) |
| Chapter planning (`sections/ChapterPlanningWorkspace.tsx`) | plan shown, its revision, requests | generate, cancel, restore, confirm | `blueprint.py`, planning jobs, other tabs | the plan confirmed is the one seen, replacing the one seen |
| Sections (`sections/SectionsPage.tsx`) | payload, job shown, status poll | generate, continue, restart, confirm | `sections.py`, generation jobs | what a job has made comes to be shown |
| Chapter rewrite (`sections/ChapterRewrite.tsx`) | wish, key, request, task: kept in the browser | ask, retry, adopt | `section_rewrites.py` | a retried wish is not paid twice, unless a late answer took its key away (section 6) |
| Library (`library/`) | batches of uploads, list, one record draft | upload, cancel, save, review, extract again | upload jobs, `library.py` | an upload reaches the list; a record is never another paper's |
| Discovery (`discovery/DiscoveryPage.tsx`) | rows, search followed, acquisition watched, adoption | search, decide, acquire, save, adopt | `discovery.py`, its jobs | what is adopted is what was shown; a finished search is shown |
| Draft (`draft/DraftPage.tsx` and its editors) | draft, kept edits, decisions, approval | edit, decide, merge, restore, approve | `drafts.py`, other writers | a save replaces what its author saw; what is approved was viewed (it need not be, section 6) |
| Chapter dialogue (`draft/SectionDialogue.tsx`) | message, key, stream, polls | send, follow, restart | `actions/draft/dialogue.py` | a message becomes one turn; its reply is shown |
| Final (`final/`) | final, followed and stored job, download, two dialogs | assemble, export, correct | `final.py`, `final_figures.py`, jobs | results are shown and downloaded; a correction overwrites no field of others |

What is hard to test is in `PROJECT.json` under `hazards`, each at the line where it bites. Most are of one
kind: a decision is taken in one transaction (or thread) on what another one has changed by the time
it acts. A lease expires while its worker is paused; a cancellation arrives between a checkpoint and an
outcome; a renewal that began in time commits too late; a callback fires after its key has been reused. On the
pages it is the same: an answer is read by the server in two halves, arrives after the user has gone on to
another paper, or never arrives although the request was taken; an edit of the visit before is saved into a
newer draft; the poll that sees a job end races with the query that fetches its result.

## 2. The modules

| Module | Role |
|---|---|
| `JobTable` | rows, the admission predicates of a claim, the transactions of the API, database time |
| `WorkerQueue` | EXTENDS `JobTable`: claims, heartbeats, handlers, outcomes, shutdown, crash; all properties of the job system |
| `JobContract` | what a client may rely on, with no rows, leases or clocks; `WorkerQueue` implements it (`KeepsContract`) |
| `WorkerSlots` | one process's account of its executions |
| `Billing` | one user's account, holds and ledger; reconciliation and adjustment |
| `Gateway` | EXTENDS `Billing`: provider calls, their requests and what they do to the account; the properties of both |
| `ChargeContract` | what an account promises, with no holds, attempts, calls or jobs; `Gateway` implements it (`KeepsChargeContract`) |
| `SvgDocument`, `SvgEditor` | the workspace of the figure editor, its SVG document and the way back; the editor |
| `FigurePages`, `PlanningPage`, `OutlineEditor`, `ChapterPlan`, `SectionsPage`, `ChapterRewrites`, `LibraryUploads`, `LibraryMetadata`, `DiscoveryPage`, `DraftPage`, `ChapterDialogue`, `FinalPage`, `FinalReview` | one page, or one self-contained part of a page, each with the part of the server it calls |
| `MCWorkerQueue`, `MCAdmission`, `MCWorkerSlots`, `MCGateway`, `MCProcesses`, `MCPages`, `MCPagesLive` | instances for TLC |
| `WorkerQueueProofs`, `WorkerSlotsProofs` | theorems about jobs, and about slots |
| `GatewayProofs`, `AttemptsProofs` | theorems about the account and its ledger, and about requests, their attempts and charges |
| `StagePagesProofs` | theorems about `ChapterPlan`, `DiscoveryPage` and `ChapterRewrites` |
| `FormPagesProofs` | theorems about `LibraryMetadata`, `PlanningPage` and `FinalReview` |
| `DraftFigureProofs` | theorems about `DraftPage`, `FigurePages`, `ChapterDialogue` and the figure editor |
| `OutlineProofs` | theorems about `OutlineEditor` |

**JobTable.** `row[j]` is the row of job `j`, and jobs are the idempotency keys that may ever be submitted.
Of the columns it keeps `status`, `cancellation_requested` (`flag`), `lease_token` (`token`: which claim
minted it), `lease_generation` (`gen`), `lease_expires_at` (`ttl`, ticks left), `next_run_at` (`wait`),
`queue_reason`, `created_at` (`born`, its rank in the job's group) and, standing for progress and
`result_json`, the generation that last wrote them (`writer`). Status `absent` is a key nobody has
submitted, `gone` a row deleted with its project. `pointer` is `WorkflowCurrentJob`, `fenced` the upload
batches with a cancellation row. What a job is (owner, queue, project, scope, group, batch, parent) never
changes and is a constant.

| Action | Code |
|---|---|
| `Submit` | `create_or_get_job` |
| `RequestCancel`, `CancelBatch` | `request_job_cancellation`, `cancel_remaining_uploads` |
| `DeleteProject`, `RestoreProject`, `PurgeProject` | `delete_for_user`, `restore_for_user`, `create_for_user` on a deleted slug |
| `SetPaused` | `set_worker_queue_paused` |
| `Tick` | the database clock |

**WorkerQueue.** A worker is one execution slot: `ctx[w]` holds the program counter of `_execute`, the claimed
job, the generation of its lease and the mark the heartbeat thread leaves (`lost`). Between any two
transactions of an execution come those of everybody else.

| Action | Code |
|---|---|
| `Claim` | `claim_next_job`: repair (`Swept`), then `_apply_claim` on a `Claimable` row, in one transaction |
| `Heartbeat`, `HeartbeatFails` | `_heartbeat`, `renew_job_lease` |
| `ReportProgress`, `ReportPartialResult` | the two writes of a handler; only the first has a checkpoint before it |
| `DropLostJob`, `SeeCancellation`, `RaiseError` | what ends a handler early |
| `Succeed`, `YieldJob`, `ReleaseOnShutdown`, `Refused`, `MarkCancelled`, `MarkFailed` | the branches of `_execute` and the transactions behind them |
| `Stop`, `Crash`, `Restart` | `stop`, the end of the process, `worker_main` |

*Time.* `now()` in PostgreSQL is the start of the transaction, so a transaction may decide on a clock that is
older than the last commit. `TxLag` bounds how old, in ticks, and every transaction that compares or
writes a time picks a `lag` from `0..TxLag`. `TxLag = 0` is a database whose transactions are short against
the granularity of leases.

**WorkerSlots.** `run` lists the executions the process ever had, each with its place in the pool
(`pooled`, `running`, `closing`: outcome written and heartbeat being joined, `done`: future done and callback
to come, `forgotten`); `futures` and `waiting` are the two dictionaries the poll loop counts from, both
keyed by job id. The database is reduced to who holds a job.

**Billing and Gateway.** `balance` and `reserved` are the account row; `hold[<<r, n>>]` is the reservation of
attempt `n` of request `r`; `ledger` the set of posted entries, each under its idempotency key; `request[r]`
the row of `ai_model_requests`; `job[j]` only says whether the job is running, ended, or away (queued, asked to
stop, claimed anew). `call[c]` is one HTTP request inside the gateway.

| Action | Code |
|---|---|
| `Enter`, `Begin`, `Join` | `_validate_live_job`, `_begin_request`, `_join_running_request` |
| `ReserveCredit`, `Send` | admission and `reserve`; the checks of `_provider_call` before a prompt leaves |
| `Finish`, `SettleCall`, `SettleCached` | `_finish_request`, `settle`, `settle_reference` |
| `ReleaseCredit`, `Fail` | the `except` block: `release`, `_finish_request` |
| `TransactionFails`, `Crash` | a transaction of a call fails (also as the victim of a deadlock: `settle` locks the reservation first, reconciliation the account); the process ends |
| `SummaryReads`, `SummaryCommits`, `SummaryLost` | `account_summary` around `_release_terminal_job_holds` |
| `AdjustLooks`, `AdjustApplies` | `adjust`, before and after it locks the account |
| `JobMoves`, `JobEnds` | what workers and users do to the job meanwhile |

The gateway is one asyncio process, so code between two awaits runs without other calls (`HoldsLoop`), but
not without the API process and the workers. An embedding request differs in three ways, all of
them in the code: its hold is of a type reconciliation does not know (`Linked`), its job is not checked again
before it is sent, and a cached answer is not settled.

**The pages.** All page modules are cut the same way. The server's variables are what the handlers the page calls
read and write: a revision, the artifacts the page tells apart (known by the revision or number that made
them) and the jobs; other tabs and jobs change them at any time (`...Elsewhere`, `...Ends`, `...Step`). The
page's variables are the query caches, the refs and states of the component, what is kept in
browser storage, and the requests under way. What the code does in one JavaScript turn is one action.

| In the code | In a module |
|---|---|
| a GET whose handler reads two things one after the other (revision after artifact, job after payload) | two actions: `Fetch...` takes the first half into a `...Fetch` variable, `...Arrive(s)` adds the second and shows it |
| `invalidateQueries` | the `...Due` flag; the answer under way is dropped (it is `NoX` afterwards) where the code cancels it |
| a mutation | a request record with its snapshot; one action in which the server takes it, refuses it, or takes it and the answer is lost (`...Stored`, `...Answered`) |
| an optimistic check (`revision`, `If-Match`, input artifacts, idempotency key) | a conjunct of the server's action |
| `useFormDraft`, `useDraftScratch`, stored job ids | variables that survive `Leave...`, `Reload...` |
| an effect that follows a prop or a query | part of the action that changes it |
| polling (`refetchInterval`), streams | an action enabled while the component polls; a stream opens, breaks and sends snapshots |

| Module | What it is about in particular |
|---|---|
| `SvgDocument` | positions have one coordinate; a document is what `buildSvgDocument` writes: objects drawn where they stand and their own place beside, strokes, marks, labels, a crop in source pixels (`Density` per canvas unit, so rounding is in the model); `Reopen` is `parseSvgDocument` and `mergeSavedSvg` |
| `SvgEditor` | the operations that wait (loading, Ketcher, cropping, drawing the PNG) come back to a workspace that may have changed; undo restores snapshots; eraser strokes not bound to objects exist only in documents of older editors (`Legacy`) and after them in the history. Their cut is assumed to lie within the canvas (`LegacyAssumption`), as `svgEditorModel.ts` 447-454 brings it there when it is read |
| `FigurePages` | the two tables of the page, the note form that follows the selected row, the stage's own copy of its inputs |
| `PlanningPage` | visits: a request of an earlier visit is answered in a later one; the checkpoint of `useFormDraft` compares with the text its own page showed last; `outlineTypedIn` remembers the visit that stored the draft (a history variable: no action reads it) |
| `OutlineEditor` | every operation, the fields of a section included (`UpdateSection`), goes through the text: `ParseOutline` reads the headings and identifiers that were typed into a purpose or notes like those the editor wrote, and numbers what has no identifier. Fences and bare heading marks, on which the module editor does not open, are the flag `unsafe`; titles, roles and papers are data (so either starter section may be found missing) |
| `ChapterPlan` | candidates with what they were made from; confirmation by revision and artifact |
| `SectionsPage` | which job is shown and resumed (`sectionJobResume.ts`), the status poll of `useSectionStatusSync.ts` |
| `ChapterRewrites` | keys, snapshots and retries; the state of the page apart from what the browser keeps (`rewriteScratch`), which the answer to an earlier visit writes alone; `rekeyedWishes` remembers the wishes whose stored key such an answer has replaced (a history variable) |
| `LibraryUploads` | uploads shared by the components of one account, jobs that end before the answer to their upload, reloads |
| `LibraryMetadata` | one draft for all papers, three commands, a list that changes the selection |
| `DiscoveryPage` | reviews published by saves, searches and refreshes; rows that keep decisions over a refresh of the same origin |
| `DraftPage` | `draftLog` is the sequence of drafts; a text is known by the revision that made it, so "what he saw" can be compared |
| `ChapterDialogue` | a stream with polling as its fallback, replies published apart from turns; `rekeyed` remembers the texts whose stored key the late answer to another message has replaced (a history variable: no action reads it) |
| `FinalPage`, `FinalReview` | tasks remembered in storage, automatic assembly, downloads; the merge of two records by field |

The router shows one page at a time and the pages share nothing but the server, whose part each module has for
itself; `MCPages` and `MCPagesLive` are the disjoint union of the pages: a behaviour stays on the page it
starts on. So one run checks many pages in the sum, not the product, of their states.

Operators commented `Faulty` are broken variants of their neighbours. The specifications never use them;
substituting one for its neighbour is how each property is shown to be able to fail.

## 3. The runs

| Run | Instance | Checks | Result |
|---|---|---|---|
| `fencing` | 1 project job, 2 workers, lease 2, lag 1, 3 claims, under `FairSpec` | `TypeOK`, `RowsConsistent`, `DeletedProjectsAreQuiet`, `OneWriter`, `KeepsContract`, `CancellationSettles`, `OrphansRecover` | hold |
| `admission` | two scenes: uploads of 2 users under a cap of 1, one in a cancellable batch; a parent and 2 delegated calls of one user, parallelism 1 | `UploadsWithinCap`, `CancelledBatchStartsNothing`, `LeasesWithinLimit` | hold |
| `planning` | 2 matrix jobs of one scope and their planner, 2 claims each | `GroupsRunInOrder`, `OneUnfinishedPerScope` | hold |
| `stale_clock` | 2 jobs of one user, lag 1 | `LeasesWithinLimit` | **violated**, section 6 |
| `slots_overcommit` | 2 jobs, 1 slot | `ClaimsHaveRoom` | **violated**, section 6 |
| `processes` | the gateway: a text and an embedding request of one job, 3 calls, a credit and a deduction, costs below and above the estimate; or a worker: 3 jobs, 2 slots (4 threads), 4 executions, outages | `BillingTypeOK`, `HoldsAreReserved`, `BalanceIsLedger`, `ChargedOnce`, `OneAttemptStreams`, `OverdrawnByOverrunsOnly`, `KeepsChargeContract`; `SlotsTypeOK`, `NoLostSlot` | hold |
| `adjust_twice` | one adjustment, submitted twice | `BalanceIsLedger` | **violated**, section 6 |
| `embedding_hold` | one embedding request, one call | `MeteredHoldsStay` | **violated**, section 6 |
| `pages` | twelve pages, one at a time, beside another tab | `ReopenShowsWhatWasSaved`, `PublishedStrokesAreBound`, `NotesStayWithTheirPaper`, `UnansweredRewritesRunOnce`, `RecordsStayWithTheirPaper`, `MessagesAreTakenOnce`, `SavesKeepLaterEdits`, `ModuleEditsKeepTheTree`, `IdsSurviveEditing`, `ConfirmationsReplaceWhatWasSeen`, `AdoptedSelectionIsTheShownOne`, `SavesReplaceWhatWasEdited`, `CorrectionsKeepOthersFields` | hold |
| `pages_live` | the six pages that poll, stream and refetch, with fairness | `FinishedAnalysisIsShown`, `GeneratedDraftsAreShown`, `UploadsReachTheList`, `SubmittedSearchesAreShown`, `RepliesAreShown`, `FinalResultsAreShown` | hold |
| `outline_erased` | the planning page of `pages` alone | `SavesEraseNoEdits` | **violated**, section 6 |
| `approve_unviewed` | the draft page of `pages` alone | `ApprovedProseWasViewed` | **violated**, section 6 |

*Bounds.* Two workers are the least with a stale and a current execution of one job; three claims
(`MaxGeneration`) let a job be lost, reclaimed, yielded and claimed once more. A lease of two ticks
distinguishes "expired for a stale clock" from "expired". `Tick` stops counting at `-TxLag`, below which
no transaction can tell values apart, so time itself needs no bound. The proofs lift all of these
bounds for the safety properties. In `processes` a behaviour is one of the gateway or one of a worker, which share
nothing there. Four executions of three jobs allow each to run once and one of them to be run again while its first run
still closes; `MaxRuns` is the only bound of the worker. It and the calls and submissions of the gateway are used up in the
end, so deadlock is not checked there, nor in `slots_overcommit`, `adjust_twice` and `embedding_hold`; in the runs of the job system it is.
In the gateway three calls allow one to stream while a second
restarts its request and a third joins or repeats it; `MaxAttempts` equals the number of calls and so excludes
nothing, amounts of 1 and 2 against a credit of 3 make the credit short, and costs of 1 and 3 make
answers cheaper and dearer than their holds.

In `pages` (about 1 180 000 states) and `pages_live` (about 105 000) the bounds count what the user does (`...Moves`, `...Steps`,
`MaxGestures`) and what the server publishes (`Max...Writes`, `MaxPlans`, `MaxTurns`). They are chosen per page
as the least with which the mutant of the property is found, and one more where the run allows it. The editor's
canvas of width 2 at density 2 has a crop that is not the whole and coordinates that do not divide; two gestures suffice because it
starts from any of the `Legacy` documents and from a trace that stands elsewhere in the redrawn image. The outline editor goes up
to three sections of three levels without a bound on the operations; two headings typed in one edit, without identifier or with one of
two, make a section that takes children over and one that takes an identifier. Two papers, candidates and fields are the
least with which something can get to the wrong one; three writes of a draft let an edit be overtaken twice; two visits of
the planning page let an old answer come; seven steps of a rewrite (a change of the chapters elsewhere counts as one) are: type, ask, leave, type another wish, ask
(the old answer comes before), leave, ask again, with one request of an earlier visit on its way at a time; three tasks are the two wishes and one that is run twice.
In `pages_live` the bounds are smaller because a result that is overtaken by the next one is shown or replaced all the
same; one search, batch and turn meet their two polls in every order. These runs, and the two of single pages, stop when the bounds are
used up, so deadlock is not checked there.

## 4. Fairness

`FairSpec` assumes weak fairness of the clock; of the end of a handler (provider calls, subprocesses and
lock waits have timeouts, and checkpoints raise) and of writing its outcome; and of the restart of a
stopped worker (the container's restart policy). It assumes strong fairness of `Claim`: the poll loop of
`run_forever` polls for ever, but an idle slot is not continuously able to claim, since other
workers take jobs and queues are paused and resumed. Nothing is assumed of users, of heartbeats
(which may fail or stop at any time), of crashes or of shutdowns. `OrphansRecover` excuses a paused queue and
a job that has used up the bound on claims.

`PagesLiveSpec` assumes weak fairness of the browser's part only: a query that is due is sent and answered
(TanStack Query refetches on its interval and on invalidation), a job that is polled is polled again, files
handed over are transferred one after another, and an upload that is queued gets parsed. A stream that keeps breaking
still delivers one snapshot now and then, because the server begins every connection with the present state:
strong fairness of `StreamSnapshot`. Nothing is assumed of the user, of other tabs, of the ends of jobs (other than parsing) and of
answers to commands. The properties name the windows in which the code itself gives up: `FinalResultsAreShown`
excuses a download whose success is seen before the answer to its request, `SubmittedSearchesAreShown` a refresh
that puts back the review it had read.

## 5. The proofs

`WorkerQueueProofs`. The safety properties are not inductive by themselves: that a lease has one
holder needs that executions know generations a claim minted, that later claims only exceed them, and
that no two executions share one. `IInv` adds these (`Executions`, `DistinctGenerations`), and
`FencedBatchesAreQuiet` for batches. The proof goes in two stages so that it does not repeat itself for
every action and every conjunct:

1. each action is classified by what it may do to a single row (`RowStep`: creation, claim, purge or a
   `RowMove`) and to an execution (`CtxMove`): lemmas `ApiMoves`, `ClaimGrants`, `ExecutionMoves`, `PurgeErases`;
2. each conjunct of `IInv` is shown to survive every classified step.

From `Invariance` (`Spec => []IInv`) follow type correctness, `RowsConsistent`, `DeletedProjectsAreQuiet`,
`OneUnfinishedPerScope`, `OneWriter`, the action property `CancelledBatchStartsNothing` and the refinement
`KeepsContract`. They hold for every `TxLag`: fencing does not depend on the clock.

The second half of the module is about admission. The limits count live leases, so they do depend on it: `LeaseAdmission` and
`UploadAdmission` assume `TxLag = 0`, and run `stale_clock` shows that they must. The argument is that without
a lag only a claim makes a lease live (a renewal needs a live one), and a claim counts first.
`GroupOrder` needs no such assumption; it rests on ranks that are counted (`RanksCounted`) under the
project's lock.

`WorkerSlotsProofs`. What is recorded under a job's id is an execution *of that job* (`RecordsMatch`), so
different counted jobs stand for different unfinished executions and the count never exceeds them: the worker
errs only by claiming too much (section 6), never by losing a slot.

`GatewayProofs`. Two invariants, one on top of the other.

1. `GInv`: types, and that the reserved amount is the sum of the active holds. This needs two more facts: a call in
   flight names an attempt of its request, so it settles or releases a hold that exists (`CallOK`), and the holds an
   `account_summary` has selected are still active when it commits, because the account is locked in between
   (`SummaryOK`). Reserved sums are cardinalities of sets of units (`Held`), so the lemmas about them (`HeldWithout`,
   `HeldByOne`) follow from those on finite sets, and `max(ZERO, ...)` in the code is shown never to cut anything off.
2. `LedgerOK` and `BalanceOK`: both amounts of the account are sums over the ledger. The ledger's sums are folds, and
   the lemmas about them (a sum without one of its elements, a sum of two disjoint sets) are proved by taking a least
   counterexample. That every booking adds its entry to the sum needs that no entry has its key before:
   a key is posted only after its hold has passed the status the key stands for (`KeysFollowHolds`), or its
   submission is through (`KeysFollowAdmin`). `BalanceIsLedger` has the hypothesis `DistinctKeys`: no two submissions
   carry one idempotency key. Without it the property is false (run `adjust_twice`, section 6); the reserved
   amount is explained by the ledger without it (`LedgerInvariance`).

`OnlyOverrunsOverdraw` then follows step by step: a reservation or deduction is covered when it is made, a settlement takes at
most what was held, and what an overrun takes beyond that is its excess.

`AttemptsProofs`. `OneAttemptStreams` and `ChargedOnce` fail to be inductive because reconciliation may fail a request
under its worker, after which it is begun once more: then two calls work on two attempts. `AttemptsInv` says of each
request that it is orderly or closed. While it is *orderly*, only its latest attempt has a worker and an active hold, and only a
hold of the latest attempt is charged. It is *closed* once it was begun again after such a failure: its job has ended, so the new attempt can never
be sent (the check before a prompt leaves refuses it), and the old worker has lost its hold and cannot charge it. On this rests the refinement of `ChargeContract`
(`ChargeContractKept`): of all steps of calls, reconciliation and administrators, only a settlement is a `Pay`, only an
adjustment that is through a `Take`, and no step takes back an answer that was paid for.

`StagePagesProofs`. Plans: what was read under the present revision was read with the present plan (`SawCurrent`),
since every change of the plan makes a new revision; so a confirmation that names the present revision replaces the
plan the user saw. Discovery: between the save and the adoption the revision of the page stands for the rows it saved
(`AdoptionKnown`), because `MergeAccepted` lets pass only rows that are those of the review. Rewrites: of the
present wish, an untold task is the request the browser keeps (`WishKept`), and a request of an earlier visit is the
kept one or can make no second task (`OldFits`); `GrownLog` shows that any taken request preserves both. Both are said only of
wishes outside `rekeyedWishes`: a late answer of an earlier visit puts the wish it finds in the browser there.

`FormPagesProofs`. Library: every copy of a record (draft, cache, answer on its way, request under way) is one of the paper it
is filed under (`Own(p)`); a command takes the paper from the selection and the record from the draft, and the two
agree in every state, whatever the list does to the selection. Planning: that an answer erases nothing typed since depends on the
snapshot it was sent with, and on which command the draft is waiting for: of all visits at most one command
waits for the refresh after its acceptance (`OneAccepted`). For the copy in the browser `StoredInv` adds that the editor of the visit that
stored it shows it, and that a command left behind remembers it; hence the checkpoint, which compares with what its own page showed last, sees
what that visit has typed, and only that. Corrections: each of the two forms, and each request made from one,
differs from the version it names only in fields the user has typed in (`TypedOver`), also after a merge with a newer version; so a request
that names the present version writes over the fields of others only what was typed.

`DraftFigureProofs`. Drafts: the log of drafts only grows, and every edit, request and answer names an entry of it
(`DraftInv`); an edit begun on an entry keeps its base over reloads, and the server accepts a save only for that
base. Images: the note form is a pair of a paper and a
text; the invariant says that form, row and request belong to one paper at a time, also between the change of the selection
and the refetch. Dialogue: a message stands in the box, in the browser, in a request of this visit or of the one before, and in
turns, and wherever it stands for one state of the chapter it has one key (`KeysAgree`); the server makes one turn of a key. The
answer to an older message leaves what was typed since, because that has been sent nowhere (`TypedIsNew`).
Figure editor: every workspace it holds, on the canvas, in the history, in a dialog or in a save, consists of strokes a document
gives back (`Lasting`) and a cut within the canvas (`Sound`); building a document of it and reading that again is then
the identity up to what the editor itself normalizes, for every density of pixels. Operations that come back to
an older workspace restore parts of sound workspaces, which is why the history is part of the invariant.

`OutlineProofs`. The properties quantify over the parents and identifiers of all sections of two lists, which insertions, shifts, swaps
and renumberings relate. The proof is about positions. `Under(s, p, i)` says without CHOOSE that p is the heading i stands under; `Carried` that an
operation takes the sections of a set to given places, adding none but new ones; `Follows` that a section stands there under
what it stood under. For each operation a lemma shows both (`InsertCarries`, `AddCarries`, `SurroundCarries`,
`SwapCarries`, `ShiftCarries`, `RemoveCarries`; `FieldKeeps` for a field without headings), and `CarriedOver` draws the conclusion once for all of them. Headings
typed into a field are carried (`InsertedCarries`) and may take over sections below them, but whatever has another parent afterwards has a typed heading for
it (`InsertedTakes`), which is all that `SubtreesStayTogether` can say of them. `CommitNumbers` shows
that writing the text and reading it back only numbers sections that have no number, once, and `SerialFresh` that these numbers are
free. The theorems hold for outlines of any length and depth and for any typed headings; `MaxSections` and `MaxTyped` only bound what the runs enumerate.

The theorems about pages are of each page's own specification (`RecordsSpec`, `FigureSpec`, `DraftSpec`,
`ChapterPlanSpec`, `DiscoverySpec`, `RewritesSpec`, `DialogueSpec`, `PlanSpec`, `FinalReviewSpec`, `OutlineSpec`, and `Spec`
of `SvgEditor`), of which `MCPages` runs the union.

Assumptions: the named ASSUMEs of the modules, which the configurations satisfy, `TxLag = 0` for the two theorems on limits, and
`DistinctKeys` for the one on the balance. Every safety property of the passing runs is a theorem.
Only model-checked: the liveness properties (`CancellationSettles`, `OrphansRecover` and those of `pages_live`), since fairness is
out of the prover's reach.

## 6. Where the code and what it says disagree

**A late renewal makes a second live lease** (run `stale_clock`). `renew_job_lease` takes its clock at the
start of its transaction. If a lease expires and another worker claims a second job of that user before the
renewal commits, the renewal still finds its lease live by its own clock, and the user holds two live
leases on a queue whose claim says "Business queues admit one live lease per user"
(`workflow_repository.py:2348`).

**A yielded job hides its next execution** (run `slots_overcommit`). `_forget` drops what is recorded under a
job's id. A job that yields without delay (`raise JobYieldRequested()`) is queued again before its
`_execute` has returned; when the same process claims it again, the first future's callback removes the entry
of the second. The running job is no longer counted, so the worker claims beyond `max_workers`
although nothing waits for a model (`test_worker_leases.py:102-106`, `worker_wait_state.py:3-5`), and
shutdown does not wait for the uncounted execution (`_active_count`).

**An adjustment is applied twice** (run `adjust_twice`). `adjust` looks its idempotency key up, then locks the
account, and does not look again (`billing.py:425-440`). Two concurrent submissions of one form both find
nothing; the second adds the amount once more, and `_append` returns the first one's entry instead of
posting another. From then on the balance is not what `database.py:117` calls it, "derived from the immutable
credit ledger".

**The hold of a metered embedding is released** (run `embedding_hold`). `_linked_request` does not know the
reference type `embedding_model`, so reconciliation releases the hold of an embedding request that has
succeeded but is not settled yet, when its job has ended; the settlement is then refused and the answer is never
charged. `billing.py:113-114` says such a request "is deliberately left untouched so it can still be reconciled at
cost". For text requests the same property fails only in the window in which `account_summary` has read the
status and not committed (`SummaryReads`, `Finish`, `SummaryCommits`).

**An old answer erases a newer draft** (run `outline_erased`). The checkpoint of `useFormDraft` compares with the text its own page
showed last. The answer to a save whose page was left finds that text unchanged and clears the browser's copy (`useFormDraft.ts:20`), also when the next
visit has typed there. The editor still shows the edit, but it is gone when the page is left and opened again, against
"A successful save must not erase edits made while that request was running" (`useFormDraft.ts:16`) and "Unsaved edits are retained
when you leave this page" (`PlanningPage.tsx:637`). `SavesKeepLaterEdits` is what remains: the editor's copy is safe, and the stored one from the
answers of the visit that typed it.

**Prose is approved that nobody viewed** (run `approve_unviewed`). The server reads the prose of a draft before its revision
(`drafts.py:925`, `945`). If another writer publishes in between, the look of `approveCurrentDraft` gets the viewed prose with the new
revision, and the approval of that revision approves the new prose (`decisions.py:30-38`). `approveCurrentDraft.ts:13` says
"approve only viewed prose", its test at line 34 "never silently approves changed prose". Nothing weaker that is worth stating remains: without a
writer between the two reads the comparison decides.

**A late answer takes the key of another wish** (no run of its own; `UnansweredRewritesRunOnce` excepts `rekeyedWishes`). The answer to a
rewrite that was asked for before the page was left still stores its task, no submitted request and a new key (`ChapterRewrite.tsx:30`,
`useDraftScratch.ts:23-28`), over what a later visit has stored for another wish. Ask for wish 1, leave, type wish 2, the answer to 1 comes, ask
for 2 with the answer lost, leave, ask for 2 again: it goes out under another key and becomes a second task to be paid for, although the page says
that "retrying the same request keeps its original identity" (`ChapterRewrite.tsx:41`).

**A heading in the notes takes sections over** (no run of its own; `ModuleEditsKeepTheTree` excepts it). Notes are written into the outline
as they are (`OutlineBuilder.tsx:184`), and a line `## X` in them is read back as a section (111-116): typed into the notes of a chapter in the module
editor, it gets the chapter's subsections. `OutlineBuilder.test.tsx:19` says that editing "keeps IDs and nested headings". What remains of the
property for such a field is that only the typed headings take sections over (`NewParentsOnly`); that sections keep their identifiers holds with
them as it stands (`IdsSurviveEditing`).

**What the pages leave open.** Some behaviour was met that the properties except or do not state, and that is not a run of its own. Where a
GET reads an artifact before its revision (finals, figures, sections, reviews, and drafts beyond the approval above), a page can hold old content
with a new revision for one fetch. `SavesReplaceWhatWasEdited` excepts a title saved after such a fetch: the title of another writer is then
overwritten, although `DraftManuscriptFields.test.tsx:27` ("does not overwrite a concurrent title change") expects the page to
refuse; the test hands the page title and revision together, the server does not. The answer to a chapter message
resets the key and the text stored in the browser without looking whose they are, also when it comes after the user has left and begun another message:
a message that is then sent twice goes out under two keys and becomes two turns (`MessagesAreTakenOnce` excepts it through `rekeyed`). A record of the
library and an outline are saved whole, and the last writer wins. After a failed rewrite request the next wish goes out under the key of the
failed one and is refused if that had been taken. Decisions on candidates may partly fail. The hazards
without a property in `PROJECT.json` give the lines.

## 7. Abstractions, and what is not modelled

- A repository method is one step. The methods lock the rows they change or repeat their predicates in the
  UPDATE, under READ COMMITTED. One exception is known and is listed as a hazard: `request_job_cancellation`
  tries `queued` and then `running` in two UPDATEs.
- Payloads, progress texts and results are the generation that wrote them. Which claimable job
  `claim_next_job` prefers is left open; so is which handler runs.
- The three reasons of a yield that matter are kept: none, `model_waiting` (which a child may wake) and any other.
- The account exists from the start; amounts are units, not decimals. Image requests (a text request with a cache
  file and reference type `image_model`), delegation and the per-task budget of `_reserve_text_attempt`
  are not in `Gateway`; a refusal by the budget is one way a call fails.
- A job in `Gateway` and in a page module is its status only; `WorkerQueue` has the rest. `ended` is final: requeueing an
  interrupted job belongs to the compatibility executor, which alone sets the status `interrupted`; `JobTable` has no such status.
- A publication under a revision is one step in the page modules. In the code it is a transaction of several
  statements with a lease check in it; the parts (`workflow_repository.py` 830-1300) and the files behind
  artifacts are not modelled.
- A text, a record or a figure is what distinguishes it: the revision or number that made it, a few fields, one
  coordinate. The texts of outlines in `PlanningPage` are opaque; what is done to one is in `OutlineEditor`.
- Four simplifications of the pages. A save of draft fields or of a figure review that is stored with its answer lost is the step of another
  writer (`FieldsStored`, `FigureReviewStored`). Reloading the draft page drops the late answer to a save of the visit before
  (`ReloadDraft`). The reformatting of authors nobody touched is the identity (`FinalReview`). Which starter sections an outline lacks is left open
  (`AddStarterSections`).
- A page follows one project, paper list or chapter. That the user changes the project while a request is under way
  is left out (a hazard without a property).
- Health writes, logs, maintenance threads, HTTP validation, messages, layout, translations and access rights are left out.
- Library dialogues, which have no project whose lock orders their `created_at`, are not in a group.
- Parts of pages that are left out: the bibliography panel, composition panel, peer review, the dialogue on a single paragraph (the
  form of the chapter's), import from other libraries, deletion and archive, previews and readers. They send one request and
  refetch.
- Not modelled: text algorithms of `review_writer_core` and `skills/` (their data is the point),
  subprocess runners, PDF renderer, migrations, authentication (short sequential requests), the pages of
  administration, projects, settings and conversation (forms that show the answer to one request).

## 8. What is left

In the order of what it would add; none of it is a precondition of what is there.

1. `StageWorkflow`: compare-and-set, publication under a lease with the fence and the commit apart,
   invalidation. Abstract specification: a register with versions. To prove: nothing stale is published. The page
   modules could then refine it.
2. `Gateway`: image requests.
3. `VectorStore`: writer lease, snapshot publication, borrow, prune, crash; `ArtifactPublish`: two publishers, clean-up after conflicts.
4. `TextAdmission`: three quotas, resizing; liveness of a waiter.
5. `CompatExecutor`: schedule, forget, recover; `DelegatedModel`: the parent always resumes.
6. A finer `RequestCancel` (two UPDATEs) and the promise that a cancellation is not lost.
7. Two projects in one browser, for the requests that outlive a change of project.
