# Verification of wenmixiezuo

TLA+ models of the parts of wenmixiezuo ("问觅写作") that decide which work runs,
who may write its result, what the author pays for it, how a chapter passes from an
order to canon, how a chain of chapters is written and written back, and how the
setting editorial works off a batch; TLC configurations that check them; and TLAPS
proofs about the task runtime, the model calls, their composition, the chapter
pipeline, the creation chain and the calls of the setting editorial. Paths below are relative to the repository; line numbers are
those `PROJECT.json` ("map") lists for every definition. Source paths without a
directory are unique under `apps/api/src` or `apps/worker/src`.

    tlc -workers 2 -config TaskLife.cfg MCTaskRuntime     # a run, see section 3
    tlapm TaskRuntimeProofs.tla                           # the proofs, see section 5
    tlapm ModelCallsProofs.tla
    tlapm RuntimeProofs.tla
    tlapm ChapterPipelineProofs.tla
    tlapm ChapterDecisionProofs.tla
    tlapm CreationSteps.tla
    tlapm CreationChainProofs.tla
    tlapm SettingBatchesProofs.tla

## 1. Inventory

The program is two Node processes over one SQLite file (WAL, synchronous driver).
The **API** (`apps/api`) serves the author's routes, runs every pipeline and makes
every model call. The **Worker** (`apps/worker`) polls the database each second,
claims tasks, posts each to the API (`/internal/worker/tasks/:id/execute`), keeps
its lease alive while the request is open, and recovers leases that ran out. Both
are single threaded, so code between two `await`s, and between two database
transactions of one process, is interleaved only with the *other* process and cut
only by a crash.

| Component | State | Operations | Talks to | What must hold |
|---|---|---|---|---|
| Task runtime (`application/tasks`, `worker/scheduler`, `worker/runtime`) | tables `tasks`, `task_attempts`, `task_dependencies`; worker's `#inFlight` | create, queue, retry, confirm, cancel, pause, complete, fail, claim, renew, recover | Worker posts to API; both write the rows | one execution per book; a result only under a live lease; outcomes final; lost work recovered |
| Editor leases (`application/editors`) | `editor_leases`, `books.editor_epoch` | prepare and complete takeover, automatic takeover, safe revert | rewrites all open tasks of the book, reads model calls | no task of an old epoch writes; no sent call repeated silently |
| Model calls (`application/calls/model-call-service.ts`) | `model_calls`, `model_call_results`, `model_call_reconciliations`, abort controllers | execute, cancel, discard late result, reconcile, sweep | budgets; fence on the task row; Worker marks calls interrupted | charged once; not sent twice at a time; results of lost attempts isolated |
| Budgets (`application/budget`) | `budgets`, `budget_reservations`, `usage_ledger` | reserve, settle, release, revise limit | called by pipelines and model calls | limit kept; counters cover the rows; nothing frozen for ever |
| Chapter pipeline (`chapter-pipeline-service.ts`, `production-review-service.ts`, `manuscript-quality-snapshot-service.ts`) | `chapter_pipeline_runs`, `manuscript_versions`, hard checks, `review_panels`, `revision_orders`, quality snapshots | phases of one chapter: preflight, context, draft, hard check, review, rewrite, facts, settlement; resume, replace, fail | tasks, calls, writer and editor leases | every execution ends; what is offered for acceptance was checked and reviewed |
| Chapter batches, approval, owner manuscripts | `chapter_approval_gates`, `confirmations`, `chapters` | schedule, revise, request synthesis, accept, refuse, save or withdraw a draft, align the outline | the pipeline's run and task, canon | one text can become canon at a time; canon stays settled; no chapter waits for a decision nobody can take |
| Writer leases (`application/agents/writer-lease-service.ts`) | `writer_leases` | initialize, begin order, takeover, renew, resume | pipeline | a draft of a former writer is not registered |
| Tool calls | `tool_calls` | begin, execute, cancel | pipelines | one execution per idempotency key |
| AI node batches (`ai-node-*`) | batches, members, results | create, add, retry, replace member, run | tasks, calls | a queued member is run; results once |
| V7 creation and formalization (`v7-creation-workflow-service.ts`, `v7-managed-creation-service.ts`, `v7-creation-formalization-service.ts`, gateway and repository of both) | `v7_creation_workflows`, `v7_manuscript_versions`, `v7_creation_model_calls`, `v7_managed_creation_runs`, `v7_formalization_outbox`, `v7_chapter_settlements`, `v7_character_maintenance_runs`, `v7_creation_stage_jobs`; in memory: the batch in flight, maintenance runs, the drain | generate and review a manuscript, finalize, process a batch of events, look at a maintenance run, refresh the workflow; activate, claim, release, cancel | Worker asks for batches each five seconds, routes do the same; both halves write the workflow row | what is final was reviewed; every final chapter is written back once; a chain is completed only when it is written back; nothing is ordered twice |
| Setting editorial (`v7-setting-editorial-service.ts` and repository) | `v7_setting_items`, `v7_setting_batches` with a lease, `v7_setting_item_jobs`, `v7_setting_model_calls`; in memory: a queue per writer | create a batch, claim and reclaim it, ask members, hand over, repair, retry, confirm | the page polls the batch, which is all that takes it up again | one request per task; known outcomes stay; a polled batch ends |
| Canon and projections | canon revisions, index requests, projection outbox | settle, claim, build, supersede | Worker loop | an index of a superseded revision is not published |
| Membership, accounts | memberships, sessions, usage view | grant, revoke, gate | every generation route | the allowance gates every call |
| Promotion, backup | files, `operations`, `file_registry` | stage, promote, recover | chapter approval | a promoted file is registered or recoverable |
| Planning, discussions, ideation, knowledge, characters, continuity, memory, continuation | versioned documents | pipelines over tasks and calls | the services above | revision checks |
| Routes, presentation, events, front-ends, scripts | none of their own | | | |

What makes this code hard: two processes decide from reads that are no longer true
when they write (`recoverExpired`, `requestCancel`); executions outlive their lease
and go on in the API; a provider's answer arrives after its task was cancelled,
claimed anew, or taken over by another editor; a handler dies between two
statements; rows of several tables must move together in transactions that do not
cover all of them; and money follows each of these paths. `PROJECT.json` ("hazards")
lists each place, with the properties that would notice it going wrong.

## 2. Modules

| Module | Models | Code |
|---|---|---|
| `TaskRuntime` | rows, attempts, dependencies, editor epochs, Worker and API memory | `task-service.ts`, `task-claimer.ts`, `worker-loop.ts`, `editor-lease-service.ts`, ends of `chapter-pipeline-service.ts` |
| `ExclusiveExecution` | *abstract*: numbered rights to write, one per book | what `TaskRuntime` promises |
| `ModelCalls` | calls, results, reconciliations, reservations, ledger, budget, statement-by-statement handlers | `model-call-service.ts`, `budget-service.ts`, `finishCancelledModelCalls`, the call part of `recoverExpired` |
| `CreditLedger` | *abstract*: hold, charge once, or set free, within a limit | what `ModelCalls` promises |
| `Runtime` | composition of `TaskRuntime` and `ModelCalls` (both by INSTANCE) | the fence of `execute`, `executeModel`, cancel route, safety of a revert, recovery of a task with its calls |
| `ChapterPipeline` | one chapter: its run through the phases, texts, panels, orders, gates, its tasks, and what the author does between executions | `chapter-pipeline-service.ts`, `production-review-service.ts`, `production-workflow-repository.ts`, `chapter-approval-service.ts`, `chapter-batch-service.ts`, `owner-manuscript-service.ts`, the chapter routes |
| `Formalization` | the write-back: outbox, settlements, maintenance runs, stage jobs, the batch in flight, the workflow row as `refreshWorkflow` computes it | `v7-creation-formalization-service.ts`, `v7-character-memory-service.ts` as far as a maintenance run needs it, outbox part of `v7-creation-runtime-repository.ts`, `v7-formalization-executor.ts` |
| `CreationChain` | EXTENDS `Formalization` with the texts, calls and generations, the managed run, the author | `v7-creation-workflow-service.ts` from `generateManuscript` on, `v7-managed-creation-service.ts`, `v7-creation-model-gateway.ts`, their routes |
| `SettingBatches` | entries, batches with lease and token, jobs, calls by logical task, executions with a queue per writer | `v7-setting-editorial-service.ts`, `v7-setting-editorial-repository.ts`, the polling of `SettingPage.tsx` |
| `MCTaskRuntime`, `MCModelCalls`, `MCRuntime`, `MCChapterPipeline`, `MCCreation`, `MCSettingBatches` | constants for TLC | |
| `TaskRuntimeProofs`, `ModelCallsProofs`, `RuntimeProofs`, `ChapterPipelineProofs`, `ChapterDecisionProofs`, `CreationSteps`, `CreationChainProofs`, `SettingBatchesProofs` | theorems | |

How state corresponds to code:

* `row[t]` is a row of `tasks`: status, `cancel_requested`, `required_editor_epoch`,
  `current_attempt_no`, `lease_token`, and the lease as *none / live / expired*. A
  token is a fresh UUID for every claim and is modelled by the number of the attempt
  it was made for. `attempt[t][n]` is `task_attempts.status`, `editor[b]` the lease
  of the book's editor and its epoch.
* Time is a step: `LeaseExpires` may happen to any live lease at any moment (a
  paused process, a slow event loop); a successful renewal changes nothing.
* `inFlight` and `runs` are the Worker's set of task ids and its unsettled `run()`
  promises, two different things in the code as well; `expired` the rows
  `recoverExpired` has selected and not handled; `execs` the `executeClaimed` calls
  alive in the API, however stale; `api` a handler between two statements. An end of an
  execution is two of them: `EndExecution` writes the row and releases its lease,
  `CloseAttempt` closes the attempt; a crash may come between the two, and so may the
  Worker, and the attempt then stays open under a row that ended.
* In `ModelCalls`, `thread` is the statement the running handler has reached. Only
  statements in one transaction share an action; a crash (`ApiCrash`) or the Worker
  (`WorkerInterrupts`) may come between any two others. A provider's answer is any
  usage, a definite failure, or an unknown outcome.
* `Runtime` replaces what the two modules take as arbitrary by what the other tables
  say: whether a call of a task is working or unresolved, whether a revert is safe,
  whether the fence of an answer holds. `sentBy` and `madeFor` are the execution a
  request comes from and the attempt whose token it carries; the two differ because
  `executeModel` reads the token anew instead of using its own. A task that is
  completed with a cancellation requested ends its working calls in the same handler
  (`CancelCalls`).

* In `ChapterPipeline`, `run` is the chapter's row of `chapter_pipeline_runs`, `exec`
  the `executeClaimed` that holds the task and the point it has reached: `loop`
  between two phases, `draft`, `rewrite`, `seats`, `synthesis` while it awaits a
  model, `candidate` between a stored answer and its registration. Everything between
  two awaits is one step unless it is more than one write whose halves can be seen: an
  error between them (`MergedOnly`, `MergeRefused`, `CopyrightBlocked`,
  `RewriteReceived`), or the death of the process (`OrderOnly`, between a merge's order
  and the end of its panel; `RestoreOnly`, among the four statements that restore an
  ancestor). `stale` is an execution that
  lost its task and still awaits an answer. Texts, panels and tasks are numbered. A
  text is what the hard checks say of its own words (`grade`: *sound*, *near*, *far*,
  *broken*), whether it clashes with the canon of the chapters before it (`clash`: any
  text may come to clash, or cease to, whenever another chapter settles), and what is
  on record of its checks: whether one passed, whether one failed, and which was last,
  the three things the code asks. A panel is the set of outcomes its reports
  may have (`Outcomes`). A gate is its row and whether its confirmation is still
  pending (`open`). The constant `Scenarios` lists what may be asked for, which
  disturbances (`Events`) may happen and how often; a behaviour picks one at the start.

* In `Formalization`, an event is its status and the attempts it has used; `batch` is
  the promise `activeRun` and the rows it read when it began (`todo`), the ones it has
  leased (`open`) and the step of the chapter under way. `running` are the maintenance
  runs this process executes, `child` their rows: the two differ after a crash and
  after a look through the second service instance of the routes. Writes that follow
  one another without an await are one turn of the event loop; where they are several
  transactions, `turn` names the write still to come, and nothing but a crash may come
  before it. Each editor of a fallback chain has one call per chapter, for its request
  carries no attempt number.
* In `CreationChain`, `gen` is a `generateManuscript` in progress, one of the managed run
  and one of the author: they share workflow row, texts and calls. `drain` is the loop
  of the managed run and whether it still owns the lease it claimed. `text` holds the
  verdict its review stored and, for a final text, the receipt of its finalization. A
  call is kept by the request it was made for, which is what the gateway compares.
* In `SettingBatches`, the token of a lease is the number of the execution that claimed
  it; an execution that lost it stays alive, like in the code. A logical task is a
  batch, the entries asked about, the node and the writer; `out` counts its requests
  that the provider still works on. Code between two awaits is several steps here, but
  only a crash comes between them (`AllAwait`). The exclusion of the chief's model and
  the roster's size are abstracted to a chain of writers; one chief and one group of
  the catalogue stand for all.

An operator marked `Defect` is a definition with a plausible mistake in it, next to
the definition it is a variant of. Nothing uses these; replacing the definition
by its defect makes the property `PROJECT.json` ("mutants") names fail, which shows
that the property depends on that piece of code.

## 3. Runs

| Run | Question | Instance | States |
|---|---|---|---|
| `TaskLife` | Do row, attempts, lease and epoch of one task stay consistent, are outcomes final, do results need a live lease, is a task whose worker run is gone always released? | 1 task, with an executor or of a type without one, 3 attempts, 3 epochs | 154 k |
| `TaskBook` | Is a book executed by one task at a time, do dependencies hold, does the runtime implement `ExclusiveExecution`? | 2 tasks of a book, 1 attempt each, 2 epochs, 2 slots | 861 k |
| `CallsRetry` | Is each answer charged once, no input sent twice at a time, nothing taken back; do the counters cover the rows, are the calls a `CreditLedger`, are abandoned tokens freed? | 3 requests of 2 tokens, two with the same input, one of them local; limits 3 and 5, usages 1 and 3 | 135 k |
| `RuntimeCalls` | Does the safe return to the chief editor lose no answer that could be committed, and leave no task going on with an open or unknown call; is a sent call never repeated silently? | 1 task, 2 interchangeable calls, 2 attempts, 3 epochs | 4.49 M |
| `ChapterLife` | Does every execution of a chapter end, has every rewrite a cause on record, is the text offered for acceptance the one shown? | 1 production task, 3 executions, 3 texts (sound or near), 2 panels; failures and edits | 1.08 M |
| `ChapterRevise` | Is what the author may accept checked, reviewed, and the only one; does canon stay settled while it is revised; is a request for the synthesis served, and does no chapter await a decision nobody can take? | five scenarios: 1 production task, 7 executions, 1 text, 3 panels, everything but edits; 1 task of any operation, 4 executions, 2 texts, 2 panels, with lost leases, crashes and edits, once among other chapters and once with cancellations; 2 tasks of any operation, 4 executions, 3 texts, 2 panels, 2 canon revisions, edits; 2 tasks that produce or review, 5 executions, 2 texts, 2 panels, 3 canon revisions, other chapters | 8.88 M |
| `Creation` | Is nobody asked the same twice while an answer may be out, was what is final reviewed, is every final chapter's write-back queued? | 1 chapter, 2 writers, 2 texts, 4 calls; call failures and unknown results with a crash or with cancellations; the author beside the managed run | 3.03 M |
| `WriteBack` | Is a chain completed only when everything is written back, is nothing written back twice, are chapters written in order, are events worked off? | 1 chapter with failures or unknown results; 2 chapters with looks at runs or crashes; 2 editors, 2 attempts | 397 k |
| `SettingLife` | Is no task with the provider twice, do known outcomes stay, does a polled batch end? | 1 batch, 2 entries, 2 writers, 2 executions alive at a time, 1 crash; five scenarios of troubles | 1.00 M |
| `SettingHandover`, `EndedCallsBroken`, `AlignmentBroken` | what section 4 says | | |

Why these bounds are enough for the cases that matter:

* *Three attempts, three epochs of one task* is the smallest instance with a stale
  execution, its successor, and a second successor that the first stale one could be
  taken for; chief → deputy → chief is a full circle of takeovers.
* *Two tasks of one book* is what exclusivity and a dependency need; two slots let
  one Worker run both. One attempt each suffices there, for the repeated attempts of
  a task are the subject of `TaskLife`; the proofs cover every combination.
* *Three requests, two of one input*: a duplicate, a reuse and a conflict need two;
  the third is the parallel review that shares the task. A limit of 3 admits the
  second only after the first ended cheaply, a limit of 5 two at a time, and the
  author may change it; a usage of 3 exceeds what was frozen.
* In `Runtime`, two calls over two attempts and two takeovers (three epochs: to the
  deputy and back) give a stale call next to a fresh one and every order of takeover,
  return, recovery, answer and sweep around them.
* *A chapter* pauses after the reports of each panel, so an acceptance takes two
  executions and an accepted rewrite four. `ChapterLife` has a draft, its rewrite,
  the repair of the rewrite, and the restored text after it; the first scenario of
  `ChapterRevise` reaches the limit of three reviews of one text, which takes seven
  executions; the second and third take one task of any operation through lost leases
  and deaths between two writes; the fourth has a chapter accepted, and its canon text
  reviewed or rewritten and accepted or refused again; in the fifth that text is sent to
  review after another chapter was settled, fails its check now, and is rewritten,
  rejected or restored. *Near* and *broken* are the two ends of the
  repairs; *far* is repaired like *near* by `HardCheck` and refused like *broken* by
  `Candidate`.
* *One chapter in `Creation`*: everything about texts, calls and the cancellation of a
  run concerns one chapter; two texts let the second pass and a second generation meet
  the first, two writers let a call be passed over, four calls are writer and reviewer
  of both passes. *Two chapters in `WriteBack`* are what order, and one batch of several
  chapters, need; two attempts separate the first failure from the last.
* *Two entries and two writers* are the smallest group, hand-over and group that falls
  apart; two executions of a batch are the one that lost its lease and its successor.

Bounds are `MaxAttempts` (guard of `ClaimNext`), `MaxEpoch` (guard of
`PrepareTakeover`), `NumTasks`, the sets `Requests`, `Limits` and `Usage`; for a chapter
the numbers in `Scenarios` (tasks in `Create`, executions in `Claimable`, texts in
`Promoted` and `SaveDraft`, panels in `OpenPanel`, revisions in `Accept` and
`OtherChapterSettles`); for a chain `MaxTexts` (`Written`) and `MaxCalls` (`AskWriter`,
`AskReviewer`), while `MaxAttempts` there is the code's own limit of three, made
smaller; for settings `NumBatches` (`Fresh`), `NumRuns` (`Claim`) and `MaxCrashes`. Deadlock is checked where
processes can always crash (it says little there) and not for chapters, chains and
batches, which come to rest when they are settled.

### Fairness

`TaskRuntime!FairSpec`: a synchronous handler finishes (weak fairness of
`CancelWrite`, `CompleteTakeover`, `CloseAttempt`); the pump runs on a one-second timer, so expired
leases are read (`ReadExpired`, weak); the transaction of a row that is read again
and again is reached (`RecoverAny(t)`, strong: a Worker that dies in exactly that
window each time is excluded); a lease nobody renews runs out (weak, by the clock).
Nothing is assumed of authors, executions, crashes, or leases that are renewed.

`ModelCalls!FairSpec`: a handler that runs goes on (weak); the sweep, called at every
start and every five minutes, handles a row it selects again and again (strong).
Nothing is assumed of providers, authors, crashes or the Worker.

`ChapterPipeline!FairSpec`: an execution takes its next step (weak fairness of
`Execute`): code between awaits runs, and each await ends, by an answer or by the
deadline every model call has. Nothing is assumed of authors, the Worker or leases.

`CreationChain!FairSpec`: a turn of the event loop ends (weak). The batch, the worker's
request for one, the drain and each maintenance run take a step they can take again and
again (strong: the event loop serves them in turn, calls and runs end by an outcome or
a deadline, the worker ticks every five seconds, and another turn in between does not
put them off for ever). Nothing is assumed of authors, generations or crashes;
`EventsAreWorkedOff` is claimed when no crash happens, the author comes to rest, and no
maintenance run fails for ever after its event was deferred (the gap below).

`SettingBatches!FairSpec`: a page that shows a batch polls it every 1.2 seconds (weak,
`Poll`); a lease nobody renews runs out (weak, by the clock); a queue goes on, an answer
or a deadline ends each await, and an execution whose queues are done ends (weak).
Nothing is assumed of authors; `BatchesEnd` is claimed when retries end at some point.

## 4. What the code does not keep

Three runs expect a violation; each checks what a comment or an answer of the program says:

| Run | Statement | What happens |
|---|---|---|
| `EndedCallsBroken` | `model-call-service.ts:46`: a failed or interrupted call no longer blocks the same input | `UNIQUE(task_id, phase_key, model_snapshot_id, input_hash)` rejects the INSERT; the reservation waits for the sweep |
| `AlignmentBroken` | `domain-routes.ts:2339`: after the outline was aligned, the current text must be sent to the three reviewers again | the route supersedes the text's confirmation and leaves its gate `awaiting_owner`: `finalize` answers with the gate instead of scheduling a review, accepting or refusing fails on the confirmation; only saving or withdrawing a draft leads out |
| `SettingHandover` | `v7-setting-editorial-repository.ts:377`: after an interruption whose result nobody knows, automatic retries have stopped ("已停止自动重试") | the next poll takes the batch up, and an entry whose request is unaccounted for goes to another writer when the group is assigned anew (`v7-setting-editorial-service.ts:1226`) |

### Known gaps

Behaviour the models keep and no run is spent on. The first four contradict a
document as well; each is stated as a property at the end of its module
(`DiscardedStaysDiscarded`, `UnknownResultsWait`, `QueuedTasksMatchTheEpoch`,
`CancelRequestsAreNotRequeued`), and TLC refutes it within seconds under the constants
of `CallsRetry`, `RuntimeCalls` and `TaskLife`:

* `docs/SECURITY_AND_OPERATIONS.md:51` says a late result only enters the isolated
  record; the reconcile route finds the discarded result and makes the call a
  reusable success (`model-call-service.ts:348`).
* `docs/ARCHITECTURE.md:38` says an unknown result freezes its task until reconciled;
  a takeover queues a task whose call is `interrupted` and awaits the provider
  (`editor-lease-service.ts:240`); only `recoverExpired` looks at that.
* `task-service.ts:135` says a retried task makes model calls again; one that failed
  before a takeover is queued under the old epoch and no claim takes it
  (`editor-lease-service.ts:252`).
* `task-state.test.ts:103` says a task cancelled while working ends cancelled; a request
  that arrives after `recoverExpired` read the row, or before a takeover, leaves a
  queued row with `cancel_requested = 1`, which no claim takes (`task-claimer.ts:160`).

The others:

* A rejected text may stand at a gate, where the author can no longer accept it.
  `restoreBest` rejects the text that lost without closing the gate of an earlier task
  that offers it. It takes a second task whose rewrite answers the words of that older
  text (`promoteManuscript` then returns it, still a candidate): three texts and four
  panels, past the bound of `ChapterRevise`. With three tasks and texts and five
  panels TLC finds a step that does it after 51 others; `GatesAreReviewed` therefore
  claims no status, and held, as the other invariants of `ChapterPipeline` checked
  there did, in the 29 million states of that instance explored. Read from the code,
  reached by no run: `nearestHardValidAncestor` (`chapter-pipeline-service.ts:724`)
  does not look at the status of the ancestor it restores either.
* `takeover_state = 'ready'` survives a crash between the two transactions of a
  takeover; every later takeover of the book is refused (`editor-lease-service.ts:305`).
* A run of a lost claim that settles late removes the task id of the *newer* run from
  `#inFlight`; more tasks than `WENMI_WORKER_MAX_CONCURRENCY` may hold leases
  (`worker-loop.ts:100`).
* A task claimed between the read and the update of `requestCancel` is cancelled with
  its attempt open and its token in the row (`task-service.ts:349`).
* The end of an execution is an UPDATE of `tasks` and then one of `task_attempts`,
  without a transaction around them (`task-service.ts:328`, `:364`, `:397`, `:416`,
  `chapter-pipeline-service.ts:186`). A crash of the API between the two leaves an
  attempt `working` under a task that succeeded, waits, paused or failed, and nothing
  but the next takeover of the book closes it; a retried task then has two open
  attempts. Nothing decides on the attempt, so no result is lost or written twice; it is
  why no property says that only the latest attempt is open, and why
  `ImplementsExclusiveExecution` reads what was delivered from the row.
* Two writes that follow one another in a phase may be cut by a crash. After the first
  statement of `restoreNearestHardValidAncestor` the run is still about a text that is
  rejected (`chapter-pipeline-service.ts:707`), and after the third the chapter shows
  the ancestor beside it. When the task is recovered the text is checked or written
  anew; should its clash with an earlier chapter be gone by then, the rejected text is
  reviewed, and stands at a gate where it cannot be accepted.
* The canon text of a chapter can be rejected. After an earlier chapter was revised, the
  canon text sent to review may fail a check it once passed; when the writer answers
  with the same words, or the rounds are used up, `restoreNearestHardValidAncestor`
  rejects it without a look at whether it is canon (`chapter-pipeline-service.ts:707`).
  The chapter stays settled, with a canon text of status `rejected`. It is why
  `CanonIsSettled` excepts texts that failed a check.
* A call left `pending` by a crash, or a second `working` call of a recovered task
  (`LIMIT 1`), keeps its tokens; the sweep looks at interrupted calls and at
  reservations without a call (`model-call-service.ts:410`, `task-claimer.ts:153`).
* A crash inside `finishCancelledModelCalls` frees the reservation and not the
  counter: `budget.reserved` may exceed the rows for ever. `CountersCoverRows` states
  the direction that does hold.
* The commit fence does not look at `cancel_requested`: a call sent after the request
  is committed, and the task is then closed as cancelled (`model-call-service.ts:158`).
* A usage above what was frozen is refused and recorded nowhere (`budget-service.ts:109`).
* A failed run is given to the next task of the chapter; when the first task is
  retried it takes the run back. With failures and several tasks this leaves two gates
  of one task, both acceptable (the older one is never superseded), and a retry after
  an edit of the author asks acceptance of the older text while the chapter shows the
  newer (`chapter-pipeline-service.ts:1664`). It also lets the older gate be refused
  while a new text of the run is reviewed, which sends that text to a rewrite nobody
  ordered, and an unchanged answer then asks acceptance of it with an unfinished review.
  From a state two executions after such a failure TLC finds each of `OneAcceptable`,
  `AskedIsShown`, `GatesAreReviewed` and `RewritesHaveACause` violated within 23 steps.
  They are therefore checked where no task with a gate takes its run back, and proved
  under exactly that condition (section 5).
* A cancelled task that waited for confirmation leaves its gate `awaiting_owner`: it can
  be refused, not accepted (`task-service.ts:350`).
* Another chapter's order takes the writer; a paused or failed run of this chapter then
  cannot be resumed at all, and its task fails at every retry
  (`chapter-pipeline-service.ts:1640`).
* Sending the canon text itself to review ends in an error after the reviews were
  paid: the gate of a settled text is not taken again (`production-workflow-repository.ts:325`).
* A text sent to review that fails its hard checks is rewritten automatically and
  replaced as the current text, although a review rewrites nothing otherwise
  (`chapter-pipeline-service.ts:2302`).
* A panel whose three reports are complete is still offered for a retry as an
  incomplete review (`task-service.ts:198`).
* The catch block of a stale execution marks the run and the chapter failed while the
  successor works on them (`chapter-pipeline-service.ts:180`).

Of the V7 chain:

* An event or a stage job that a crash leaves `working` is offered by no query
  (`v7-creation-runtime-repository.ts:1031`) and reopened by no activation, which looks
  at failed ones; `docs/API.md:131` and `docs/DEPLOY.md:183` promise the opposite. The
  branch of `leaseEvent` for an expired lease is never reached.
* A call that failed is not repeated under the same attempt number, and the number is
  that of the texts there are: when every writer failed once, an activation with another
  first writer calls nobody (`docs/API.md:127` offers it as the way out).
* A generation of the author that fails sets the stage of the whole creation, whatever
  chapter it was about (`v7-creation-workflow-service.ts:1054`): the managed run may then
  write the next chapter before the write-back of this one is complete. `ChaptersInOrder`
  is checked and proved without the author's generations.
* A maintenance run that fails after its event was deferred is started again at no cost
  in attempts (`v7-creation-formalization-service.ts:392`), and a deferred event stays
  the oldest one, which is all the worker's batches of one event look at.
* A look at a maintenance run through the second service instance marks the working run
  as of unknown result; its result is stored when it ends all the same.
* A crash between the transaction of a finalization and the write of the workflow row
  leaves the stage at the confirmation of a text that is final.
* The end of a batch the managed run waited for sets the status `working` over a
  cancellation (`v7-managed-creation-service.ts:200`).
* Stage jobs that become due with the last event are worked off only when somebody asks
  for another batch.

Of the setting editorial:

* A second batch, or a late retry, designs an entry anew that the author confirmed
  meanwhile; `docs/API.md:84` excludes it. The final review overwrites confirmations in
  the same way.
* A retry while another queue of the batch works ends the batch as *awaiting the author*
  with queued entries that no poll takes up (`v7-setting-editorial-service.ts:432`).
* What an execution writes after it lost its lease is not fenced by its token.
* An entry left `working` after an unknown result is refused by every retry; so is one
  whose failed call was retried technically and answered, when the API died before the
  answer was stored (`:1705`).
* The check for unknown calls before a retry looks at single entries and misses calls
  about a group.
* The author's own text of an entry is stored after its batch was created; a crash in
  between loses it (`:478`).

Seen and not modelled: a claim of the canon index is given up after 60 seconds while
the API still builds (`canon-index-task-executor.ts:60`); a crash between the rename and
the registration of a promoted file (`promotion-service.ts:92`).

## 5. What is proved

Every theorem holds for all values of the constants, under the assumptions its modules
name and no others.

### Task runtime (`TaskRuntimeProofs`)

For any number of tasks, books, attempts, epochs and slots, under `CountsAssumption`
(the numbers are naturals, at least one slot), `BooksAssumption` (every task has a
book) and `TypesAssumption`:

| Theorem | Establishes |
|---|---|
| `InductiveHolds`, `TypeCorrect` | `Inductive`, and with it `TypeOK` |
| `LeasesMatchRows`, `WorkIsCurrent`, `DependenciesHold` | `WorkingRowsCarryTheirLease` and `AttemptsMatchTheRow`, `WorkingInCurrentEpoch`, `DependenciesSucceeded` |
| `BookIsExclusive`, `OneWriterPerBook` | `OneLiveTaskPerBook`, `OneExecutionCanCommit` |
| `OutcomesStay`, `ResultsAreFenced` | `OutcomesAreFinal`, `ResultsNeedALiveLease` |
| `Refinement` | `Spec => Abstract!Spec` |

**The invariant.** Exclusivity alone is not inductive. That a second lease of a book
cannot be given is `Claimable`, which looks at *working rows with a live lease*; so
it must be known that a live lease sits only in a working row
(`WorkingRowsCarryTheirLease`). For this, every end of an attempt must clear the
lease, and recovery must write the row it read: its token and number identify the
attempt. What the attempts say of the row is `AttemptsMatchTheRow`: a success is that of
the last attempt and of a row that succeeded; an attempt may stay open under a row that
ended, for its closing is a second statement (`CloseFollowsTheRow` says that this
statement finds the row as the first one wrote it). Takeover moves the epoch under working rows,
and so must end them (`WorkingInCurrentEpoch`). A success is never taken back only
because a cancellation that was decided on an older read did not see one
(`CancelSeesUnfinishedTask`): between its read and its write only the Worker runs, and
no step of the Worker completes a task. `DependenciesSucceeded` rests on that.
`TakeoverHasNextEpoch` and `UnusedRowsWereNeverClaimed` carry types and numbering.
`Inductive` is the conjunction; `InductiveHolds` proves it with one lemma per action or group of actions.

**Action properties and refinement.** The second half of the module first shows that every
step is of one of a few kinds in terms of what the abstract specification can see
(nothing, lease lost, attempt ended under its lease, several leases of a book lost at
once, a claim); the action properties and the abstract step follow from the kind.
A step that ends several leases maps to one abstract step because a book has at most
one: exclusivity again. The mapping reads everything from the row, `holder` from its
lease and what was delivered from its status, for the statement that releases the lease
is the one that delivers; closing the attempt is a stutter.

### Model calls (`ModelCallsProofs`)

For any requests, keys, amounts and limits, under `AmountsAssumption` (amounts are
naturals), `KeysAssumption` and `FinitenessAssumption` (the tables have finitely many
rows; without it a sum over them says nothing): `TypeCorrect`, `ChargedOnce`
(`ResultsAreChargedOnce`), `SuccessIsCharged` (`SucceededCallsAreCharged`),
`NoDuplicates` (`NoConcurrentDuplicates`), `SentCallsStayFrozen`, `OutcomesStay`
(`OutcomesAreFinal`), `CountersCover` (`CountersCoverRows`) and `CallsAreALedger`, that
the calls implement `CreditLedger`. The invariant adds to these what makes them inductive: result,
reservation and ledger of a request move together; a call that was given up holds no
reservation; the call a handler is in the middle of is the one it holds, and is alone
under its key between its check and its insert; a cancellation that is being written
has found what it will release.

**The sums.** The counters of the budget are compared with sums over the requests. The
laws of a fold need an induction over an operator, which the prover cannot do, so
`Total` counts tokens one by one: it is the cardinality of the set of pairs of a request
and a number up to its amount, and the library's theorems on cardinalities say that it
splits over disjoint sets (`TotalSplits`) and depends on the amounts of the set alone
(`TotalAgrees`). Every statement of `ModelCalls` writes at most one request's row, so one
lemma (`CountersStep`) compares the counters with the sums of both sides of a step.

**The counters.** `CountersCoverRows` is not inductive: `finishCancelledModelCalls`
releases the row first and lowers the counter with a second statement, which is right
only if the released tokens are still on the counter. `CountersCoverCancellations` says
that they are. The sum of what was charged is exact; the counter of what is frozen is an
upper bound only, for a crash between those two statements leaves it too high and none
leaves it too low.

**The ledger.** A hold is a reservation: *held*, *charged* or *free* when it is reserved,
settled or released. The guard of the abstract `Hold` compares the limit with the rows,
that of `budgetService.reserve` compares it with the counters; it is `CountersCover` that makes
the second the stronger one. The limit is revised against the counters as well
(`CommittedCovered`). `HoldsKept` covers the steps that move no reservation, crashes
among them. That a settlement replaces a charge of nothing, so that the sum grows by the
tokens used, is `ResultsAreChargedOnce`.

### Tasks and their calls (`RuntimeProofs`)

For any tasks, requests, attempts and epochs, under `RequestsAssumption` (a call is of
a task): `TasksRun` and `CallsRun` (`Spec => TR!Spec`, `Spec => MC!Spec`), so that what
is proved of each part holds of both together; `OneAttempt` (`OneAttemptMayCommit`) and
`SentCallsAreNotRepeated` (`NoSilentResend`). `OneAttempt` speaks of several tasks of a
book and is not checked by a run of its own: with the one task of `RuntimeCalls` it says
nothing. The first two go action by action; the
only fact they need is that what the Worker has read to recover are tasks. For the
other two the invariant `Leases` is enough: a lease sits in a working row, and a book
has one live lease. It is proved anew and needs neither types nor bounds. The token a
call carries may be that of another execution than the one that sent it; the fence
compares it with the row, and of the rows of a book only one passes. A step that queues
a working task is `CompleteTakeover` or `RecoverRow`, and both read the calls in the
state they write.

### Chapter pipeline (`ChapterPipelineProofs`, `ChapterDecisionProofs`)

For every set of scenarios, whatever the operations, disturbances, grades of texts and
bounds (`ScenariosAssumption` says no more than that they are of these types):

| Theorem | Establishes | Under |
|---|---|---|
| `InductiveHolds`, `TypeCorrect` | `Inductive`, and with it `TypeOK` | |
| `CanonStaysSettled` | `CanonIsSettled`: settled, and not rejected without a check that failed | |
| `AwaitingHasAGate` | `AwaitingHasGate` | |
| `RequestsServed` | `RequestsAreServed` | |
| `OfferedPassed` | every gate that awaits the author is of a text that passed its checks | |
| `RecordsAreKept` | what no step takes back: texts, authors, checks that passed or failed, rejections, reports, syntheses; canon, but for a text with a failed check; who the run belongs to | |
| `GatesReviewed`, `OneIsAcceptable`, `RewritesCaused` | `GatesAreReviewed`, `OneAcceptable`, `RewritesHaveACause` | `[][NotReturned]_vars` |
| `AskedAsShown` | `AskedIsShown` | `[][NewestFirst]_vars` |

**The invariant.** `Rows` and `References` are the types and what the tables name in each
other. `Executing` ties an execution to its task and to the run, and, while it waits for
a review, to a text that passed and a panel of that text. `Checked` says that what is
reviewed, preferred, recorded or offered passed a check: one that is on record, for the
text may clash with an earlier chapter since. A check on record stays there, so
only the steps that choose another text can break this, and these choose by
`NearestPassed` (an ancestor that passed), `best` (recorded by a merge, of a text under
review) or the text that was just checked. That the last check decides, and not any, is
in the rows: a text whose last check failed has a failure on record (`TextRow`), which is
what `RestoreAncestor` needs to be no exception to `CanonIsSettled`. `Settled` is what
else that property needs: a
task that is no revision must not write into a chapter that was settled meanwhile. It
holds because such a task, when its chapter is settled, has no text and no writer, and
the only phase it can still pass is the preflight that ends it. Without this the step of
`Facts` could set a settled chapter back to awaiting. `AwaitingHasGate` and
`RequestsAreServed` are conjuncts of their own. There is one lemma per action;
`PhaseKeeps`, `FailureKeeps` and `RuntimeKeeps` are the three shapes most steps have.

**Decisions.** `Decided` adds what a gate shows and why a rewrite happens: the gate of
the run's task is where the run stands, at the text and panel of the run (`Offered`);
what an execution waits for belongs to its phase (`InPhase`); a text that comes to facts,
or back to rewrite after a last check that passed, with a panel has a finished one of its
own (`Merited`); a rewrite has its cause (`Caused`), and an order is a cause of a text
that passed: a restoration cut off after it cancelled the order of a text leaves the
failed check that began it. It is inductive as long as no task takes the run back while a gate
of it awaits (`NotReturned`), and not without: that is the gap of section 4, which the
theorems state as a hypothesis about the behaviour and not as an assumption on
constants. Every behaviour with one task meets it, and so does, by TLC, every step of
the five scenarios of `ChapterRevise`, two tasks handing the run to and fro among them.
`Agreed` is about the chapter's current text: the newest task alone is at work or awaits
the author, and the run, or the task that is still to take it, is about the text shown,
about none, or about canon, unless that text is rejected: a restoration cut off by a
crash leaves it with the run, and since nothing takes a rejection back (`RecordsAreKept`)
it cannot be accepted. It needs that older tasks are not retried (`NewestFirst`,
which implies `NotReturned`: `NewestMeansNotReturned`); `ChapterLife`, where
`AskedIsShown` is checked, has one task. `Inductive`, `Decided` and `Agreed` were each
checked by TLC before they were proved.

### Creation chain (`CreationSteps`, `CreationChainProofs`)

For every outline, every fallback chain of writers and editors, every limit on
attempts, texts and calls, with all troubles at once, under `ChainAssumption` and
`WritersAssumption`: `TypeCorrect`, `FinalsReviewed` (`FinalsWereReviewed`),
`WriteBackQueued` (`WriteBackIsQueued`), `CompletedIsSettled` (`CompletedMeansSettled`),
`CompletedHolds` (`CompletedStays`) and `NothingTwice` (`NothingIsOrderedTwice`); and
`ChaptersFollow` (`ChaptersInOrder`), for the behaviours in which the author writes no
chapter alone (`[]AuthorRests`).

`Inductive` has five parts. `Texts`: what was lifted from draft had passed its review.
`Making`: a generation that goes on is about a chapter of the outline, and from its
draft on about a text of the table; the workflow names a text there is. Without it the
text a reviewer's verdict is stored for, or the one a managed run finalizes, could be
any. `WriteBackRows`: settled chapters are final, aggregated ones are settled, the
outbox has exactly the rows for both, and a settlement is completed only with its
aggregation. `BatchRow`: what a batch has still to do is offered, what it does is
`working`, each event once, and a settlement under way is of a chapter that is not
settled. This is the heart: a batch read its rows long before it leases them, and
`CompletedStays` holds because nothing but the one batch in flight takes an event out
of *pending* or *failed* — which is why a second batch beside it would break it. A
crash keeps all of it, since it only forgets. The fifth part is
`CompletedMeansSettled` itself; the step that establishes it is `refreshWorkflow`,
whose conditions with `WriteBackRows` give every conjunct (`ClosedIsSettled`), and all
other steps keep it (`CompletedKept`). `CreationSteps` has the lemmas about generations
and about batches, one per action, and `CreationChainProofs` puts them together. The same `Inductive` was checked by TLC on the instances of both runs
before it was proved.

Two more invariants rest on it. `Calls` is about requests and what generations wait for,
and gives `NothingTwice`. `InOrder` ties the stage of the workflow to the outbox: in the
stage *manuscript* everything final is written back, a generation of the managed run is
always in that stage and has finals before it, and a finalization that is not yet
recorded in the workflow row leaves it at the confirmation. The stage is entered from
`refreshWorkflow`, which looks at the events and not at the chapters, so it takes
`WriteBackRows` to conclude that *every* final chapter is complete: a completed
settlement was aggregated, an aggregated chapter is settled, a settled one has its other
three events. The hypothesis is needed: a generation of the author sets the stage of the
creation whatever chapter it is about (section 4). Finalizations, cancellations and
activations of the author, failures and crashes are all allowed. TLC checked `InOrder`
under it on two chapters with cancellations, crashes, failures and finalizations of the
author (480 k states) before it was proved.

### Setting editorial (`SettingBatchesProofs`)

For any entries, batches, executions and troubles and up to three writers
(`SettingAssumption`): `OneRequest` (`OneRequestPerTask`), `OutcomesHold`
(`OutcomesStand`), `TypeCorrect` (`TypeOK`) and `QueuesApart`. The invariant of the
first two, `CallsAccounted`, needs no assumption and counts: a logical task has at most
one request with the provider, and none when its failure was recorded, so a retry, which
needs a recorded failure, adds the only one; a step changes a call only to what it may
become.

`Typed` is the invariant of the other two. `TypeOK` alone is not inductive: the task a
queue asks about is one of `Tasks` only if the queue has a unit and, at a writer's node,
a writer left to try (`Ready`), so `Typed` has the queues of the executions with what
they have before them. It also has that no entry is in two units of an execution
(`Disjoint`, `Apart`), which is `QueuesApart`: the queues start apart because the units
are dealt by their number and an open entry is in one unit (`UnitsWithin`, `DealtApart`),
and after that a queue only loses entries, also when it takes a group apart
(`GroupSplit`). An entry may still be in the queues of two *executions*, of which at
most one holds the batch. The deal lists entries and units in order; that a
finite set of numbers can be so listed, each once, is `AscendingLists`, proved from the
rank of a number in its set, since the library has no induction to cite here. There is
one lemma per action, over lemmas about one assignment (`QueueKeeps`, `JobsChange`,
`BatchChanges`). TLC checked `Ready`, `Disjoint` and `Apart` on the instance of
`SettingLife` (1 million states) first.

### Only model-checked

* Liveness under fairness, which is out of the prover's reach: `LostAttemptsAreRecovered`,
  `AbandonedReservationsAreFreed`, `ExecutionsEnd`, `EventsAreWorkedOff`, `BatchesEnd`.
* `ChaptersInOrder` of the chain while the author writes chapters alone: it does not hold
  then.

## 6. What is not modelled, and why

* `TaskRuntime` leaves out the `pause_requested` flag and checkpoints (no step decides
  on them), events and `task_phases` (written along, never read), `lease_owner` (implied
  by the token), the `runtime_probe` task type and the Worker's own `complete` that
  serves it, and the copies of `claimNext` and `recoverExpired` in the API, which only
  tests call.
* `ModelCalls` leaves out cash (these calls freeze none; an answer that costs cash is
  one that exceeds what was frozen), threshold events, prompt overrides.
* `Runtime` makes calls the way the chapter pipeline does; other pipelines pass the
  token of their execution, a special case of it.
* `ChapterPipeline` leaves out what texts and reports say and how contexts are packed
  (they decide grades and outcomes, which are arbitrary here), the repair of a report
  and of a synthesis (a second call under the same await), settlements that fail after
  an acceptance, and workflow progress rows. A task has one live execution and at most
  one stale one, which fails when its answer comes: that it cannot commit is the
  subject of `Runtime`. Other chapters appear as what they do to this one: they take the
  writer, complete the book's revision orders, and raise the canon revision.
* Writes that follow one another in one turn of the event loop are one step where no
  property looks between them, although each commits alone and a crash could part them:
  in `ChapterPipeline` those of the catch block (`Throw`: run, panel, chapter, task) and
  the advance of a run after what its phase wrote, which a recovered execution does
  again; in `CreationChain` the ends of `LeaseMaintenance`, `StageSettle` and
  `EditorAnswers`, and the look of `Activate` for an unknown call (`EditorUnknown`),
  which is stricter than the code where an editor's call is unknown and a writer's
  unknown call came after it, for the code looks at the last one; in `SettingBatches` the two UPDATEs of `resetFailedJobs`
  (`Retry`; a crash leaves queued entries in a batch that ended, as the gap of section 4
  does) and output, candidate and mark of `Reviewed`.
* `Formalization` and `CreationChain` begin with the confirmed outline: the stages before
  it (options, chain and chapter outlines, their confirmation and revision) are sequences
  of one call and one confirmation each, without the drain and the write-back beside
  them. Contents of contexts, texts, settlements and maintenance results are outcomes.
  One creation of a book is modelled; another has rows of its own. The leases of events
  are left out because one process runs one batch at a time (`activeRun`); two API
  processes on one database are not.
* `SettingBatches` leaves out the redesign and fusing of entries, several catalogue
  groups, recommendations, the final review, and revisions outside a batch: they make
  single calls of their own and write entries as `Offer` does.
* Writer leases, tool calls, AI node batches, canon index and projections, planning and
  discussions, membership, backup and promotion, and the rest of section 1 are listed in
  `PROJECT.json` with the reason: some repeat a protocol that is modelled, some decide
  nothing over several steps, and some would need runs beyond the dozen this project
  keeps so that all of it can be checked in one go.

## 7. Plan

Done: `TaskRuntime` + `ExclusiveExecution`, `ModelCalls` + `CreditLedger`, `Runtime`,
`ChapterPipeline`, `Formalization`, `CreationChain`, `SettingBatches`; the proofs of
section 5. What would come next, in order of importance:

1. Proofs: every safety property of the passing runs is proved. Next: what holds of
   the three properties that fail, with the hypothesis that separates them from the
   gaps of section 4 (`OneRequestPerItem` while no interrupted batch is taken up again).
2. `AiNodeBatch`: members, retry and replacement against the task that runs them;
   property: a queued member is run or its batch has no task left.
3. `WriterLease` (epoch, takeover, the fence of a draft) composed with `Runtime`.
4. `CanonIndex` and the projection outbox: superseded revisions, claims that expire
   while the API still builds.
5. `Promotion`: a crash at each step of promote and recover.
