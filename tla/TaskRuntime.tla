---------------------------- MODULE TaskRuntime ----------------------------
(***************************************************************************)
(* The task runtime: rows of tasks, task_attempts, task_dependencies and   *)
(* editor_leases/books, written by two processes that share one SQLite     *)
(* file.  The API process runs the author's routes, the pipelines          *)
(* (executeClaimed) and the editor takeover; the Worker process recovers   *)
(* expired leases, claims queued tasks and keeps their leases alive.       *)
(*                                                                         *)
(* Each process is single threaded and its SQLite calls are synchronous,   *)
(* so an action is the code between two database transactions.  What the   *)
(* other process may do between two transactions of one handler is visible *)
(* here: `api' holds a handler of the API that has read or written and has *)
(* not finished, `expired' the rows recoverExpired read outside its        *)
(* transactions.                                                           *)
(*                                                                         *)
(* Time is abstracted: a lease is live until LeaseExpires.  A renewal that *)
(* succeeds changes nothing here (a live lease stays live).  A lease token *)
(* is a fresh UUID for every claim, so it is modelled by the number of the *)
(* attempt it was made for, and NULL by 0.                                 *)
(***************************************************************************)
EXTENDS Naturals, FiniteSets

CONSTANTS
  NumTasks,        \* tasks are numbered in the order they are created
  Books,
  BookOf,          \* the book of each task
  Types,           \* the types of tasks that are created
  MaxAttempts,     \* bound on the claims of one task
  MaxEpoch,        \* bound on the editor epoch of a book
  MaxConcurrency   \* WENMI_WORKER_MAX_CONCURRENCY

Tasks == 1 .. NumTasks

ASSUME CountsAssumption ==
  /\ NumTasks \in Nat /\ MaxAttempts \in Nat /\ MaxEpoch \in Nat
  /\ MaxConcurrency \in Nat \ {0}
ASSUME BooksAssumption == BookOf \in [Tasks -> Books]
\* Whether the worker has an executor for the type of a task.
TaskTypes == {"registered", "unregistered"}
ASSUME TypesAssumption == Types \subseteq TaskTypes

VARIABLES
  row,        \* table tasks
  attempt,    \* table task_attempts: the status of each attempt of a task
  needs,      \* table task_dependencies
  editor,     \* editor_leases and the epoch copied to books
  inFlight,   \* worker memory: WorkerLoop.#inFlight, a set of task ids
  runs,       \* worker memory: the run(task) promises not yet settled
  expired,    \* worker memory: rows read by recoverExpired, not yet handled
  execs,      \* API memory: executeClaimed calls not yet settled
  api         \* API memory: a handler between two database statements

taskVars == <<row, attempt, needs, editor>>
workerVars == <<inFlight, runs, expired>>
apiVars == <<execs, api>>
vars == <<row, attempt, needs, editor, inFlight, runs, expired, execs, api>>

Statuses == {"pending", "queued", "working", "waiting_confirmation", "paused",
             "blocked", "interrupted", "failed", "cancelled", "succeeded"}
AttemptStatuses == {"none", "working", "succeeded", "paused", "waiting_confirmation",
                    "blocked", "interrupted", "failed", "cancelled", "expired"}

Rows == [status : Statuses \cup {"absent"},
         type   : TaskTypes,          \* task_type
         cancel : BOOLEAN,            \* cancel_requested
         epoch  : 0 .. MaxEpoch,      \* required_editor_epoch
         no     : 0 .. MaxAttempts,   \* attempt_count = current_attempt_no
         token  : 0 .. MaxAttempts,   \* lease_token
         lease  : {"none", "live", "expired"}]   \* lease_expires_at

Claims == [task : Tasks, no : 1 .. MaxAttempts]
Snapshots == [task : Tasks, no : 0 .. MaxAttempts, token : 0 .. MaxAttempts, cancel : BOOLEAN]
Idle == [op |-> "idle"]
\* What a fenced write of an execution makes of a task.
EndStatuses == {"succeeded", "waiting_confirmation", "paused", "failed", "blocked", "cancelled"}

Handlers == {Idle} \cup [op : {"cancel"}, task : Tasks, atOnce : BOOLEAN]
                   \cup [op : {"close"}, task : Tasks, status : EndStatuses]
                   \cup [op : {"takeover"}, book : Books]

TypeOK ==
  /\ row \in [Tasks -> Rows]
  /\ attempt \in [Tasks -> [1 .. MaxAttempts -> AttemptStatuses]]
  /\ needs \in [Tasks -> SUBSET Tasks]
  /\ editor \in [Books -> [active : {"chief", "deputy"},
                           epoch  : 1 .. MaxEpoch,
                           state  : {"stable", "ready"}]]
  /\ inFlight \subseteq Tasks
  /\ runs \subseteq Claims
  /\ expired \subseteq Snapshots
  /\ execs \subseteq Claims
  /\ api \in Handlers

AbsentRow == [status |-> "absent", type |-> "registered", cancel |-> FALSE, epoch |-> 0,
              no |-> 0, token |-> 0, lease |-> "none"]

Init ==
  /\ MaxEpoch >= 1
  /\ row = [t \in Tasks |-> AbsentRow]
  /\ attempt = [t \in Tasks |-> [n \in 1 .. MaxAttempts |-> "none"]]
  /\ needs = [t \in Tasks |-> {}]
  /\ editor = [b \in Books |-> [active |-> "chief", epoch |-> 1, state |-> "stable"]]
  /\ inFlight = {} /\ runs = {} /\ expired = {} /\ execs = {} /\ api = Idle

-----------------------------------------------------------------------------
\* Defect: the fence compares token and attempt, but not the expiry of the lease.
HoldsWithoutLease(c) ==
  row[c.task].status = "working" /\ row[c.task].token = c.no /\ row[c.task].no = c.no

(* The fence every write of an execution passes: the row is working, the   *)
(* lease is live, and token and attempt number are those of the claim.     *)
Holds(c) ==
  /\ row[c.task].status = "working" /\ row[c.task].lease = "live"
  /\ row[c.task].token = c.no /\ row[c.task].no = c.no

Unregistered == {t \in Tasks : row[t].type = "unregistered"}
EpochOK(t) == row[t].epoch \in {0, editor[BookOf[t]].epoch}

\* Defect: the end of an attempt leaves lease_expires_at behind.
ReleasedKeepingLease(r, status) == [r EXCEPT !.status = status, !.token = 0]

\* The row after its lease columns were cleared together with a status change.
Released(r, status) == [r EXCEPT !.status = status, !.token = 0, !.lease = "none"]

\* finishCurrentAttempt: only an attempt that is still working is closed.
Closed(t, n, status) ==
  IF n \in 1 .. MaxAttempts /\ attempt[t][n] = "working"
    THEN [attempt EXCEPT ![t][n] = status] ELSE attempt

\* The fenced UPDATE of tasks that ends execution c.  Its attempt is still open:
\* that is a statement of its own.
EndExecution(c, status) ==
  /\ api = Idle
  /\ c \in execs
  /\ Holds(c)
  /\ row' = [row EXCEPT ![c.task] = Released(@, status)]
  /\ execs' = execs \ {c}
  /\ api' = [op |-> "close", task |-> c.task, status |-> status]
  /\ UNCHANGED <<attempt, needs, editor, inFlight, runs, expired>>

-----------------------------------------------------------------------------
(* Routes of the author and services that create tasks.                    *)

\* create, then addDependency for the earlier tasks it waits for: no worker
\* looks at a pending row, and the two are called in one synchronous handler.
Create(t, epoch, deps, type) ==
  /\ api = Idle
  /\ row[t].status = "absent"
  /\ \A u \in 1 .. t - 1 : row[u].status # "absent"
  /\ epoch \in {0, editor[BookOf[t]].epoch}
  /\ \A u \in deps : u < t /\ BookOf[u] = BookOf[t]
  /\ row' = [row EXCEPT ![t] = [AbsentRow EXCEPT !.status = "pending", !.epoch = epoch,
                                                    !.type = type]]
  /\ needs' = [needs EXCEPT ![t] = deps]
  /\ UNCHANGED <<attempt, editor, inFlight, runs, expired, execs, api>>

Queue(t) ==
  /\ api = Idle
  /\ row[t].status \in {"pending", "paused"}
  /\ row' = [row EXCEPT ![t].status = "queued"]
  /\ UNCHANGED <<attempt, needs, editor, inFlight, runs, expired, execs, api>>

CompleteSynchronous(t) ==
  /\ api = Idle
  /\ row[t].status = "pending"
  /\ row' = [row EXCEPT ![t].status = "succeeded"]
  /\ UNCHANGED <<attempt, needs, editor, inFlight, runs, expired, execs, api>>

\* `incomplete': the task was blocked by a quality gate while its review panel
\* still lacks a report (chapter tasks only).  A task the provider rejected
\* outright is refused before this point.
RetryFailed(t, incomplete) ==
  /\ api = Idle
  /\ \/ row[t].status \in {"failed", "interrupted"}
     \/ row[t].status = "blocked" /\ incomplete /\ t \notin Unregistered
  /\ row' = [row EXCEPT ![t] = [Released(@, "queued") EXCEPT !.cancel = FALSE]]
  /\ UNCHANGED <<attempt, needs, editor, inFlight, runs, expired, execs, api>>

ResolveWaitingConfirmation(t, accept) ==
  /\ api = Idle
  /\ row[t].status = "waiting_confirmation"
  /\ row' = [row EXCEPT ![t].status = IF accept THEN "succeeded" ELSE "cancelled"]
  /\ UNCHANGED <<attempt, needs, editor, inFlight, runs, expired, execs, api>>

\* Defect: everything that is not working is cancelled at once, finished or not.
CancellableUnlessWorking == Statuses \ {"working"}

CancellableAtOnce == {"pending", "queued", "paused", "blocked", "waiting_confirmation"}

\* requestCancel reads the row and then updates it, outside a transaction.
CancelRead(t) ==
  /\ api = Idle
  /\ row[t].status # "absent"
  /\ api' = [op |-> "cancel", task |-> t, atOnce |-> row[t].status \in CancellableAtOnce]
  /\ UNCHANGED <<row, attempt, needs, editor, inFlight, runs, expired, execs>>

CancelWrite ==
  /\ api.op = "cancel"
  /\ row' = [row EXCEPT ![api.task] =
               IF api.atOnce
                 THEN [@ EXCEPT !.status = "cancelled", !.cancel = TRUE, !.lease = "none"]
                 ELSE [@ EXCEPT !.cancel = TRUE]]
  /\ api' = Idle
  /\ UNCHANGED <<attempt, needs, editor, inFlight, runs, expired, execs>>

-----------------------------------------------------------------------------
(* Executions of claimed tasks, in the API process.                        *)

Complete(c) ==
  /\ EpochOK(c.task)
  /\ EndExecution(c, IF row[c.task].cancel THEN "cancelled" ELSE "succeeded")

WaitForConfirmation(c) ==
  /\ EpochOK(c.task)
  /\ EndExecution(c, "waiting_confirmation")

\* The chapter pipeline sets pause_requested itself right before it.
PauseAtCheckpoint(c) ==
  /\ EpochOK(c.task)
  /\ EndExecution(c, "paused")

\* TaskService.fail: no epoch condition, and a requested cancellation loses.
Fail(c) == EndExecution(c, "failed")

\* The error path of the chapter pipeline.
ChapterError(c, qualityBlocked) ==
  /\ EpochOK(c.task)
  /\ EndExecution(c, IF row[c.task].cancel THEN "cancelled"
                     ELSE IF qualityBlocked THEN "blocked" ELSE "failed")

\* finishCurrentAttempt, and its copy in the error path of the chapter pipeline:
\* the second statement.  When the API dies before it, the attempt stays open
\* under a task that ended; the next takeover of the book closes it.
CloseAttempt ==
  /\ api.op = "close"
  /\ attempt' = Closed(api.task, row[api.task].no, api.status)
  /\ api' = Idle
  /\ UNCHANGED <<row, needs, editor, inFlight, runs, expired, execs>>

\* The execution throws without having written: its fence is lost, or it
\* failed before or outside the code that closes the attempt.
ExecutionThrows(c) ==
  /\ api = Idle
  /\ c \in execs
  /\ execs' = execs \ {c}
  /\ UNCHANGED <<row, attempt, needs, editor, inFlight, runs, expired, api>>

-----------------------------------------------------------------------------
(* Editor takeover.  tryAutomaticTakeover runs inside an execution of the  *)
(* book while the chief edits; safeRevertToChief is a route, used while    *)
(* the deputy edits.  Both call prepareTakeover and completeTakeover, two  *)
(* transactions of one synchronous call.                                   *)

PrepareTakeover(b, safeToRevert) ==
  /\ api = Idle
  /\ editor[b].epoch < MaxEpoch
  /\ editor[b].state = "stable"
  /\ \/ editor[b].active = "chief" /\ \E c \in execs : BookOf[c.task] = b
     \/ editor[b].active = "deputy" /\ safeToRevert
  /\ editor' = [editor EXCEPT ![b].state = "ready"]
  /\ api' = [op |-> "takeover", book |-> b]
  /\ UNCHANGED <<row, attempt, needs, inFlight, runs, expired, execs>>

\* `calling': the tasks that have a model call in state working.
CompleteTakeover(calling) ==
  /\ api.op = "takeover"
  /\ LET b == api.book
         next == editor[b].epoch + 1
         ends == [t \in Tasks |-> IF t \in calling THEN "interrupted" ELSE "queued"]
         moved(t) == /\ BookOf[t] = b
                     /\ row[t].status \notin {"absent", "succeeded", "failed", "cancelled"}
     IN  /\ editor' = [editor EXCEPT ![b] =
                         [active |-> IF @.active = "chief" THEN "deputy" ELSE "chief",
                          epoch |-> next, state |-> "stable"]]
         /\ attempt' = [t \in Tasks |-> [n \in 1 .. MaxAttempts |->
              IF BookOf[t] = b /\ attempt[t][n] = "working"
                THEN IF t \in calling THEN "interrupted" ELSE "expired"
                ELSE attempt[t][n]]]
         /\ row' = [t \in Tasks |->
              IF ~moved(t) THEN row[t]
              ELSE IF row[t].status = "working"
                THEN [Released(row[t], ends[t]) EXCEPT !.epoch = next]
                ELSE [row[t] EXCEPT !.epoch = next]]
  /\ api' = Idle
  /\ UNCHANGED <<needs, inFlight, runs, expired, execs>>

\* The API process dies and is started again: its memory is lost, and the
\* worker's open requests fail with a connection error, which ends their runs.
ApiCrash ==
  /\ execs' = {}
  /\ api' = Idle
  /\ runs' = {r \in runs : r.task \in Unregistered}
  /\ inFlight' = {t \in inFlight : \E r \in runs' : r.task = t}
  /\ UNCHANGED <<row, attempt, needs, editor, expired>>

-----------------------------------------------------------------------------
(* The Worker process.                                                     *)

LeaseExpires(t) ==
  /\ row[t].lease = "live"
  /\ row' = [row EXCEPT ![t].lease = "expired"]
  /\ UNCHANGED <<attempt, needs, editor, inFlight, runs, expired, execs, api>>

\* Defect: a task whose cancellation is pending is not recovered.
ExpiredUncancelled ==
  {t \in Tasks : row[t].status = "working" /\ row[t].lease = "expired" /\ ~row[t].cancel}

ExpiredTasks == {t \in Tasks : row[t].status = "working" /\ row[t].lease = "expired"}

\* recoverExpired reads the expired rows, cancel_requested included ...
ReadExpired ==
  /\ expired = {} /\ ExpiredTasks # {}
  /\ expired' = {[task |-> t, no |-> row[t].no, token |-> row[t].token,
                  cancel |-> row[t].cancel] : t \in ExpiredTasks}
  /\ UNCHANGED <<row, attempt, needs, editor, inFlight, runs, execs, api>>

\* Defect: the status of the attempt is written to the task.
RecoveredAsAttempt(s, working, unresolved) ==
  IF s.cancel THEN "cancelled"
  ELSE IF ~working /\ ~unresolved THEN "expired" ELSE "interrupted"

\* Defect: only calls that await the provider are looked at, not working ones.
RecoveredUnlessUnresolved(s, working, unresolved) ==
  IF s.cancel THEN "cancelled" ELSE IF ~unresolved THEN "queued" ELSE "interrupted"

RecoveredStatus(s, working, unresolved) ==
  IF s.cancel THEN "cancelled"
  ELSE IF ~working /\ ~unresolved THEN "queued" ELSE "interrupted"

\* ... and handles each in a transaction of its own.  `working': the task has a
\* model call in state working; `unresolved': one that awaits the provider.
RecoverRow(s, working, unresolved) ==
  /\ s \in expired
  /\ LET t == s.task
         status == RecoveredStatus(s, working, unresolved)
         fenced == /\ row[t].status = "working" /\ row[t].lease = "expired"
                   /\ row[t].no = s.no /\ row[t].token = s.token
     IN  IF fenced
           THEN /\ row' = [row EXCEPT ![t] = Released(@, status)]
                /\ attempt' = Closed(t, s.no, IF status = "queued" THEN "expired" ELSE status)
           ELSE UNCHANGED <<row, attempt>>
  /\ expired' = expired \ {s}
  /\ UNCHANGED <<needs, editor, inFlight, runs, execs, api>>

\* Defect: the book is taken as free when this worker process runs none of its tasks.
ClaimableUnlessInFlight(t) ==
  /\ row[t].status = "queued" /\ ~row[t].cancel /\ EpochOK(t)
  /\ \A u \in needs[t] : row[u].status = "succeeded"
  /\ \A u \in inFlight : BookOf[u] # BookOf[t]

\* Defect: the required editor epoch is not compared.
ClaimableInAnyEpoch(t) ==
  /\ row[t].status = "queued" /\ ~row[t].cancel
  /\ \A u \in needs[t] : row[u].status = "succeeded"
  /\ \A u \in Tasks : BookOf[u] = BookOf[t] => row[u].lease # "live"

\* Defect: a dependency is satisfied by any end.
ClaimableAfterAnyEnd(t) ==
  /\ row[t].status = "queued" /\ ~row[t].cancel /\ EpochOK(t)
  /\ \A u \in needs[t] : row[u].status \in {"succeeded", "failed", "cancelled"}
  /\ \A u \in Tasks : BookOf[u] = BookOf[t] => row[u].lease # "live"

Claimable(t) ==
  /\ row[t].status = "queued" /\ ~row[t].cancel
  /\ EpochOK(t)
  /\ \A u \in needs[t] : row[u].status = "succeeded"
  /\ \A u \in Tasks : ~ /\ BookOf[u] = BookOf[t]
                        /\ row[u].status = "working" /\ row[u].lease = "live"

\* claimNext takes the oldest claimable task; run() posts it to the API at once,
\* where executeClaimed starts.  (Its entry check refuses a claim that is already
\* lost: such an execution could not write anything and just throws.)
ClaimNext(t) ==
  /\ expired = {}
  /\ Cardinality(inFlight) < MaxConcurrency
  /\ row[t].no < MaxAttempts
  /\ Claimable(t)
  /\ \A u \in 1 .. t - 1 : ~Claimable(u)
  /\ LET n == row[t].no + 1
     IN  /\ row' = [row EXCEPT ![t] = [@ EXCEPT !.status = "working", !.no = n,
                                                !.token = n, !.lease = "live"]]
         /\ attempt' = [attempt EXCEPT ![t][n] = "working"]
         /\ runs' = runs \cup {[task |-> t, no |-> n]}
         /\ execs' = IF t \in Unregistered THEN execs ELSE execs \cup {[task |-> t, no |-> n]}
  /\ inFlight' = inFlight \cup {t}
  /\ UNCHANGED <<needs, editor, expired, api>>

\* run() settles.  A lost lease aborts the request, a connection may fail, the
\* answer may be a success or a retryable error: the row is left to the lease.
RunEnds(r) ==
  /\ r \in runs
  /\ runs' = runs \ {r}
  /\ inFlight' = inFlight \ {r.task}
  /\ UNCHANGED <<row, attempt, needs, editor, expired, execs, api>>

\* The fenced write of TaskClaimer.fail and TaskClaimer.block, then run() settles.
WorkerCloses(r, status) ==
  /\ r \in runs
  /\ Holds(r)
  /\ row' = [row EXCEPT ![r.task] = Released(@, status)]
  /\ attempt' = Closed(r.task, r.no, status)
  /\ runs' = runs \ {r}
  /\ inFlight' = inFlight \ {r.task}
  /\ UNCHANGED <<needs, editor, expired, execs, api>>

\* The API answered with a non-retryable error.
WorkerFail(r) ==
  /\ r \notin execs /\ r.task \notin Unregistered
  /\ WorkerCloses(r, "failed")

\* No executor is registered for the type of the task.
WorkerBlock(r) ==
  /\ r.task \in Unregistered
  /\ WorkerCloses(r, "blocked")

WorkerCrash ==
  /\ inFlight' = {} /\ runs' = {} /\ expired' = {}
  /\ UNCHANGED <<row, attempt, needs, editor, execs, api>>

-----------------------------------------------------------------------------
CreateAny ==
  \E t \in Tasks, type \in Types : \E e \in 0 .. MaxEpoch, deps \in SUBSET (1 .. t - 1) :
    Create(t, e, deps, type)

AuthorStep ==
  \/ CreateAny
  \/ \E t \in Tasks :
       \/ Queue(t)
       \/ CompleteSynchronous(t)
       \/ \E incomplete \in BOOLEAN : RetryFailed(t, incomplete)
       \/ \E accept \in BOOLEAN : ResolveWaitingConfirmation(t, accept)
       \/ CancelRead(t)
  \/ CancelWrite

EndsOtherwise(c) ==
  \/ WaitForConfirmation(c)
  \/ PauseAtCheckpoint(c)
  \/ Fail(c)
  \/ \E qualityBlocked \in BOOLEAN : ChapterError(c, qualityBlocked)
  \/ ExecutionThrows(c)

ExecutionEnds(c) == Complete(c) \/ EndsOtherwise(c)

ExecutionStep == CloseAttempt \/ \E c \in execs : ExecutionEnds(c)

TakeoverStep ==
  \/ \E b \in Books, safe \in BOOLEAN : PrepareTakeover(b, safe)
  \/ \E calling \in SUBSET Tasks : CompleteTakeover(calling)

RecoverAny(t) ==
  \E s \in expired, working, unresolved \in BOOLEAN :
    s.task = t /\ RecoverRow(s, working, unresolved)

PumpStep ==
  \/ ReadExpired
  \/ \E t \in Tasks : ClaimNext(t)
  \/ \E r \in runs : RunEnds(r) \/ WorkerFail(r) \/ WorkerBlock(r)

WorkerStep == PumpStep \/ \E t \in Tasks : RecoverAny(t)

EnvironmentStep ==
  \/ \E t \in Tasks : LeaseExpires(t)
  \/ ApiCrash
  \/ WorkerCrash

Next == AuthorStep \/ ExecutionStep \/ TakeoverStep \/ WorkerStep \/ EnvironmentStep

Spec == Init /\ [][Next]_vars

(***************************************************************************)
(* Fairness.  A synchronous handler finishes; the pump runs every second,  *)
(* so an expired lease is read, and the transaction of a row that is read  *)
(* again and again is reached (the worker does not die in that window      *)
(* forever).  A lease nobody renews runs out.  Nothing is assumed of       *)
(* authors, executions, crashes or of leases that are being renewed.       *)
(***************************************************************************)
Renewed(t) == \E r \in runs : r.task = t /\ r.no = row[t].no

UnrenewedLeaseExpires(t) == ~Renewed(t) /\ LeaseExpires(t)

FairSpec ==
  /\ Spec
  /\ WF_vars(CancelWrite)
  /\ WF_vars(CloseAttempt)
  /\ WF_vars(\E calling \in SUBSET Tasks : CompleteTakeover(calling))
  /\ WF_vars(ReadExpired)
  /\ \A t \in Tasks : SF_vars(RecoverAny(t))
  /\ \A t \in Tasks : WF_vars(UnrenewedLeaseExpires(t))

-----------------------------------------------------------------------------
(* Safety.                                                                 *)

\* A row is working exactly while it carries the lease and the token of its
\* current attempt, and that attempt is recorded as working.  Claim, six ways
\* to end, recovery, takeover and cancellation each write these columns.
WorkingRowsCarryTheirLease ==
  \A t \in Tasks :
    /\ (row[t].lease # "none") <=> (row[t].status = "working")
    /\ row[t].status = "working" =>
         /\ row[t].no >= 1 /\ row[t].token = row[t].no
         /\ attempt[t][row[t].no] = "working"
    /\ row[t].token # 0 => row[t].status \in {"working", "cancelled"}

\* What the attempts record is what became of the task, although the two tables
\* are written by separate statements and the API may die between them: numbers
\* have no gaps, a recorded success is that of a task that succeeded by its
\* latest attempt, and one that went to the author was not started again.
AttemptsMatchTheRow ==
  \A t \in Tasks, n \in 1 .. MaxAttempts :
    /\ attempt[t][n] = "none" <=> n > row[t].no
    /\ attempt[t][n] = "succeeded" => n = row[t].no /\ row[t].status = "succeeded"
    /\ attempt[t][n] = "waiting_confirmation" =>
         /\ n = row[t].no
         /\ row[t].status \in {"waiting_confirmation", "succeeded", "cancelled"}

\* claimNext, task-claimer.ts:37: at most one task of a book is executed under
\* a live lease, whatever expires, is recovered, taken over or cancelled.
OneLiveTaskPerBook ==
  \A t, u \in Tasks :
    /\ t # u /\ BookOf[t] = BookOf[u]
    => ~(row[t].lease = "live" /\ row[u].lease = "live")

\* A working task belongs to the current editor epoch: fail, block and
\* recoverExpired do not check the epoch and need not.
WorkingInCurrentEpoch ==
  \A t \in Tasks : row[t].status = "working" => EpochOK(t)

\* A task that runs, or has run, was claimed after everything it depends on had
\* succeeded, and nothing takes a success back.
DependenciesSucceeded ==
  \A t \in Tasks : row[t].no > 0 => \A u \in needs[t] : row[u].status = "succeeded"

\* At most one execution holds the fence of a book, however many stale
\* executions are still running in the API process.
OneExecutionCanCommit ==
  \A c, d \in execs :
    Holds(c) /\ Holds(d) /\ BookOf[c.task] = BookOf[d.task] => c = d

\* No step rewrites the outcome of an attempt or of a finished task, not even
\* a late execution, a cancellation that read an older status, or a takeover.
OutcomesAreFinal ==
  [][\A t \in Tasks :
       /\ row[t].status \in {"succeeded", "cancelled"} => row'[t].status = row[t].status
       /\ \A n \in 1 .. MaxAttempts :
            attempt[t][n] \notin {"none", "working"} => attempt'[t][n] = attempt[t][n]]_vars

\* A cancelled or re-claimed task is never completed by its earlier attempt: a
\* task leaves working as succeeded, paused, waiting or blocked only while its
\* lease is live and its epoch current (docs/DATA_MODEL.md:181).
ResultsNeedALiveLease ==
  [][\A t \in Tasks :
       /\ row[t].status = "working"
       /\ row'[t].status \in {"succeeded", "waiting_confirmation", "paused", "blocked"}
       => row[t].lease = "live" /\ EpochOK(t) /\ row[t].token = row[t].no]_vars

\* An attempt whose worker run is gone (crash, lost connection, dropped
\* retryable error) does not keep its task working forever.
LostAttemptsAreRecovered ==
  \A t \in Tasks, n \in 1 .. MaxAttempts :
    (row[t].status = "working" /\ row[t].no = n /\ ~Renewed(t))
      ~> ~(row[t].status = "working" /\ row[t].no = n)

-----------------------------------------------------------------------------
(* The inductive invariant behind these properties.                        *)

UnusedRowsWereNeverClaimed ==
  \A t \in Tasks : row[t].status \in {"absent", "pending"} => row[t].no = 0

\* Between the two statements of an end nobody takes the row up again.
CloseFollowsTheRow ==
  api.op = "close" => row[api.task].status = api.status /\ row[api.task].no >= 1

\* Between the read and the write of a cancellation only the worker runs: it
\* may claim, recover, fail or block the task, and none of these completes it.
CancelSeesUnfinishedTask ==
  api.op = "cancel" =>
    /\ row[api.task].status # "absent"
    /\ api.atOnce => row[api.task].status # "succeeded"

TakeoverHasNextEpoch == api.op = "takeover" => editor[api.book].epoch < MaxEpoch

\* Everything above that a step needs to know of the state it starts in.
Inductive ==
  /\ TypeOK
  /\ WorkingRowsCarryTheirLease
  /\ AttemptsMatchTheRow
  /\ OneLiveTaskPerBook
  /\ WorkingInCurrentEpoch
  /\ DependenciesSucceeded
  /\ UnusedRowsWereNeverClaimed
  /\ CancelSeesUnfinishedTask
  /\ CloseFollowsTheRow
  /\ TakeoverHasNextEpoch

-----------------------------------------------------------------------------
(* The runtime implements ExclusiveExecution: the right to write is a live *)
(* lease, its number the attempt number.  A result is delivered by the     *)
(* statement that releases the lease, in the row that dependent tasks and  *)
(* routes read; what the attempt records comes later, or is lost in a      *)
(* crash, and decides nothing.                                             *)

holder == [t \in Tasks |-> IF row[t].lease = "live" THEN row[t].no ELSE 0]
last == [t \in Tasks |-> row[t].no]
offered == [t \in Tasks |-> IF row[t].status = "waiting_confirmation" THEN row[t].no ELSE 0]
accepted == [t \in Tasks |-> IF row[t].status = "succeeded" THEN row[t].no ELSE 0]

Abstract == INSTANCE ExclusiveExecution

\* Only the attempt that holds the single right to write of its book delivers a
\* result, a right that was lost is never regained, and a task that delivered is
\* not executed again, whatever the author decides about what he was offered.
ImplementsExclusiveExecution == Abstract!Spec

-----------------------------------------------------------------------------
(* What documents, comments and tests say and the code does not keep.      *)

\* task-service.ts:135: a retried task makes model calls again; but a queued row
\* of an older editor epoch is passed over by every claim.
QueuedTasksMatchTheEpoch ==
  \A t \in Tasks : row[t].status = "queued" => EpochOK(t)

\* task-state.test.ts:103: a task cancelled while working is recorded as
\* cancelled; queued with the request still set, no claim ever takes it.
CancelRequestsAreNotRequeued ==
  \A t \in Tasks : ~(row[t].status = "queued" /\ row[t].cancel)

=============================================================================
