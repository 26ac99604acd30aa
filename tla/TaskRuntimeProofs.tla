------------------------- MODULE TaskRuntimeProofs -------------------------
(***************************************************************************)
(* Proofs about the task runtime, for any number of tasks, books, attempts *)
(* and epochs: the invariant Inductive, and what follows from it.          *)
(*                                                                         *)
(* The order: columns and types; a lemma for each kind of step (a row that *)
(* waits is written, a working row ends, a row is claimed, a book is taken *)
(* over, only memory changes); the step lemma; the theorems; what no step  *)
(* may do, and the refinement of ExclusiveExecution.                       *)
(***************************************************************************)
EXTENDS TaskRuntime, TLAPS

-----------------------------------------------------------------------------
(* Types.                                                                  *)

\* A row stays a row when one of its columns is set.
LEMMA OneColumn ==
  ASSUME NEW r \in Rows
  PROVE  /\ \A status \in Statuses : [r EXCEPT !.status = status] \in Rows
         /\ \A b \in BOOLEAN : [r EXCEPT !.cancel = b] \in Rows
         /\ \A type \in TaskTypes : [r EXCEPT !.type = type] \in Rows
         /\ \A e \in 0 .. MaxEpoch : [r EXCEPT !.epoch = e] \in Rows
         /\ \A n \in 0 .. MaxAttempts : [r EXCEPT !.no = n] \in Rows
         /\ \A n \in 0 .. MaxAttempts : [r EXCEPT !.token = n] \in Rows
         /\ \A lease \in {"none", "live", "expired"} : [r EXCEPT !.lease = lease] \in Rows
  BY DEF Rows

\* A released row is a row, and only status, token and lease change.
LEMMA ReleasedRow ==
  ASSUME NEW r \in Rows, NEW status \in Statuses
  PROVE  /\ Released(r, status) \in Rows
         /\ Released(r, status).status = status
         /\ Released(r, status).lease = "none" /\ Released(r, status).token = 0
         /\ Released(r, status).cancel = r.cancel
         /\ Released(r, status).epoch = r.epoch /\ Released(r, status).no = r.no
<1> DEFINE x == [r EXCEPT !.status = status]
           y == [x EXCEPT !.token = 0]
<1>1. 0 \in 0 .. MaxAttempts
  BY CountsAssumption
<1>2. x \in Rows
  BY OneColumn
<1>3. y \in Rows
  <2> HIDE DEF x
  <2> QED BY <1>1, <1>2, OneColumn
<1>4. [y EXCEPT !.lease = "none"] \in Rows
  <2> HIDE DEF y
  <2> QED BY <1>3, OneColumn
<1>5. Released(r, status) \in Rows
  BY <1>4 DEF Released
<1> QED BY <1>5 DEF Released, Rows

\* The row a claim writes is a row.
LEMMA ClaimedRow ==
  ASSUME NEW r \in Rows, NEW n \in 0 .. MaxAttempts
  PROVE  [r EXCEPT !.status = "working", !.no = n, !.token = n, !.lease = "live"] \in Rows
<1> DEFINE x == [r EXCEPT !.status = "working"]
           y == [x EXCEPT !.no = n]
           z == [y EXCEPT !.token = n]
<1>1. x \in Rows
  BY OneColumn DEF Statuses
<1>2. y \in Rows
  <2> HIDE DEF x
  <2> QED BY <1>1, OneColumn
<1>3. z \in Rows
  <2> HIDE DEF y
  <2> QED BY <1>2, OneColumn
<1>4. [z EXCEPT !.lease = "live"] \in Rows
  <2> HIDE DEF z
  <2> QED BY <1>3, OneColumn
<1> QED BY <1>4

\* The row a cancellation at once writes is a row.
LEMMA CancelledRow ==
  ASSUME NEW r \in Rows
  PROVE  [r EXCEPT !.status = "cancelled", !.cancel = TRUE, !.lease = "none"] \in Rows
<1> DEFINE x == [r EXCEPT !.status = "cancelled"]
           y == [x EXCEPT !.cancel = TRUE]
<1>1. x \in Rows
  BY OneColumn DEF Statuses
<1>2. y \in Rows
  <2> HIDE DEF x
  <2> QED BY <1>1, OneColumn
<1>3. [y EXCEPT !.lease = "none"] \in Rows
  <2> HIDE DEF y
  <2> QED BY <1>2, OneColumn
<1> QED BY <1>3

\* Closing an attempt changes that attempt at most, and only if it is working.
LEMMA ClosedAttempt ==
  ASSUME TypeOK, NEW t \in Tasks, NEW n, NEW status \in AttemptStatuses
  PROVE  /\ Closed(t, n, status) \in [Tasks -> [1 .. MaxAttempts -> AttemptStatuses]]
         /\ \A u \in Tasks, k \in 1 .. MaxAttempts :
              Closed(t, n, status)[u][k] =
                IF u = t /\ k = n /\ attempt[t][n] = "working" THEN status ELSE attempt[u][k]
  BY DEF Closed, TypeOK

-----------------------------------------------------------------------------
(* Kinds of steps.                                                         *)

\* Steps of the memory of the processes leave the tables alone.
LEMMA MemoryStep ==
  ASSUME Inductive, TypeOK', UNCHANGED taskVars, api' \in {api, Idle}
  PROVE  Inductive'
<1> USE DEF Inductive, taskVars
<1>1. /\ WorkingRowsCarryTheirLease' /\ AttemptsMatchTheRow'
      /\ OneLiveTaskPerBook' /\ WorkingInCurrentEpoch'
      /\ DependenciesSucceeded' /\ UnusedRowsWereNeverClaimed'
  BY DEF WorkingRowsCarryTheirLease, AttemptsMatchTheRow, OneLiveTaskPerBook,
         WorkingInCurrentEpoch, EpochOK, DependenciesSucceeded, UnusedRowsWereNeverClaimed
<1>2. CancelSeesUnfinishedTask' /\ CloseFollowsTheRow' /\ TakeoverHasNextEpoch'
  BY DEF CancelSeesUnfinishedTask, CloseFollowsTheRow, TakeoverHasNextEpoch, Idle
<1> QED BY <1>1, <1>2

\* What the worker makes of a task and of its attempt, in one transaction.
WorkerEnds == {"queued", "interrupted", "cancelled", "failed", "blocked"}
AttemptEndings == {"expired", "interrupted", "cancelled", "failed", "blocked"}

\* The worker releases a working row and closes its attempt.
LEMMA AttemptEnds ==
  ASSUME Inductive, TypeOK',
         NEW t \in Tasks, row[t].status = "working",
         NEW status \in WorkerEnds, NEW attemptStatus \in AttemptEndings,
         row' = [row EXCEPT ![t] = Released(@, status)],
         attempt' = Closed(t, row[t].no, attemptStatus),
         UNCHANGED <<needs, editor, api>>
  PROVE  Inductive'
<1> DEFINE r == Released(row[t], status)
<1>1. /\ r \in Rows /\ r.status = status /\ r.lease = "none" /\ r.token = 0
      /\ r.epoch = row[t].epoch /\ r.no = row[t].no
  BY ReleasedRow DEF Inductive, TypeOK, WorkerEnds, Statuses
<1>2. \A u \in Tasks : row'[u] = IF u = t THEN r ELSE row[u]
  BY DEF Inductive, TypeOK
<1>3. \A u \in Tasks, k \in 1 .. MaxAttempts :
        attempt'[u][k] = IF u = t /\ k = row[t].no /\ attempt[t][row[t].no] = "working"
                           THEN attemptStatus ELSE attempt[u][k]
  BY ClosedAttempt DEF Inductive, AttemptEndings, AttemptStatuses
<1>4. /\ status \notin {"absent", "pending", "working", "succeeded", "waiting_confirmation"}
      /\ attemptStatus \notin {"none", "succeeded", "waiting_confirmation"}
  BY DEF WorkerEnds, AttemptEndings
<1> HIDE DEF r
<1>5. WorkingRowsCarryTheirLease'
  BY <1>1, <1>2, <1>3, <1>4 DEF Inductive, WorkingRowsCarryTheirLease, TypeOK, Rows, WorkerEnds
<1>6. AttemptsMatchTheRow'
  BY <1>1, <1>2, <1>3, <1>4 DEF Inductive, AttemptsMatchTheRow, TypeOK, Rows
<1>7. OneLiveTaskPerBook' /\ WorkingInCurrentEpoch'
  BY <1>1, <1>2 DEF Inductive, OneLiveTaskPerBook, WorkingInCurrentEpoch, EpochOK
<1>8. DependenciesSucceeded' /\ UnusedRowsWereNeverClaimed'
  BY <1>1, <1>2, <1>4 DEF Inductive, DependenciesSucceeded, UnusedRowsWereNeverClaimed, TypeOK
<1>9. CancelSeesUnfinishedTask' /\ CloseFollowsTheRow' /\ TakeoverHasNextEpoch'
  BY <1>1, <1>2, <1>4
  DEF Inductive, CancelSeesUnfinishedTask, CloseFollowsTheRow, TakeoverHasNextEpoch, Idle, TypeOK,
      Handlers, EndStatuses
<1> QED BY <1>5, <1>6, <1>7, <1>8, <1>9 DEF Inductive

\* A row is written and no attempt: it keeps its attempt number, does not start
\* to work, and what was delivered (offered, succeeded) stays, or is decided.
LEMMA RowWritten ==
  ASSUME Inductive, TypeOK',
         NEW t \in Tasks, NEW r \in Rows,
         row' = [row EXCEPT ![t] = r],
         r.no = row[t].no,
         r.status # "absent",
         r.status = "working" =>
           /\ row[t].status = "working" /\ r.token = row[t].token /\ r.epoch = row[t].epoch
           /\ r.lease = row[t].lease \/ (row[t].lease # "none" /\ r.lease = "expired"),
         r.status # "working" => r.lease = "none" /\ (r.token # 0 => r.status = "cancelled"),
         r.status = "pending" => r.no = 0,
         row[t].status \in {"waiting_confirmation", "cancelled", "succeeded"} =>
           r.status \in {"waiting_confirmation", "cancelled", "succeeded"},
         row[t].status = "succeeded" => r.status = "succeeded",
         \A u \in Tasks : needs'[u] = needs[u] \/ (u = t /\ r.no = 0),
         UNCHANGED <<attempt, editor>>,
         \/ api' = Idle
         \/ api' = api /\ r.status = row[t].status
         \/ api' = [op |-> "close", task |-> t, status |-> r.status] /\ r.no >= 1
  PROVE  Inductive'
<1>1. \A u \in Tasks : row'[u] = IF u = t THEN r ELSE row[u]
  BY DEF Inductive, TypeOK
<1>2. WorkingRowsCarryTheirLease' /\ AttemptsMatchTheRow'
  BY <1>1 DEF Inductive, WorkingRowsCarryTheirLease, AttemptsMatchTheRow
<1>3. OneLiveTaskPerBook' /\ WorkingInCurrentEpoch'
  BY <1>1 DEF Inductive, OneLiveTaskPerBook, WorkingInCurrentEpoch, EpochOK, WorkingRowsCarryTheirLease
<1>4. DependenciesSucceeded'
  BY <1>1 DEF Inductive, DependenciesSucceeded, TypeOK, Rows
<1>5. UnusedRowsWereNeverClaimed'
  BY <1>1 DEF Inductive, UnusedRowsWereNeverClaimed
<1>6. CancelSeesUnfinishedTask' /\ TakeoverHasNextEpoch'
  BY <1>1 DEF Inductive, CancelSeesUnfinishedTask, TakeoverHasNextEpoch, Idle
<1>7. CloseFollowsTheRow'
  BY <1>1 DEF Inductive, CloseFollowsTheRow, Idle
<1> QED BY <1>2, <1>3, <1>4, <1>5, <1>6, <1>7 DEF Inductive

-----------------------------------------------------------------------------
(* The author's steps.                                                     *)

LEMMA CreateStep ==
  ASSUME Inductive, NEW t \in Tasks, NEW e \in 0 .. MaxEpoch, NEW deps \in SUBSET (1 .. t - 1),
         NEW type \in Types, Create(t, e, deps, type)
  PROVE  Inductive'
<1> DEFINE q == [AbsentRow EXCEPT !.status = "pending"]
           p == [q EXCEPT !.epoch = e]
           r == [p EXCEPT !.type = type]
<1>1. r \in Rows /\ r.no = 0 /\ r.status = "pending" /\ r.lease = "none" /\ r.token = 0
  <2>1. 0 \in 0 .. MaxAttempts /\ 0 \in 0 .. MaxEpoch
    BY CountsAssumption
  <2>2. AbsentRow \in Rows /\ AbsentRow.no = 0 /\ AbsentRow.lease = "none" /\ AbsentRow.token = 0
    BY <2>1 DEF AbsentRow, Rows, TaskTypes
  <2> HIDE DEF AbsentRow
  <2>3. q \in Rows /\ q.no = 0 /\ q.lease = "none" /\ q.token = 0 /\ q.status = "pending"
    BY <2>2, OneColumn DEF Statuses, Rows
  <2> HIDE DEF q
  <2>4. p \in Rows /\ p.no = 0 /\ p.lease = "none" /\ p.token = 0 /\ p.status = "pending"
    BY <2>3, OneColumn DEF Rows
  <2> HIDE DEF p
  <2>5. r \in Rows
    BY <2>4, TypesAssumption, OneColumn
  <2> QED BY <2>4, <2>5 DEF Rows
<1>2. deps \in SUBSET Tasks
  BY CountsAssumption DEF Tasks
<1>3. row' = [row EXCEPT ![t] = r]
  BY DEF Create
<1> HIDE DEF q, p, r
<1>4. TypeOK'
  BY <1>1, <1>2, <1>3 DEF Create, Inductive, TypeOK
<1>5. row[t].no = 0 /\ row[t].status = "absent"
  BY DEF Create, Inductive, UnusedRowsWereNeverClaimed
<1>6. \A u \in Tasks : needs'[u] = needs[u] \/ u = t
  BY DEF Create, Inductive, TypeOK
<1> QED BY <1>1, <1>3, <1>4, <1>5, <1>6, RowWritten DEF Create

LEMMA QueueStep ==
  ASSUME Inductive, NEW t \in Tasks, Queue(t)
  PROVE  Inductive'
<1> DEFINE r == [row[t] EXCEPT !.status = "queued"]
<1>1. r \in Rows
  BY OneColumn DEF Inductive, TypeOK, Statuses
<1>2. r.no = row[t].no /\ r.status = "queued" /\ r.lease = row[t].lease /\ r.token = row[t].token
  BY DEF Inductive, TypeOK, Rows
<1>3. row' = [row EXCEPT ![t] = r] /\ row[t].status \in {"pending", "paused"}
  BY DEF Queue
<1>4. row[t].lease = "none" /\ row[t].token = 0
  BY <1>3 DEF Inductive, WorkingRowsCarryTheirLease
<1> HIDE DEF r
<1>5. TypeOK'
  BY <1>1, <1>3 DEF Queue, Inductive, TypeOK
<1> QED BY <1>1, <1>2, <1>3, <1>4, <1>5, RowWritten DEF Queue

LEMMA CompleteSynchronousStep ==
  ASSUME Inductive, NEW t \in Tasks, CompleteSynchronous(t)
  PROVE  Inductive'
<1> DEFINE r == [row[t] EXCEPT !.status = "succeeded"]
<1>1. r \in Rows
  BY OneColumn DEF Inductive, TypeOK, Statuses
<1>2. r.no = row[t].no /\ r.status = "succeeded" /\ r.lease = row[t].lease /\ r.token = row[t].token
  BY DEF Inductive, TypeOK, Rows
<1>3. row' = [row EXCEPT ![t] = r] /\ row[t].status = "pending"
  BY DEF CompleteSynchronous
<1>4. row[t].lease = "none" /\ row[t].token = 0
  BY <1>3 DEF Inductive, WorkingRowsCarryTheirLease
<1> HIDE DEF r
<1>5. TypeOK'
  BY <1>1, <1>3 DEF CompleteSynchronous, Inductive, TypeOK
<1> QED BY <1>1, <1>2, <1>3, <1>4, <1>5, RowWritten DEF CompleteSynchronous

LEMMA ResolveStep ==
  ASSUME Inductive, NEW t \in Tasks, NEW accept \in BOOLEAN, ResolveWaitingConfirmation(t, accept)
  PROVE  Inductive'
<1> DEFINE r == [row[t] EXCEPT !.status = IF accept THEN "succeeded" ELSE "cancelled"]
<1>1. r \in Rows
  BY OneColumn DEF Inductive, TypeOK, Statuses
<1>2. /\ r.no = row[t].no /\ r.status \in {"succeeded", "cancelled"}
      /\ r.lease = row[t].lease /\ r.token = row[t].token
  BY DEF Inductive, TypeOK, Rows
<1>3. row' = [row EXCEPT ![t] = r] /\ row[t].status = "waiting_confirmation"
  BY DEF ResolveWaitingConfirmation
<1>4. row[t].lease = "none" /\ row[t].token = 0
  BY <1>3 DEF Inductive, WorkingRowsCarryTheirLease
<1> HIDE DEF r
<1>5. TypeOK'
  BY <1>1, <1>3 DEF ResolveWaitingConfirmation, Inductive, TypeOK
<1> QED BY <1>1, <1>2, <1>3, <1>4, <1>5, RowWritten DEF ResolveWaitingConfirmation

LEMMA RetryStep ==
  ASSUME Inductive, NEW t \in Tasks, NEW incomplete \in BOOLEAN, RetryFailed(t, incomplete)
  PROVE  Inductive'
<1> DEFINE q == Released(row[t], "queued")
           r == [q EXCEPT !.cancel = FALSE]
<1>1. q \in Rows /\ q.status = "queued" /\ q.lease = "none" /\ q.token = 0 /\ q.no = row[t].no
  BY ReleasedRow DEF Inductive, TypeOK, Statuses
<1>2. r \in Rows /\ r.status = "queued" /\ r.lease = "none" /\ r.token = 0 /\ r.no = row[t].no
  <2> HIDE DEF q
  <2>1. r \in Rows
    BY <1>1, OneColumn
  <2> QED BY <1>1, <2>1 DEF Rows
<1>3. row' = [row EXCEPT ![t] = r] /\ row[t].status \in {"failed", "interrupted", "blocked"}
  BY DEF RetryFailed
<1> HIDE DEF q, r
<1>4. TypeOK'
  BY <1>2, <1>3 DEF RetryFailed, Inductive, TypeOK
<1> QED BY <1>2, <1>3, <1>4, RowWritten DEF RetryFailed

LEMMA CancelWriteStep ==
  ASSUME Inductive, CancelWrite
  PROVE  Inductive'
<1> DEFINE t == api.task
           now == [row[t] EXCEPT !.status = "cancelled", !.cancel = TRUE, !.lease = "none"]
           later == [row[t] EXCEPT !.cancel = TRUE]
           r == IF api.atOnce THEN now ELSE later
<1>1. /\ t \in Tasks /\ row[t] \in Rows /\ row[t].status # "absent"
      /\ api.atOnce => row[t].status # "succeeded"
  BY DEF CancelWrite, Inductive, TypeOK, Handlers, Idle, CancelSeesUnfinishedTask
<1>2. now \in Rows /\ later \in Rows
  BY <1>1, CancelledRow, OneColumn
<1>3. /\ now.status = "cancelled" /\ now.lease = "none" /\ now.no = row[t].no
      /\ later.status = row[t].status /\ later.lease = row[t].lease /\ later.no = row[t].no
      /\ later.token = row[t].token /\ later.epoch = row[t].epoch
  <2> HIDE DEF t
  <2>1. now.status = "cancelled" /\ now.lease = "none" /\ now.no = row[t].no
    BY <1>1 DEF Rows
  <2>2. /\ later.status = row[t].status /\ later.lease = row[t].lease /\ later.no = row[t].no
        /\ later.token = row[t].token /\ later.epoch = row[t].epoch
    BY <1>1 DEF Rows
  <2> QED BY <2>1, <2>2
<1>4. /\ row' = [row EXCEPT ![t] = r] /\ api' = Idle
      /\ UNCHANGED <<attempt, needs, editor, inFlight, runs, expired, execs>>
  BY DEF CancelWrite
<1>5. /\ (row[t].lease # "none") <=> (row[t].status = "working")
      /\ row[t].token # 0 => row[t].status \in {"working", "cancelled"}
      /\ row[t].status = "pending" => row[t].no = 0
  BY <1>1 DEF Inductive, WorkingRowsCarryTheirLease, UnusedRowsWereNeverClaimed
<1> HIDE DEF t, now, later
<1>6. r \in Rows
  BY <1>2
<1>7. TypeOK'
  <2> HIDE DEF r
  <2> QED BY <1>1, <1>4, <1>6 DEF Inductive, TypeOK, Handlers
<1>8. CASE api.atOnce
  <2>1. r = now
    BY <1>8
  <2> HIDE DEF r
  <2> QED BY <1>1, <1>2, <1>3, <1>4, <1>5, <1>7, <1>8, <2>1, RowWritten
<1>9. CASE ~api.atOnce
  <2>1. r = later
    BY <1>9
  <2> HIDE DEF r
  <2> QED BY <1>1, <1>2, <1>3, <1>4, <1>5, <1>7, <2>1, RowWritten
<1> QED BY <1>8, <1>9

LEMMA CancelReadStep ==
  ASSUME Inductive, NEW t \in Tasks, CancelRead(t)
  PROVE  Inductive'
<1>1. /\ api' = [op |-> "cancel", task |-> t, atOnce |-> row[t].status \in CancellableAtOnce]
      /\ row[t].status # "absent"
      /\ UNCHANGED <<row, attempt, needs, editor, inFlight, runs, expired, execs>>
  BY DEF CancelRead
<1>2. TypeOK'
  BY <1>1 DEF Inductive, TypeOK, Handlers
<1>3. /\ WorkingRowsCarryTheirLease' /\ AttemptsMatchTheRow' /\ OneLiveTaskPerBook'
      /\ WorkingInCurrentEpoch' /\ DependenciesSucceeded' /\ UnusedRowsWereNeverClaimed'
  BY <1>1 DEF Inductive, WorkingRowsCarryTheirLease, AttemptsMatchTheRow, EpochOK,
         OneLiveTaskPerBook, WorkingInCurrentEpoch, DependenciesSucceeded, UnusedRowsWereNeverClaimed
<1>4. CancelSeesUnfinishedTask' /\ CloseFollowsTheRow' /\ TakeoverHasNextEpoch'
  BY <1>1 DEF CancelSeesUnfinishedTask, CloseFollowsTheRow, TakeoverHasNextEpoch, CancellableAtOnce
<1> QED BY <1>2, <1>3, <1>4 DEF Inductive

-----------------------------------------------------------------------------
(* Executions and the worker's own ends of an attempt.                     *)

LEMMA EndExecutionStep ==
  ASSUME Inductive, NEW c, NEW status \in EndStatuses, EndExecution(c, status)
  PROVE  Inductive'
<1> DEFINE t == c.task
           r == Released(row[t], status)
<1>1. t \in Tasks /\ row[t] \in Rows /\ status \in Statuses
  BY DEF EndExecution, Inductive, TypeOK, Claims, EndStatuses, Statuses
<1>2. row[t].status = "working" /\ row[t].no >= 1
  BY <1>1 DEF EndExecution, Holds, Inductive, WorkingRowsCarryTheirLease
<1>3. /\ row' = [row EXCEPT ![t] = r]
      /\ api' = [op |-> "close", task |-> t, status |-> status] /\ execs' \subseteq execs
      /\ UNCHANGED <<attempt, needs, editor, inFlight, runs, expired>>
  BY DEF EndExecution
<1>4. /\ r \in Rows /\ r.status = status /\ r.lease = "none" /\ r.token = 0
      /\ r.no = row[t].no
  BY <1>1, ReleasedRow
<1>5. status \notin {"absent", "pending", "working"}
  BY DEF EndStatuses
<1> HIDE DEF t, r
<1>6. TypeOK'
  BY <1>1, <1>3, <1>4 DEF Inductive, TypeOK, Handlers
<1> QED BY <1>1, <1>2, <1>3, <1>4, <1>5, <1>6, RowWritten

\* The attempt is closed the way its row ended, or was closed by a takeover.
LEMMA CloseAttemptStep ==
  ASSUME Inductive, CloseAttempt
  PROVE  Inductive'
<1> DEFINE t == api.task
           status == api.status
<1>1. /\ t \in Tasks /\ status \in EndStatuses /\ status \in AttemptStatuses
      /\ row[t].status = status /\ row[t].no >= 1
  BY DEF CloseAttempt, Inductive, TypeOK, Handlers, Idle, CloseFollowsTheRow, EndStatuses, AttemptStatuses
<1>2. /\ attempt' = Closed(t, row[t].no, status) /\ api' = Idle
      /\ UNCHANGED <<row, needs, editor, inFlight, runs, expired, execs>>
  BY DEF CloseAttempt
<1> HIDE DEF t, status
<1>3. \A u \in Tasks, k \in 1 .. MaxAttempts :
        attempt'[u][k] = IF u = t /\ k = row[t].no /\ attempt[t][row[t].no] = "working"
                           THEN status ELSE attempt[u][k]
  BY <1>1, <1>2, ClosedAttempt DEF Inductive
<1>4. TypeOK'
  BY <1>1, <1>2, ClosedAttempt DEF Inductive, TypeOK, Handlers
<1>5. WorkingRowsCarryTheirLease'
  BY <1>1, <1>2, <1>3 DEF Inductive, WorkingRowsCarryTheirLease, TypeOK, Rows, EndStatuses
<1>6. AttemptsMatchTheRow'
  BY <1>1, <1>2, <1>3 DEF Inductive, AttemptsMatchTheRow, EndStatuses
<1>7. /\ OneLiveTaskPerBook' /\ WorkingInCurrentEpoch'
      /\ DependenciesSucceeded' /\ UnusedRowsWereNeverClaimed'
  BY <1>2 DEF Inductive, OneLiveTaskPerBook, WorkingInCurrentEpoch, EpochOK,
              DependenciesSucceeded, UnusedRowsWereNeverClaimed
<1>8. CancelSeesUnfinishedTask' /\ CloseFollowsTheRow' /\ TakeoverHasNextEpoch'
  BY <1>2 DEF CancelSeesUnfinishedTask, CloseFollowsTheRow, TakeoverHasNextEpoch, Idle
<1> QED BY <1>4, <1>5, <1>6, <1>7, <1>8 DEF Inductive

LEMMA ExecutionEndsStep ==
  ASSUME Inductive, NEW c, ExecutionEnds(c)
  PROVE  Inductive'
<1> USE DEF EndStatuses
<1>1. CASE Complete(c)
  BY <1>1, EndExecutionStep DEF Complete
<1>2. CASE WaitForConfirmation(c)
  BY <1>2, EndExecutionStep DEF WaitForConfirmation
<1>3. CASE PauseAtCheckpoint(c)
  BY <1>3, EndExecutionStep DEF PauseAtCheckpoint
<1>4. CASE Fail(c)
  BY <1>4, EndExecutionStep DEF Fail
<1>5. ASSUME NEW qualityBlocked \in BOOLEAN, ChapterError(c, qualityBlocked)
      PROVE  Inductive'
  BY <1>5, EndExecutionStep DEF ChapterError
<1>6. CASE ExecutionThrows(c)
  <2>1. TypeOK'
    BY <1>6 DEF ExecutionThrows, Inductive, TypeOK
  <2> QED BY <1>6, <2>1, MemoryStep DEF ExecutionThrows, taskVars
<1> QED BY <1>1, <1>2, <1>3, <1>4, <1>5, <1>6 DEF ExecutionEnds, EndsOtherwise

LEMMA WorkerClosesStep ==
  ASSUME Inductive, NEW r, NEW status \in {"failed", "blocked"}, WorkerCloses(r, status)
  PROVE  Inductive'
<1>1. r.task \in Tasks /\ row[r.task] \in Rows
  BY DEF WorkerCloses, Inductive, TypeOK, Claims
<1>2. row[r.task].status = "working" /\ row[r.task].no = r.no
  BY DEF WorkerCloses, Holds
<1>3. TypeOK'
  BY <1>1, ReleasedRow, ClosedAttempt
  DEF WorkerCloses, Inductive, TypeOK, Statuses, AttemptStatuses
<1> QED BY <1>1, <1>2, <1>3, AttemptEnds DEF WorkerCloses, WorkerEnds, AttemptEndings

LEMMA RecoverRowStep ==
  ASSUME Inductive, NEW s, NEW working \in BOOLEAN, NEW unresolved \in BOOLEAN,
         RecoverRow(s, working, unresolved)
  PROVE  Inductive'
<1> DEFINE t == s.task
           status == RecoveredStatus(s, working, unresolved)
           attemptStatus == IF status = "queued" THEN "expired" ELSE status
<1>1. t \in Tasks /\ row[t] \in Rows
  BY DEF RecoverRow, Inductive, TypeOK, Snapshots
<1>2. /\ status \in Statuses /\ status \in WorkerEnds
      /\ attemptStatus \in AttemptStatuses /\ attemptStatus \in AttemptEndings
  BY DEF RecoveredStatus, Statuses, AttemptStatuses, WorkerEnds, AttemptEndings
<1>3. CASE UNCHANGED <<row, attempt>>
  <2>1. TypeOK'
    BY <1>3 DEF RecoverRow, Inductive, TypeOK
  <2> QED BY <1>3, <2>1, MemoryStep DEF RecoverRow, taskVars
<1>4. CASE /\ row[t].status = "working" /\ row[t].no = s.no
           /\ row' = [row EXCEPT ![t] = Released(@, status)]
           /\ attempt' = Closed(t, s.no, attemptStatus)
  <2> HIDE DEF status, attemptStatus
  <2>1. TypeOK'
    BY <1>1, <1>2, <1>4, ReleasedRow, ClosedAttempt DEF RecoverRow, Inductive, TypeOK
  <2> HIDE DEF t
  <2> QED BY <1>1, <1>2, <1>4, <2>1, AttemptEnds DEF RecoverRow
<1> QED BY <1>3, <1>4 DEF RecoverRow

LEMMA ClaimNextStep ==
  ASSUME Inductive, NEW t \in Tasks, ClaimNext(t)
  PROVE  Inductive'
<1> DEFINE n == row[t].no + 1
           r == [row[t] EXCEPT !.status = "working", !.no = n, !.token = n, !.lease = "live"]
           c == [task |-> t, no |-> n]
<1>1. /\ row[t].no \in 0 .. MaxAttempts /\ row[t].no < MaxAttempts
      /\ n \in 0 .. MaxAttempts /\ n \in 1 .. MaxAttempts
  BY CountsAssumption DEF ClaimNext, Inductive, TypeOK, Rows
<1>2. r \in Rows
  <2> HIDE DEF n
  <2> QED BY <1>1, ClaimedRow DEF Inductive, TypeOK
<1>3. c \in Claims
  BY <1>1 DEF Claims
<1>4. /\ row' = [row EXCEPT ![t] = r] /\ attempt' = [attempt EXCEPT ![t][n] = "working"]
      /\ runs' = runs \cup {c} /\ execs' \in {execs, execs \cup {c}}
      /\ inFlight' = inFlight \cup {t} /\ UNCHANGED <<needs, editor, expired, api>>
  BY DEF ClaimNext
<1>5. TypeOK'
  <2> HIDE DEF n, r, c
  <2> QED BY <1>1, <1>2, <1>3, <1>4 DEF Inductive, TypeOK, AttemptStatuses
<1> HIDE DEF c
<1>6. /\ r.status = "working" /\ r.no = n /\ r.token = n /\ r.lease = "live"
      /\ r.epoch = row[t].epoch
  BY DEF Inductive, TypeOK, Rows
<1>7. n # 0 /\ n > row[t].no /\ \A k \in 1 .. MaxAttempts : k > n <=> (k > row[t].no /\ k # n)
  BY <1>1
<1> HIDE DEF r, n
<1>8. \A u \in Tasks : row'[u] = IF u = t THEN r ELSE row[u]
  BY <1>4 DEF Inductive, TypeOK
<1>9. \A u \in Tasks, k \in 1 .. MaxAttempts :
        attempt'[u][k] = IF u = t /\ k = n THEN "working" ELSE attempt[u][k]
  BY <1>1, <1>4 DEF Inductive, TypeOK
<1>10. Claimable(t)
  BY DEF ClaimNext
<1>11. WorkingRowsCarryTheirLease'
  <2>1. row'[t] = r /\ attempt'[t][n] = "working" /\ n >= 1
    BY <1>1, <1>8, <1>9
  <2>2. ASSUME NEW u \in Tasks \ {t}
        PROVE  /\ row'[u] = row[u] /\ \A k \in 1 .. MaxAttempts : attempt'[u][k] = attempt[u][k]
               /\ row[u].no >= 1 => row[u].no \in 1 .. MaxAttempts
    BY <1>8, <1>9 DEF Inductive, TypeOK, Rows
  <2> QED BY <1>6, <2>1, <2>2 DEF Inductive, WorkingRowsCarryTheirLease
<1>12. AttemptsMatchTheRow'
  BY <1>1, <1>6, <1>7, <1>8, <1>9, <1>10 DEF Inductive, AttemptsMatchTheRow, Claimable
<1>13. OneLiveTaskPerBook'
  BY <1>6, <1>8, <1>10 DEF Inductive, OneLiveTaskPerBook, WorkingRowsCarryTheirLease, Claimable
<1>14. WorkingInCurrentEpoch'
  BY <1>4, <1>6, <1>8, <1>10 DEF Inductive, WorkingInCurrentEpoch, EpochOK, Claimable
<1>15. DependenciesSucceeded'
  BY <1>4, <1>8, <1>10 DEF Inductive, DependenciesSucceeded, Claimable, TypeOK
<1>16. UnusedRowsWereNeverClaimed' /\ CancelSeesUnfinishedTask' /\ TakeoverHasNextEpoch'
  BY <1>4, <1>6, <1>8 DEF Inductive, UnusedRowsWereNeverClaimed, CancelSeesUnfinishedTask, TakeoverHasNextEpoch
<1>17. CloseFollowsTheRow'
  BY <1>4, <1>8, <1>10
  DEF Inductive, CloseFollowsTheRow, Claimable, TypeOK, Handlers, Idle, EndStatuses
<1> QED BY <1>5, <1>11, <1>12, <1>13, <1>14, <1>15, <1>16, <1>17 DEF Inductive

LEMMA WorkerStepStep ==
  ASSUME Inductive, WorkerStep
  PROVE  Inductive'
<1>1. CASE ReadExpired
  <2>1. TypeOK'
    BY <1>1 DEF ReadExpired, ExpiredTasks, Inductive, TypeOK, Rows, Snapshots
  <2> QED BY <1>1, <2>1, MemoryStep DEF ReadExpired, taskVars
<1>2. ASSUME NEW t \in Tasks, ClaimNext(t)
      PROVE  Inductive'
  BY <1>2, ClaimNextStep
<1>3. ASSUME NEW r \in runs, RunEnds(r)
      PROVE  Inductive'
  <2>1. TypeOK'
    BY <1>3 DEF RunEnds, Inductive, TypeOK
  <2> QED BY <1>3, <2>1, MemoryStep DEF RunEnds, taskVars
<1>4. ASSUME NEW r \in runs, WorkerFail(r) \/ WorkerBlock(r)
      PROVE  Inductive'
  BY <1>4, WorkerClosesStep DEF WorkerFail, WorkerBlock
<1>5. ASSUME NEW t \in Tasks, RecoverAny(t)
      PROVE  Inductive'
  BY <1>5, RecoverRowStep DEF RecoverAny
<1> QED BY <1>1, <1>2, <1>3, <1>4, <1>5 DEF WorkerStep, PumpStep

-----------------------------------------------------------------------------
(* Takeover, and the environment.                                          *)

LEMMA PrepareTakeoverStep ==
  ASSUME Inductive, NEW b \in Books, NEW safe \in BOOLEAN, PrepareTakeover(b, safe)
  PROVE  Inductive'
<1>1. /\ editor' = [editor EXCEPT ![b].state = "ready"] /\ editor[b].epoch < MaxEpoch
      /\ api' = [op |-> "takeover", book |-> b]
      /\ UNCHANGED <<row, attempt, needs, inFlight, runs, expired, execs>>
  BY DEF PrepareTakeover
<1>2. TypeOK'
  BY <1>1 DEF Inductive, TypeOK, Handlers
<1>3. \A x \in Books : editor'[x].epoch = editor[x].epoch
  BY <1>1 DEF Inductive, TypeOK
<1>4. /\ WorkingRowsCarryTheirLease' /\ AttemptsMatchTheRow' /\ OneLiveTaskPerBook'
      /\ DependenciesSucceeded' /\ UnusedRowsWereNeverClaimed'
  BY <1>1 DEF Inductive, WorkingRowsCarryTheirLease, AttemptsMatchTheRow,
         OneLiveTaskPerBook, DependenciesSucceeded, UnusedRowsWereNeverClaimed
<1>5. WorkingInCurrentEpoch'
  BY <1>1, <1>3, BooksAssumption DEF Inductive, WorkingInCurrentEpoch, EpochOK
<1>6. CancelSeesUnfinishedTask' /\ CloseFollowsTheRow' /\ TakeoverHasNextEpoch'
  BY <1>1, <1>3 DEF CancelSeesUnfinishedTask, CloseFollowsTheRow, TakeoverHasNextEpoch
<1> QED BY <1>2, <1>4, <1>5, <1>6 DEF Inductive

\* A takeover ends the working rows and attempts of its book, and no others.
LEMMA TakeoverEnds ==
  ASSUME Inductive, NEW calling \in SUBSET Tasks, CompleteTakeover(calling), NEW t \in Tasks
  PROVE  /\ row'[t] \in Rows /\ row'[t].no = row[t].no
         /\ row[t].status # "working" =>
              /\ row'[t].status = row[t].status /\ row'[t].lease = row[t].lease
              /\ row'[t].token = row[t].token
         /\ row[t].status = "working" =>
              IF BookOf[t] = api.book
                THEN row'[t].status \in {"queued", "interrupted"} /\ row'[t].lease = "none" /\ row'[t].token = 0
                ELSE row'[t] = row[t]
         /\ \A n \in 1 .. MaxAttempts :
              IF attempt[t][n] = "working" /\ BookOf[t] = api.book
                THEN attempt'[t][n] \in {"interrupted", "expired"}
                ELSE attempt'[t][n] = attempt[t][n]
<1> DEFINE next == editor[api.book].epoch + 1
           status == IF t \in calling THEN "interrupted" ELSE "queued"
           moved == /\ BookOf[t] = api.book
                    /\ row[t].status \notin {"absent", "succeeded", "failed", "cancelled"}
           q == Released(row[t], status)
<1>1. row'[t] = IF ~moved THEN row[t]
                ELSE IF row[t].status = "working" THEN [q EXCEPT !.epoch = next]
                  ELSE [row[t] EXCEPT !.epoch = next]
  BY DEF CompleteTakeover
<1>2. \A n \in 1 .. MaxAttempts :
        IF attempt[t][n] = "working" /\ BookOf[t] = api.book
          THEN attempt'[t][n] \in {"interrupted", "expired"}
          ELSE attempt'[t][n] = attempt[t][n]
  BY DEF CompleteTakeover
<1>3. row[t] \in Rows /\ next \in 0 .. MaxEpoch
  BY CountsAssumption
  DEF CompleteTakeover, Inductive, TypeOK, Handlers, Idle, TakeoverHasNextEpoch
<1>4. /\ q \in Rows /\ q.status \in {"queued", "interrupted"}
      /\ q.lease = "none" /\ q.token = 0 /\ q.no = row[t].no
  BY <1>3, ReleasedRow DEF Statuses
<1> HIDE DEF q, next
<1>5. [q EXCEPT !.epoch = next] \in Rows /\ [row[t] EXCEPT !.epoch = next] \in Rows
  BY <1>3, <1>4, OneColumn
<1>6. CASE ~moved
  BY <1>1, <1>2, <1>3, <1>6
<1>7. CASE moved /\ row[t].status = "working"
  <2>1. row'[t] = [q EXCEPT !.epoch = next]
    BY <1>1, <1>7
  <2> QED BY <1>2, <1>4, <1>5, <1>7, <2>1 DEF Rows
<1>8. CASE moved /\ row[t].status # "working"
  <2>1. row'[t] = [row[t] EXCEPT !.epoch = next]
    BY <1>1, <1>8
  <2> QED BY <1>2, <1>3, <1>5, <1>8, <2>1 DEF Rows
<1> QED BY <1>6, <1>7, <1>8

LEMMA CompleteTakeoverStep ==
  ASSUME Inductive, NEW calling \in SUBSET Tasks, CompleteTakeover(calling)
  PROVE  Inductive'
<1> DEFINE b == api.book
           next == editor[b].epoch + 1
<1>1. b \in Books /\ next \in 1 .. MaxEpoch
  BY CountsAssumption
  DEF CompleteTakeover, Inductive, TypeOK, Handlers, Idle, TakeoverHasNextEpoch
<1>2. /\ editor' = [editor EXCEPT ![b] = [active |-> IF @.active = "chief" THEN "deputy" ELSE "chief",
                                          epoch |-> next, state |-> "stable"]]
      /\ api' = Idle /\ UNCHANGED <<needs, inFlight, runs, expired, execs>>
  BY DEF CompleteTakeover
<1> HIDE DEF next, b
<1>3. TypeOK'
  <2>1. row' \in [Tasks -> Rows]
    BY TakeoverEnds DEF CompleteTakeover
  <2>2. attempt' \in [Tasks -> [1 .. MaxAttempts -> AttemptStatuses]]
    BY DEF CompleteTakeover, Inductive, TypeOK, AttemptStatuses
  <2>3. editor' \in [Books -> [active : {"chief", "deputy"}, epoch : 1 .. MaxEpoch,
                               state : {"stable", "ready"}]]
    BY <1>1, <1>2 DEF Inductive, TypeOK
  <2> QED BY <1>2, <2>1, <2>2, <2>3 DEF Inductive, TypeOK, Handlers
<1>4. WorkingRowsCarryTheirLease'
  <2>1. ASSUME NEW t \in Tasks, row'[t].status = "working"
        PROVE  /\ row'[t] = row[t] /\ row[t].no \in 1 .. MaxAttempts
               /\ attempt'[t][row[t].no] = "working"
    <3>1. row'[t] = row[t] /\ BookOf[t] # api.book
      BY <2>1, TakeoverEnds
    <3>2. row[t].no \in 1 .. MaxAttempts /\ attempt[t][row[t].no] = "working"
      BY <2>1, <3>1 DEF Inductive, WorkingRowsCarryTheirLease, TypeOK, Rows
    <3> QED BY <3>1, <3>2, TakeoverEnds
  <2> QED BY <2>1, TakeoverEnds DEF Inductive, WorkingRowsCarryTheirLease
<1>5. AttemptsMatchTheRow'
  <2>1. ASSUME NEW t \in Tasks, NEW n \in 1 .. MaxAttempts
        PROVE  /\ attempt'[t][n] = attempt[t][n]
                  \/ (attempt[t][n] = "working" /\ attempt'[t][n] \in {"interrupted", "expired"})
               /\ row'[t].no = row[t].no
               /\ row[t].status # "working" => row'[t].status = row[t].status
    BY TakeoverEnds
  <2> QED BY <2>1 DEF Inductive, AttemptsMatchTheRow
<1>6. OneLiveTaskPerBook'
  BY <1>4, TakeoverEnds DEF Inductive, OneLiveTaskPerBook, WorkingRowsCarryTheirLease
<1>7. WorkingInCurrentEpoch'
  <2>1. \A t \in Tasks : row'[t].status = "working" => row'[t] = row[t] /\ BookOf[t] # b
    BY TakeoverEnds DEF b
  <2> QED BY <1>1, <1>2, <2>1, BooksAssumption DEF Inductive, WorkingInCurrentEpoch, EpochOK, TypeOK
<1>8. DependenciesSucceeded'
  BY <1>2, TakeoverEnds DEF Inductive, DependenciesSucceeded, TypeOK
<1>9. /\ UnusedRowsWereNeverClaimed' /\ CancelSeesUnfinishedTask'
      /\ CloseFollowsTheRow' /\ TakeoverHasNextEpoch'
  BY <1>2, TakeoverEnds
  DEF Inductive, UnusedRowsWereNeverClaimed, CancelSeesUnfinishedTask, CloseFollowsTheRow,
      TakeoverHasNextEpoch, Idle
<1> QED BY <1>3, <1>4, <1>5, <1>6, <1>7, <1>8, <1>9 DEF Inductive

LEMMA EnvironmentStepStep ==
  ASSUME Inductive, EnvironmentStep
  PROVE  Inductive'
<1>1. ASSUME NEW t \in Tasks, LeaseExpires(t)
      PROVE  Inductive'
  <2> DEFINE r == [row[t] EXCEPT !.lease = "expired"]
  <2>1. r \in Rows
    BY OneColumn DEF Inductive, TypeOK
  <2>2. /\ r.lease = "expired" /\ r.status = row[t].status /\ r.no = row[t].no
        /\ r.token = row[t].token /\ r.epoch = row[t].epoch
    BY DEF Inductive, TypeOK, Rows
  <2>3. row' = [row EXCEPT ![t] = r] /\ row[t].lease = "live"
    BY <1>1 DEF LeaseExpires
  <2>4. row[t].status = "working"
    BY <2>3 DEF Inductive, WorkingRowsCarryTheirLease
  <2> HIDE DEF r
  <2>5. TypeOK'
    BY <1>1, <2>1, <2>3 DEF LeaseExpires, Inductive, TypeOK
  <2> QED BY <1>1, <2>1, <2>2, <2>3, <2>4, <2>5, RowWritten DEF LeaseExpires
<1>2. CASE ApiCrash
  <2>1. TypeOK'
    BY <1>2 DEF ApiCrash, Inductive, TypeOK, Handlers
  <2> QED BY <1>2, <2>1, MemoryStep DEF ApiCrash, taskVars
<1>3. CASE WorkerCrash
  <2>1. TypeOK'
    BY <1>3 DEF WorkerCrash, Inductive, TypeOK
  <2> QED BY <1>3, <2>1, MemoryStep DEF WorkerCrash, taskVars
<1> QED BY <1>1, <1>2, <1>3 DEF EnvironmentStep

-----------------------------------------------------------------------------
(* The theorems.                                                           *)

\* The empty database: no task exists, every book is edited by its chief.
LEMMA InitInductive == Init => Inductive
<1> SUFFICES ASSUME Init PROVE Inductive
  OBVIOUS
<1>1. 0 \in 0 .. MaxAttempts /\ 0 \in 0 .. MaxEpoch /\ 1 \in 1 .. MaxEpoch
  BY CountsAssumption DEF Init
<1>2. /\ AbsentRow \in Rows /\ AbsentRow.status = "absent" /\ AbsentRow.lease = "none"
      /\ AbsentRow.no = 0 /\ AbsentRow.token = 0
  BY <1>1 DEF AbsentRow, Rows, TaskTypes
<1>3. \A t \in Tasks : row[t] = AbsentRow
  BY DEF Init
<1> HIDE DEF AbsentRow
<1>4. TypeOK
  BY <1>1, <1>2 DEF Init, TypeOK, AttemptStatuses, Handlers
<1>5. /\ WorkingRowsCarryTheirLease /\ OneLiveTaskPerBook /\ WorkingInCurrentEpoch
      /\ DependenciesSucceeded /\ UnusedRowsWereNeverClaimed
  BY <1>2, <1>3 DEF WorkingRowsCarryTheirLease, OneLiveTaskPerBook, WorkingInCurrentEpoch,
                    DependenciesSucceeded, UnusedRowsWereNeverClaimed
<1>6. AttemptsMatchTheRow
  BY <1>2, <1>3 DEF Init, AttemptsMatchTheRow
<1>7. CancelSeesUnfinishedTask /\ CloseFollowsTheRow /\ TakeoverHasNextEpoch
  BY DEF Init, Idle, CancelSeesUnfinishedTask, CloseFollowsTheRow, TakeoverHasNextEpoch
<1> QED BY <1>4, <1>5, <1>6, <1>7 DEF Inductive

LEMMA NextInductive == Inductive /\ [Next]_vars => Inductive'
<1> SUFFICES ASSUME Inductive, [Next]_vars PROVE Inductive'
  OBVIOUS
<1>1. CASE AuthorStep
  <2>1. ASSUME NEW t \in Tasks, NEW e \in 0 .. MaxEpoch, NEW deps \in SUBSET (1 .. t - 1),
             NEW type \in Types, Create(t, e, deps, type)
        PROVE  Inductive'
    BY <2>1, CreateStep
  <2>2. ASSUME NEW t \in Tasks, NEW choice \in BOOLEAN,
               \/ Queue(t) \/ CompleteSynchronous(t) \/ RetryFailed(t, choice)
               \/ ResolveWaitingConfirmation(t, choice) \/ CancelRead(t)
        PROVE  Inductive'
    BY <2>2, QueueStep, CompleteSynchronousStep, RetryStep, ResolveStep, CancelReadStep
  <2>3. CASE CancelWrite
    BY <2>3, CancelWriteStep
  <2> QED BY <1>1, <2>1, <2>2, <2>3 DEF AuthorStep, CreateAny
<1>2. CASE ExecutionStep
  BY <1>2, ExecutionEndsStep, CloseAttemptStep DEF ExecutionStep
<1>3. CASE TakeoverStep
  BY <1>3, PrepareTakeoverStep, CompleteTakeoverStep DEF TakeoverStep
<1>4. CASE WorkerStep
  BY <1>4, WorkerStepStep
<1>5. CASE EnvironmentStep
  BY <1>5, EnvironmentStepStep
<1>6. CASE UNCHANGED vars
  BY <1>6, MemoryStep DEF vars, taskVars, Inductive, TypeOK
<1> QED BY <1>1, <1>2, <1>3, <1>4, <1>5, <1>6 DEF Next

\* The inductive invariant holds in every reachable state: claims, six kinds of
\* ends, recovery of expired leases, takeovers, cancellations and crashes of both
\* processes, in any order and for any number of tasks and books, keep it.
THEOREM InductiveHolds == Spec => []Inductive
  BY InitInductive, NextInductive, PTL DEF Spec

\* Columns, handlers and the memory of both processes keep their types; attempt
\* numbers and lease tokens stay within the claims that were made.
THEOREM TypeCorrect == Spec => []TypeOK
<1>1. Inductive => TypeOK
  BY DEF Inductive
<1> QED BY <1>1, InductiveHolds, PTL

\* A row is working exactly while it has a lease, the token of its last claim and
\* an open attempt; and although an attempt is closed after its row was released,
\* or never when the API dies in between, what attempts record as delivered is
\* what their task delivered.
THEOREM LeasesMatchRows == Spec => [](WorkingRowsCarryTheirLease /\ AttemptsMatchTheRow)
<1>1. Inductive => WorkingRowsCarryTheirLease /\ AttemptsMatchTheRow
  BY DEF Inductive
<1> QED BY <1>1, InductiveHolds, PTL

\* claimNext gives out at most one live lease for a book, for any number of tasks.
THEOREM BookIsExclusive == Spec => []OneLiveTaskPerBook
<1>1. Inductive => OneLiveTaskPerBook
  BY DEF Inductive
<1> QED BY <1>1, InductiveHolds, PTL

\* A working task was claimed in the current editor epoch, and a takeover leaves
\* no task of its book working: fail and block need no epoch fence.
THEOREM WorkIsCurrent == Spec => []WorkingInCurrentEpoch
<1>1. Inductive => WorkingInCurrentEpoch
  BY DEF Inductive
<1> QED BY <1>1, InductiveHolds, PTL

\* No task is claimed before its dependencies have succeeded, and none of them
\* is un-succeeded later, by a cancellation that read an older status or otherwise.
THEOREM DependenciesHold == Spec => []DependenciesSucceeded
<1>1. Inductive => DependenciesSucceeded
  BY DEF Inductive
<1> QED BY <1>1, InductiveHolds, PTL

\* However many executions of lost leases are still running in the API process,
\* the fence of a book's rows is passed by at most one of them.
THEOREM OneWriterPerBook == Spec => []OneExecutionCanCommit
<1>1. Inductive => OneExecutionCanCommit
  <2> SUFFICES ASSUME Inductive, NEW c \in execs, NEW d \in execs,
                      Holds(c), Holds(d), BookOf[c.task] = BookOf[d.task]
               PROVE  c = d
    BY DEF OneExecutionCanCommit
  <2>1. c \in Claims /\ d \in Claims
    BY DEF Inductive, TypeOK
  <2>2. c.task = d.task
    BY <2>1 DEF Inductive, OneLiveTaskPerBook, Holds, Claims
  <2>3. c.no = d.no
    BY <2>2 DEF Holds
  <2> QED BY <2>1, <2>2, <2>3 DEF Claims
<1> QED BY <1>1, InductiveHolds, PTL
-----------------------------------------------------------------------------
(* The steps: what none of them may do, and that each is a step of         *)
(* ExclusiveExecution or changes nothing of it.  Under Inductive every     *)
(* step is of one of six kinds (StepKinds); the theorems are proved kind   *)
(* by kind.                                                                *)

\* One row is written, and no attempt: the right to write is at most lost, and
\* a row succeeds by the author's decision or without ever having been claimed.
WritesRow(t) ==
  /\ UNCHANGED attempt
  /\ \A u \in Tasks \ {t} : row'[u] = row[u]
  /\ row'[t].no = row[t].no
  /\ row'[t].lease = "live" => row[t].lease = "live"
  /\ row[t].status \in {"succeeded", "cancelled"} => row'[t].status = row[t].status
  /\ row[t].status = "working" => row'[t].status \in {"working", "cancelled"}
  /\ row'[t].status = "waiting_confirmation" => row[t].status = "waiting_confirmation"
  /\ row'[t].status = "succeeded" =>
       row[t].status \in {"succeeded", "waiting_confirmation"} \/ row[t].no = 0

\* An execution ends under its live lease; its attempt is still open.
EndsRow(t, status) ==
  /\ UNCHANGED attempt
  /\ row[t].status = "working" /\ row[t].lease = "live"
  /\ row' = [row EXCEPT ![t] = Released(@, status)]

\* The worker ends a working row and its attempt; blocked only under a live lease.
EndsAttempt(t, status, attemptStatus) ==
  /\ row[t].status = "working"
  /\ row' = [row EXCEPT ![t] = Released(@, status)]
  /\ attempt' = Closed(t, row[t].no, attemptStatus)
  /\ row[t].lease = "live" \/ status # "blocked"

-----------------------------------------------------------------------------
LEMMA AuthorKinds ==
  ASSUME Inductive, AuthorStep
  PROVE  (\E t \in Tasks : WritesRow(t)) \/ UNCHANGED <<row, attempt>>
<1> USE DEF Inductive, TypeOK, Rows, WritesRow
<1>1. ASSUME NEW t \in Tasks, NEW e \in 0 .. MaxEpoch, NEW deps \in SUBSET (1 .. t - 1),
             NEW type \in Types, Create(t, e, deps, type)
      PROVE  WritesRow(t)
  BY <1>1 DEF Create, AbsentRow, UnusedRowsWereNeverClaimed
<1>2. ASSUME NEW t \in Tasks, Queue(t)
      PROVE  WritesRow(t)
  BY <1>2 DEF Queue
<1>3. ASSUME NEW t \in Tasks, CompleteSynchronous(t)
      PROVE  WritesRow(t)
  BY <1>3 DEF CompleteSynchronous, UnusedRowsWereNeverClaimed
<1>4. ASSUME NEW t \in Tasks, NEW incomplete \in BOOLEAN, RetryFailed(t, incomplete)
      PROVE  WritesRow(t)
  BY <1>4 DEF RetryFailed, Released
<1>5. ASSUME NEW t \in Tasks, NEW accept \in BOOLEAN, ResolveWaitingConfirmation(t, accept)
      PROVE  WritesRow(t)
  BY <1>5 DEF ResolveWaitingConfirmation
<1>6. ASSUME NEW t \in Tasks, CancelRead(t)
      PROVE  UNCHANGED <<row, attempt>>
  BY <1>6 DEF CancelRead
<1>7. CASE CancelWrite
  <2>1. api.task \in Tasks /\ (api.atOnce => row[api.task].status # "succeeded")
    BY <1>7 DEF CancelWrite, Handlers, Idle, CancelSeesUnfinishedTask
  <2>2. WritesRow(api.task)
    BY <1>7, <2>1 DEF CancelWrite
  <2> QED BY <2>1, <2>2
<1> QED BY <1>1, <1>2, <1>3, <1>4, <1>5, <1>6, <1>7 DEF AuthorStep, CreateAny

LEMMA ExecutionKinds ==
  ASSUME Inductive, NEW c \in execs, ExecutionEnds(c)
  PROVE  \/ c.task \in Tasks /\ \E status \in EndStatuses : EndsRow(c.task, status)
         \/ UNCHANGED <<row, attempt>>
<1>1. c.task \in Tasks
  BY DEF Inductive, TypeOK, Claims
<1>2. ASSUME NEW status, EndExecution(c, status)
      PROVE  EndsRow(c.task, status)
  BY <1>2 DEF EndExecution, EndsRow, Holds
<1>3. (\E status \in EndStatuses : EndExecution(c, status)) \/ ExecutionThrows(c)
  BY DEF ExecutionEnds, EndsOtherwise, Complete, WaitForConfirmation, PauseAtCheckpoint, Fail, ChapterError, EndStatuses
<1>4. ExecutionThrows(c) => UNCHANGED <<row, attempt>>
  BY DEF ExecutionThrows
<1> QED BY <1>1, <1>2, <1>3, <1>4

LEMMA WorkerKinds ==
  ASSUME Inductive, WorkerStep
  PROVE  \/ \E t \in Tasks, status \in WorkerEnds, attemptStatus \in AttemptEndings :
              EndsAttempt(t, status, attemptStatus)
         \/ \E t \in Tasks : ClaimNext(t)
         \/ UNCHANGED <<row, attempt>>
<1>1. ASSUME NEW r \in runs, NEW status \in {"failed", "blocked"}, WorkerCloses(r, status)
      PROVE  /\ r.task \in Tasks /\ status \in WorkerEnds /\ status \in AttemptEndings
             /\ EndsAttempt(r.task, status, status)
  BY <1>1 DEF WorkerCloses, EndsAttempt, Holds, Inductive, TypeOK, Claims, WorkerEnds, AttemptEndings
<1>2. ASSUME NEW s \in expired, NEW working \in BOOLEAN, NEW unresolved \in BOOLEAN,
             RecoverRow(s, working, unresolved)
      PROVE  \/ \E t \in Tasks, status \in WorkerEnds, attemptStatus \in AttemptEndings :
                  EndsAttempt(t, status, attemptStatus)
             \/ UNCHANGED <<row, attempt>>
  <2> DEFINE status == RecoveredStatus(s, working, unresolved)
             attemptStatus == IF status = "queued" THEN "expired" ELSE status
  <2>1. s.task \in Tasks
    BY DEF Inductive, TypeOK, Snapshots
  <2>2. status \in WorkerEnds /\ status # "blocked" /\ attemptStatus \in AttemptEndings
    BY DEF RecoveredStatus, WorkerEnds, AttemptEndings
  <2>3. \/ UNCHANGED <<row, attempt>>
        \/ /\ row[s.task].status = "working" /\ row[s.task].no = s.no
           /\ row' = [row EXCEPT ![s.task] = Released(@, status)]
           /\ attempt' = Closed(s.task, s.no, attemptStatus)
    BY <1>2 DEF RecoverRow
  <2> HIDE DEF status, attemptStatus
  <2> QED BY <2>1, <2>2, <2>3 DEF EndsAttempt
<1>3. ASSUME NEW r \in runs, WorkerFail(r) \/ WorkerBlock(r)
      PROVE  WorkerCloses(r, "failed") \/ WorkerCloses(r, "blocked")
  BY <1>3 DEF WorkerFail, WorkerBlock
<1>4. ReadExpired \/ (\E r \in runs : RunEnds(r)) => UNCHANGED <<row, attempt>>
  BY DEF ReadExpired, RunEnds
<1> QED BY <1>1, <1>2, <1>3, <1>4 DEF WorkerStep, PumpStep, RecoverAny

\* Every step: a row is written, an execution or an attempt ends, an attempt is
\* closed, a task is claimed, a book is taken over, or rows and attempts stay.
LEMMA StepKinds ==
  ASSUME Inductive, [Next]_vars
  PROVE  \/ \E t \in Tasks : WritesRow(t)
         \/ \E t \in Tasks, status \in EndStatuses : EndsRow(t, status)
         \/ CloseAttempt
         \/ \E t \in Tasks, status \in WorkerEnds, attemptStatus \in AttemptEndings :
              EndsAttempt(t, status, attemptStatus)
         \/ \E t \in Tasks : ClaimNext(t)
         \/ \E calling \in SUBSET Tasks : CompleteTakeover(calling)
         \/ UNCHANGED <<row, attempt>>
<1>1. CASE AuthorStep
  BY <1>1, AuthorKinds
<1>2. CASE ExecutionStep
  BY <1>2, ExecutionKinds DEF ExecutionStep
<1>3. CASE TakeoverStep
  BY <1>3 DEF TakeoverStep, PrepareTakeover
<1>4. CASE WorkerStep
  BY <1>4, WorkerKinds
<1>5. CASE EnvironmentStep
  <2>1. ASSUME NEW t \in Tasks, LeaseExpires(t)
        PROVE  WritesRow(t)
    <3>1. row[t].status = "working"
      BY <2>1 DEF LeaseExpires, Inductive, WorkingRowsCarryTheirLease
    <3> QED BY <2>1, <3>1 DEF LeaseExpires, WritesRow, Inductive, TypeOK, Rows
  <2>2. ApiCrash \/ WorkerCrash => UNCHANGED <<row, attempt>>
    BY DEF ApiCrash, WorkerCrash
  <2> QED BY <1>5, <2>1, <2>2 DEF EnvironmentStep
<1>6. CASE UNCHANGED vars
  BY <1>6 DEF vars
<1> QED BY <1>1, <1>2, <1>3, <1>4, <1>5, <1>6 DEF Next

-----------------------------------------------------------------------------
(* What a step may never do.                                               *)

LEMMA EndsOneAttempt ==
  ASSUME Inductive, NEW t \in Tasks, NEW status \in WorkerEnds, NEW attemptStatus \in AttemptEndings,
         EndsAttempt(t, status, attemptStatus)
  PROVE  /\ \A u \in Tasks \ {t} : row'[u] = row[u]
         /\ row'[t].status = status /\ row'[t].lease = "none" /\ row'[t].no = row[t].no
         /\ row[t].no \in 1 .. MaxAttempts /\ row[t].token = row[t].no
         /\ attempt[t][row[t].no] = "working"
         /\ \A u \in Tasks, n \in 1 .. MaxAttempts :
              attempt'[u][n] = IF u = t /\ n = row[t].no THEN attemptStatus ELSE attempt[u][n]
<1>1. row[t] \in Rows /\ status \in Statuses /\ attemptStatus \in AttemptStatuses
  BY DEF Inductive, TypeOK, WorkerEnds, AttemptEndings, Statuses, AttemptStatuses
<1>2. /\ row[t].no \in 1 .. MaxAttempts /\ row[t].token = row[t].no
      /\ attempt[t][row[t].no] = "working"
  BY <1>1 DEF EndsAttempt, Inductive, WorkingRowsCarryTheirLease, Rows
<1>3. /\ \A u \in Tasks \ {t} : row'[u] = row[u]
      /\ row'[t] = Released(row[t], status)
  BY DEF EndsAttempt, Inductive, TypeOK
<1>4. \A u \in Tasks, n \in 1 .. MaxAttempts :
        attempt'[u][n] = IF u = t /\ n = row[t].no THEN attemptStatus ELSE attempt[u][n]
  BY <1>1, <1>2, ClosedAttempt DEF EndsAttempt, Inductive
<1> QED BY <1>1, <1>2, <1>3, <1>4, ReleasedRow

LEMMA EndsOneRow ==
  ASSUME Inductive, NEW t \in Tasks, NEW status \in EndStatuses, EndsRow(t, status)
  PROVE  /\ \A u \in Tasks \ {t} : row'[u] = row[u]
         /\ row'[t].status = status /\ row'[t].lease = "none" /\ row'[t].no = row[t].no
         /\ row[t].no \in 1 .. MaxAttempts /\ row[t].token = row[t].no
<1>1. row[t] \in Rows /\ status \in Statuses
  BY DEF Inductive, TypeOK, EndStatuses, Statuses
<1>2. row[t].no \in 1 .. MaxAttempts /\ row[t].token = row[t].no
  BY <1>1 DEF EndsRow, Inductive, WorkingRowsCarryTheirLease, Rows
<1>3. (\A u \in Tasks \ {t} : row'[u] = row[u]) /\ row'[t] = Released(row[t], status)
  BY DEF EndsRow, Inductive, TypeOK
<1> QED BY <1>1, <1>2, <1>3, ReleasedRow

\* Closing leaves rows alone, and attempts that have an outcome.
LEMMA ClosesOneAttempt ==
  ASSUME Inductive, CloseAttempt
  PROVE  /\ UNCHANGED row
         /\ \A u \in Tasks, n \in 1 .. MaxAttempts :
              attempt[u][n] # "working" => attempt'[u][n] = attempt[u][n]
<1>1. api.task \in Tasks /\ api.status \in AttemptStatuses
  BY DEF CloseAttempt, Inductive, TypeOK, Handlers, Idle, EndStatuses, AttemptStatuses
<1>2. attempt' = Closed(api.task, row[api.task].no, api.status) /\ UNCHANGED row
  BY DEF CloseAttempt
<1> QED BY <1>1, <1>2, ClosedAttempt DEF Inductive

LEMMA ClaimsOneRow ==
  ASSUME Inductive, NEW t \in Tasks, ClaimNext(t)
  PROVE  /\ \A u \in Tasks \ {t} : row'[u] = row[u]
         /\ row[t].status = "queued" /\ row'[t].status = "working" /\ row'[t].lease = "live"
         /\ row[t].no + 1 \in 1 .. MaxAttempts /\ row'[t].no = row[t].no + 1
         /\ attempt[t][row[t].no + 1] = "none"
         /\ \A u \in Tasks, n \in 1 .. MaxAttempts :
              attempt'[u][n] = IF u = t /\ n = row[t].no + 1 THEN "working" ELSE attempt[u][n]
<1>1. row[t].no + 1 \in 1 .. MaxAttempts /\ row[t].no + 1 > row[t].no
  BY CountsAssumption DEF ClaimNext, Inductive, TypeOK, Rows
<1>2. /\ \A u \in Tasks \ {t} : row'[u] = row[u]
      /\ row[t].status = "queued" /\ row'[t].status = "working" /\ row'[t].lease = "live"
      /\ row'[t].no = row[t].no + 1
  BY DEF ClaimNext, Claimable, Inductive, TypeOK, Rows
<1>3. \A u \in Tasks, n \in 1 .. MaxAttempts :
        attempt'[u][n] = IF u = t /\ n = row[t].no + 1 THEN "working" ELSE attempt[u][n]
  BY <1>1 DEF ClaimNext, Inductive, TypeOK
<1>4. attempt[t][row[t].no + 1] = "none"
  BY <1>1 DEF Inductive, AttemptsMatchTheRow
<1> QED BY <1>1, <1>2, <1>3, <1>4

\* No step takes back the outcome of an attempt or of a finished task: late
\* executions, stale cancellations and takeovers included.
THEOREM OutcomesStay == Spec => OutcomesAreFinal
<1> DEFINE Final ==
      \A t \in Tasks :
        /\ row[t].status \in {"succeeded", "cancelled"} => row'[t].status = row[t].status
        /\ \A n \in 1 .. MaxAttempts :
             attempt[t][n] \notin {"none", "working"} => attempt'[t][n] = attempt[t][n]
<1>1. ASSUME Inductive, [Next]_vars PROVE Final
  <2>1. ASSUME NEW t \in Tasks, WritesRow(t) PROVE Final
    BY <2>1 DEF WritesRow
  <2>2. ASSUME NEW t \in Tasks, NEW status \in WorkerEnds, NEW attemptStatus \in AttemptEndings,
               EndsAttempt(t, status, attemptStatus)
        PROVE  Final
    <3>1. row[t].status = "working"
      BY <2>2 DEF EndsAttempt
    <3> QED BY <1>1, <2>2, <3>1, EndsOneAttempt
  <2>3. ASSUME NEW t \in Tasks, ClaimNext(t) PROVE Final
    BY <1>1, <2>3, ClaimsOneRow
  <2>4. ASSUME NEW calling \in SUBSET Tasks, CompleteTakeover(calling) PROVE Final
    BY <1>1, <2>4, TakeoverEnds
  <2>5. ASSUME NEW t \in Tasks, NEW status \in EndStatuses, EndsRow(t, status) PROVE Final
    BY <1>1, <2>5, EndsOneRow DEF EndsRow
  <2>6. CASE CloseAttempt
    BY <1>1, <2>6, ClosesOneAttempt
  <2>7. CASE UNCHANGED <<row, attempt>>
    BY <2>7
  <2> QED BY <1>1, <2>1, <2>2, <2>3, <2>4, <2>5, <2>6, <2>7, StepKinds
<1>2. Inductive /\ [Next]_vars => [Final]_vars
  BY <1>1
<1> QED BY <1>2, InductiveHolds, PTL DEF Spec, OutcomesAreFinal

\* Whatever lost its lease, was cancelled and claimed anew or belongs to an older
\* epoch never delivers: a result is written under a live lease or not at all.
THEOREM ResultsAreFenced == Spec => ResultsNeedALiveLease
<1> DEFINE Fenced ==
      \A t \in Tasks :
        /\ row[t].status = "working"
        /\ row'[t].status \in {"succeeded", "waiting_confirmation", "paused", "blocked"}
        => row[t].lease = "live" /\ EpochOK(t) /\ row[t].token = row[t].no
<1>1. ASSUME Inductive, [Next]_vars PROVE Fenced
  <2>1. ASSUME NEW t \in Tasks, WritesRow(t) PROVE Fenced
    BY <2>1 DEF WritesRow
  <2>2. ASSUME NEW t \in Tasks, NEW status \in WorkerEnds, NEW attemptStatus \in AttemptEndings,
               EndsAttempt(t, status, attemptStatus)
        PROVE  Fenced
    <3>1. EpochOK(t)
      BY <1>1, <2>2 DEF EndsAttempt, Inductive, WorkingInCurrentEpoch
    <3>2. row[t].lease = "live" \/ status \in {"queued", "interrupted", "cancelled", "failed"}
      BY <2>2 DEF EndsAttempt, WorkerEnds
    <3> QED BY <1>1, <2>2, <3>1, <3>2, EndsOneAttempt
  <2>3. ASSUME NEW t \in Tasks, ClaimNext(t) PROVE Fenced
    BY <1>1, <2>3, ClaimsOneRow
  <2>4. ASSUME NEW calling \in SUBSET Tasks, CompleteTakeover(calling) PROVE Fenced
    BY <1>1, <2>4, TakeoverEnds
  <2>5. ASSUME NEW t \in Tasks, NEW status \in EndStatuses, EndsRow(t, status) PROVE Fenced
    <3>1. EpochOK(t) /\ row[t].lease = "live"
      BY <1>1, <2>5 DEF EndsRow, Inductive, WorkingInCurrentEpoch
    <3> QED BY <1>1, <2>5, <3>1, EndsOneRow
  <2>6. CASE CloseAttempt \/ UNCHANGED <<row, attempt>>
    BY <1>1, <2>6, ClosesOneAttempt
  <2> QED BY <1>1, <2>1, <2>2, <2>3, <2>4, <2>5, <2>6, StepKinds
<1>2. Inductive /\ [Next]_vars => [Fenced]_vars
  BY <1>1
<1> QED BY <1>2, InductiveHolds, PTL DEF Spec, ResultsNeedALiveLease

-----------------------------------------------------------------------------
(* The refinement.                                                         *)

Delivered == {"succeeded", "waiting_confirmation"}

\* Nothing is delivered or decided where statuses stay, or stay away from these.
LEMMA NothingDelivered ==
  ASSUME \A t \in Tasks :
           \/ row'[t].status = row[t].status /\ row'[t].no = row[t].no
           \/ row'[t].status \notin Delivered /\ row[t].status \notin Delivered
  PROVE  offered' = offered /\ accepted' = accepted
  BY DEF offered, accepted, Delivered

\* The right of one task is lost, and nothing else is visible.
LEMMA OneLoses ==
  ASSUME NEW t \in Tasks, row[t].lease = "live" => row[t].no # 0,
         row'[t].lease = "live" => row[t].lease = "live",
         \A u \in Tasks : row'[u].no = row[u].no,
         \A u \in Tasks \ {t} : row'[u].lease = "live" <=> row[u].lease = "live",
         offered' = offered, accepted' = accepted
  PROVE  [Abstract!Next]_(Abstract!vars)
<1>1. last' = last
  BY DEF last
<1>2. CASE row[t].lease = "live" /\ row'[t].lease # "live"
  <2>1. holder' = [holder EXCEPT ![t] = 0] /\ holder[t] # 0
    BY <1>2 DEF holder
  <2>2. Abstract!Lose(t)
    BY <1>1, <2>1 DEF Abstract!Lose
  <2> QED BY <2>2 DEF Abstract!Next
<1>3. CASE row[t].lease = "live" <=> row'[t].lease = "live"
  <2>1. holder' = holder
    BY <1>3 DEF holder
  <2> QED BY <1>1, <2>1 DEF Abstract!vars
<1> QED BY <1>2, <1>3

\* The author, a timer or a cancellation writes a row: a right is lost, an offer
\* is decided, or nothing of it is visible.
LEMMA WritingRefines ==
  ASSUME Inductive, NEW t \in Tasks, WritesRow(t)
  PROVE  [Abstract!Next]_(Abstract!vars)
<1>1. row[t].lease = "live" => row[t].status = "working" /\ row[t].no # 0
  BY DEF Inductive, WorkingRowsCarryTheirLease, TypeOK, Rows
<1>2. row[t] \in Rows /\ \A u \in Tasks \ {t} : row'[u] = row[u]
  BY DEF WritesRow, Inductive, TypeOK
<1>3. CASE row[t].status = "waiting_confirmation" /\ row'[t].status # "waiting_confirmation" /\ row[t].no # 0
  <2>1. offered[t] # 0 /\ offered[t] = row[t].no /\ offered' = [offered EXCEPT ![t] = 0]
    BY <1>2, <1>3 DEF offered, WritesRow
  <2>2. accepted' \in {accepted, [accepted EXCEPT ![t] = offered[t]]}
    <3>1. row'[t].no = row[t].no
      BY DEF WritesRow
    <3>2. CASE row'[t].status = "succeeded"
      BY <1>2, <1>3, <2>1, <3>1, <3>2 DEF accepted
    <3>3. CASE row'[t].status # "succeeded"
      BY <1>2, <1>3, <3>1, <3>3 DEF accepted
    <3> QED BY <3>2, <3>3
  <2>3. holder' = holder /\ last' = last
    BY <1>1, <1>2, <1>3 DEF holder, last, WritesRow
  <2>4. Abstract!Decide(t)
    BY <2>1, <2>2, <2>3 DEF Abstract!Decide
  <2> QED BY <2>4 DEF Abstract!Next
<1>4. CASE ~(row[t].status = "waiting_confirmation" /\ row'[t].status # "waiting_confirmation" /\ row[t].no # 0)
  <2>1. row'[t].no = row[t].no
    BY DEF WritesRow
  <2>2. offered' = offered
    BY <1>2, <1>4, <2>1 DEF offered, WritesRow
  <2>3. accepted' = accepted
    BY <1>2, <1>4, <2>1 DEF accepted, WritesRow
  <2> QED BY <1>1, <1>2, <2>1, <2>2, <2>3, OneLoses DEF WritesRow
<1> QED BY <1>3, <1>4

\* An execution releases its lease and, in the same statement, delivers or does not.
LEMMA EndingRefines ==
  ASSUME Inductive, NEW t \in Tasks, NEW status \in EndStatuses, EndsRow(t, status)
  PROVE  [Abstract!Next]_(Abstract!vars)
<1>1. /\ \A u \in Tasks \ {t} : row'[u] = row[u]
      /\ row'[t].status = status /\ row'[t].lease = "none" /\ row'[t].no = row[t].no
      /\ row[t].no \in 1 .. MaxAttempts
  BY EndsOneRow
<1>2. row[t].lease = "live" /\ row[t].status = "working" /\ row[t].no # 0
  BY <1>1 DEF EndsRow
<1>3. holder' = [holder EXCEPT ![t] = 0] /\ holder[t] = row[t].no /\ last' = last
  BY <1>1, <1>2 DEF holder, last
<1>4. CASE status = "succeeded"
  <2>1. accepted' = [accepted EXCEPT ![t] = holder[t]] /\ offered' = offered
    BY <1>1, <1>2, <1>3, <1>4 DEF accepted, offered
  <2>2. Abstract!Deliver(t)
    BY <1>2, <1>3, <2>1 DEF Abstract!Deliver
  <2> QED BY <2>2 DEF Abstract!Next
<1>5. CASE status = "waiting_confirmation"
  <2>1. offered' = [offered EXCEPT ![t] = holder[t]] /\ accepted' = accepted
    BY <1>1, <1>2, <1>3, <1>5 DEF accepted, offered
  <2>2. Abstract!Deliver(t)
    BY <1>2, <1>3, <2>1 DEF Abstract!Deliver
  <2> QED BY <2>2 DEF Abstract!Next
<1>6. CASE status \notin Delivered
  <2>1. offered' = offered /\ accepted' = accepted
    BY <1>1, <1>2, <1>6, NothingDelivered DEF Delivered
  <2> QED BY <1>1, <1>2, <2>1, OneLoses
<1> QED BY <1>4, <1>5, <1>6 DEF Delivered

LEMMA StepRefines ==
  ASSUME Inductive, [Next]_vars
  PROVE  [Abstract!Next]_(Abstract!vars)
<1>1. \A t \in Tasks : row[t].lease = "live" => row[t].status = "working" /\ row[t].no # 0
  BY DEF Inductive, WorkingRowsCarryTheirLease, TypeOK, Rows
<1>2. ASSUME NEW t \in Tasks, NEW status \in WorkerEnds, NEW attemptStatus \in AttemptEndings,
             EndsAttempt(t, status, attemptStatus)
      PROVE  [Abstract!Next]_(Abstract!vars)
  <2>1. offered' = offered /\ accepted' = accepted
    <3>1. row[t].status = "working" /\ status \notin Delivered
      BY <1>2 DEF EndsAttempt, WorkerEnds, Delivered
    <3> QED BY <1>2, <3>1, EndsOneAttempt, NothingDelivered DEF Delivered
  <2> QED BY <1>1, <1>2, <2>1, EndsOneAttempt, OneLoses
<1>3. ASSUME NEW t \in Tasks, ClaimNext(t)
      PROVE  [Abstract!Next]_(Abstract!vars)
  <2>1. offered' = offered /\ accepted' = accepted
    BY <1>3, ClaimsOneRow, NothingDelivered DEF Delivered
  <2>2. \A u \in Tasks : BookOf[u] = BookOf[t] => holder[u] = 0
    BY <1>1, <1>3 DEF ClaimNext, Claimable, holder
  <2>3. last' = [last EXCEPT ![t] = @ + 1]
    BY <1>3, ClaimsOneRow DEF last
  <2>4. holder' = [holder EXCEPT ![t] = last'[t]]
    <3>1. row'[t].lease = "live" /\ \A u \in Tasks \ {t} : row'[u] = row[u]
      BY <1>3, ClaimsOneRow
    <3> QED BY <3>1 DEF holder, last
  <2>5. offered[t] = 0 /\ accepted[t] = 0
    BY <1>3, ClaimsOneRow DEF offered, accepted
  <2>6. Abstract!Acquire(t)
    BY <2>1, <2>2, <2>3, <2>4, <2>5 DEF Abstract!Acquire
  <2> QED BY <2>6 DEF Abstract!Next
<1>4. ASSUME NEW calling \in SUBSET Tasks, CompleteTakeover(calling)
      PROVE  [Abstract!Next]_(Abstract!vars)
  <2>1. offered' = offered /\ accepted' = accepted
    <3>1. ASSUME NEW t \in Tasks
          PROVE  /\ row'[t].no = row[t].no
                 /\ row[t].status # "working" => row'[t].status = row[t].status
                 /\ row[t].status = "working" => row'[t].status \notin Delivered
      BY <1>4, TakeoverEnds DEF Delivered
    <3> QED BY <3>1, NothingDelivered DEF Delivered
  <2>2. CASE \E t \in Tasks : row[t].lease = "live" /\ BookOf[t] = api.book
    <3>1. PICK t \in Tasks : row[t].lease = "live" /\ BookOf[t] = api.book
      BY <2>2
    <3>2. \A u \in Tasks \ {t} : row'[u].lease = row[u].lease \/ (row'[u].lease # "live" /\ row[u].lease # "live")
      BY <1>1, <1>4, <3>1, TakeoverEnds DEF Inductive, OneLiveTaskPerBook
    <3>3. row'[t].lease # "live" /\ \A u \in Tasks : row'[u].no = row[u].no
      BY <1>1, <1>4, <3>1, TakeoverEnds
    <3> QED BY <1>1, <2>1, <3>1, <3>2, <3>3, OneLoses
  <2>3. CASE \A t \in Tasks : BookOf[t] = api.book => row[t].lease # "live"
    <3>1. \A u \in Tasks : row'[u].no = row[u].no /\ (row'[u].lease = "live" <=> row[u].lease = "live")
      BY <1>1, <1>4, <2>3, TakeoverEnds
    <3>2. holder' = holder /\ last' = last
      BY <3>1 DEF holder, last
    <3> QED BY <2>1, <3>2 DEF Abstract!vars
  <2> QED BY <2>2, <2>3
<1>5. CASE CloseAttempt \/ UNCHANGED <<row, attempt>>
  <2>1. UNCHANGED row
    BY <1>5, ClosesOneAttempt
  <2> QED BY <2>1 DEF holder, last, offered, accepted, Abstract!vars
<1> QED BY <1>2, <1>3, <1>4, <1>5, WritingRefines, EndingRefines, StepKinds

LEMMA InitRefines == Init => Abstract!Init
<1> SUFFICES ASSUME Init PROVE Abstract!Init
  OBVIOUS
<1>1. \A t \in Tasks : row[t].lease = "none" /\ row[t].no = 0
  BY DEF Init, AbsentRow
<1> QED BY <1>1 DEF Abstract!Init, holder, last, offered, accepted

\* The runtime, with its rows, leases, epochs, two processes and crashes, gives
\* out the single right to write of each book, under fresh numbers, takes a result
\* from nobody else, and gives out none for a task that has delivered.
THEOREM Refinement == Spec => ImplementsExclusiveExecution
  BY InitRefines, StepRefines, InductiveHolds, PTL DEF Spec, ImplementsExclusiveExecution, Abstract!Spec
=============================================================================
