--------------------------- MODULE RuntimeProofs ---------------------------
(***************************************************************************)
(* Proofs about the composition, for any tasks, books, requests, attempts  *)
(* and epochs: its two sides are behaviours of TaskRuntime and ModelCalls, *)
(* one attempt may commit, and no sent call is silently repeated.          *)
(***************************************************************************)
EXTENDS Runtime, TLAPS

-----------------------------------------------------------------------------
(* Each step is one of each side, or leaves that side alone.               *)

\* The task side of a step, and what the rows of the calls told it.
LEMMA TaskSideOfStep ==
  ASSUME Next
  PROVE  \/ UNCHANGED taskSide
         \/ TR!AuthorStep \/ TR!ExecutionStep \/ TR!PumpStep \/ TR!EnvironmentStep
         \/ \E b \in Books : TR!PrepareTakeover(b, SafeToRevert(b))
         \/ TR!CompleteTakeover(Calling)
         \/ \E s \in expired : TR!RecoverRow(s, s.task \in Calling, s.task \in Awaiting)
<1>1. CASE Author \/ Cancel
  BY <1>1 DEF Author, Cancel, TR!AuthorStep
<1>2. CASE Execution \/ Close
  BY <1>2 DEF Execution, Close, TR!ExecutionStep, TR!ExecutionEnds
<1>3. CASE Takeover \/ Pump
  BY <1>3 DEF Takeover, Pump
<1>4. CASE Environment
  BY <1>4 DEF Environment, TR!EnvironmentStep
<1>5. CASE Upkeep \/ Handler
  BY <1>5 DEF Upkeep, Handler
<1>6. CASE \E c \in execs, r \in Requests : Issue(c, r) \/ \E s \in Requests : IssueAgain(c, s, r)
  BY <1>6 DEF Issue, IssueAgain
<1>7. CASE \E r \in Requests : Answer(r)
  BY <1>7 DEF Answer
<1>8. CASE \E s \in expired : Recover(s)
  BY <1>8 DEF Recover
<1> QED BY <1>1, <1>2, <1>3, <1>4, <1>5, <1>6, <1>7, <1>8 DEF Next

\* The call side of a step.
LEMMA CallSideOfStep ==
  ASSUME Next
  PROVE  MC!Next \/ UNCHANGED callSide
<1>1. CASE Author \/ Close \/ Takeover \/ Pump
  BY <1>1 DEF Author, Close, Takeover, Pump, CallsUntouched
<1>2. CASE Cancel
  <2>1. CASE ~api.atOnce
    <3>1. MC!AbortCalls(api.task)
      BY <1>2, <2>1 DEF Cancel
    <3>2. CASE api.task \in MC!Tasks
      BY <3>1, <3>2 DEF MC!Next
    <3>3. CASE api.task \notin MC!Tasks
      BY <3>1, <3>3 DEF MC!AbortCalls, MC!Tasks, callSide
    <3> QED BY <3>2, <3>3
  <2>2. CASE api.atOnce /\ api.task \in Calling
    <3>1. MC!CancelCalls(api.task) /\ api.task \in MC!Tasks
      BY <1>2, <2>2 DEF Cancel, Calling, CallsOf, MC!Tasks
    <3> QED BY <3>1 DEF MC!Next
  <2>3. CASE api.atOnce /\ api.task \notin Calling
    BY <1>2, <2>3 DEF Cancel
  <2> QED BY <2>1, <2>2, <2>3
<1>8. CASE Execution
  <2>1. PICK c \in execs : \/ UNCHANGED callSide
                           \/ c.task \in Calling /\ MC!CancelCalls(c.task)
    BY <1>8 DEF Execution
  <2>2. c.task \in Calling => c.task \in MC!Tasks
    BY DEF Calling, CallsOf, MC!Tasks
  <2> QED BY <2>1, <2>2 DEF MC!Next
<1>3. CASE Environment
  BY <1>3 DEF Environment, CallsUntouched, MC!Next
<1>4. CASE Upkeep \/ Handler
  BY <1>4 DEF Upkeep, Handler, MC!Next
<1>5. CASE \E c \in execs, r \in Requests : Issue(c, r) \/ \E s \in Requests : IssueAgain(c, s, r)
  BY <1>5 DEF Issue, IssueAgain, MC!Next
<1>6. CASE \E r \in Requests : Answer(r)
  <2>1. PICK r \in Requests : MC!Answer(r, Fence(r))
    BY <1>6 DEF Answer
  <2>2. Fence(r) \in BOOLEAN
    BY DEF Fence, TR!Holds, TR!EpochOK
  <2> QED BY <2>1, <2>2 DEF MC!Next
<1>7. CASE \E s \in expired : Recover(s)
  BY <1>7 DEF Recover, CallsOf, MC!Next
<1> QED BY <1>1, <1>2, <1>3, <1>4, <1>5, <1>6, <1>7, <1>8 DEF Next

\* What the worker has read to recover are tasks.
ExpiredAreTasks == \A s \in expired : s.task \in TR!Tasks

LEMMA ExpiredKept ==
  ASSUME ExpiredAreTasks, [Next]_vars
  PROVE  ExpiredAreTasks'
<1>1. CASE Next
  <2>1. expired' \subseteq expired \/ TR!ReadExpired
    <3>1. CASE TR!AuthorStep
      BY <3>1 DEF TR!AuthorStep, TR!CreateAny, TR!Create, TR!Queue, TR!CompleteSynchronous,
                  TR!RetryFailed, TR!ResolveWaitingConfirmation, TR!CancelRead, TR!CancelWrite
    <3>2. CASE TR!ExecutionStep
      BY <3>2 DEF TR!ExecutionStep, TR!ExecutionEnds, TR!EndsOtherwise, TR!Complete,
                  TR!WaitForConfirmation, TR!PauseAtCheckpoint, TR!Fail, TR!ChapterError,
                  TR!ExecutionThrows, TR!EndExecution, TR!CloseAttempt
    <3>3. CASE TR!PumpStep
      BY <3>3 DEF TR!PumpStep, TR!ClaimNext, TR!RunEnds, TR!WorkerFail, TR!WorkerBlock, TR!WorkerCloses
    <3>4. CASE TR!EnvironmentStep
      BY <3>4 DEF TR!EnvironmentStep, TR!LeaseExpires, TR!ApiCrash, TR!WorkerCrash
    <3>5. ASSUME NEW b \in Books, TR!PrepareTakeover(b, SafeToRevert(b))
          PROVE  expired' \subseteq expired
      BY <3>5 DEF TR!PrepareTakeover
    <3>6. CASE TR!CompleteTakeover(Calling)
      BY <3>6 DEF TR!CompleteTakeover
    <3>7. ASSUME NEW s \in expired, TR!RecoverRow(s, s.task \in Calling, s.task \in Awaiting)
          PROVE  expired' \subseteq expired
      BY <3>7 DEF TR!RecoverRow
    <3>8. CASE UNCHANGED taskSide
      BY <3>8 DEF taskSide
    <3> QED BY <1>1, <3>1, <3>2, <3>3, <3>4, <3>5, <3>6, <3>7, <3>8, TaskSideOfStep
  <2>2. CASE TR!ReadExpired
    BY <2>2 DEF TR!ReadExpired, TR!ExpiredTasks, ExpiredAreTasks
  <2> QED BY <2>1, <2>2 DEF ExpiredAreTasks
<1>2. CASE UNCHANGED vars
  BY <1>2 DEF vars, taskSide, ExpiredAreTasks
<1> QED BY <1>1, <1>2

LEMMA TaskSideRuns ==
  ASSUME ExpiredAreTasks, [Next]_vars
  PROVE  [TR!Next]_TR!vars
<1>1. ASSUME NEW b \in Books, TR!PrepareTakeover(b, SafeToRevert(b))
      PROVE  TR!Next
  <2>1. SafeToRevert(b) \in BOOLEAN
    BY DEF SafeToRevert
  <2> QED BY <1>1, <2>1 DEF TR!Next, TR!TakeoverStep
<1>2. CASE TR!CompleteTakeover(Calling)
  <2>1. Calling \in SUBSET TR!Tasks
    BY DEF Calling
  <2> QED BY <1>2, <2>1 DEF TR!Next, TR!TakeoverStep
<1>3. ASSUME NEW s \in expired, TR!RecoverRow(s, s.task \in Calling, s.task \in Awaiting)
      PROVE  TR!Next
  <2>1. s.task \in TR!Tasks /\ (s.task \in Calling) \in BOOLEAN /\ (s.task \in Awaiting) \in BOOLEAN
    BY DEF ExpiredAreTasks
  <2> QED BY <1>3, <2>1 DEF TR!Next, TR!WorkerStep, TR!RecoverAny
<1>4. CASE TR!AuthorStep \/ TR!ExecutionStep \/ TR!PumpStep \/ TR!EnvironmentStep
  BY <1>4 DEF TR!Next, TR!WorkerStep
<1>5. CASE UNCHANGED taskSide
  BY <1>5 DEF taskSide, TR!vars
<1>6. CASE UNCHANGED vars
  BY <1>6 DEF vars, taskSide, TR!vars
<1> QED BY <1>1, <1>2, <1>3, <1>4, <1>5, <1>6, TaskSideOfStep

\* Tasks, leases, epochs and executions behave as TaskRuntime says, whatever the
\* calls do: what is proved of it holds here (TaskRuntimeProofs).
THEOREM TasksRun == Spec => TR!Spec
<1>1. Init => TR!Init /\ ExpiredAreTasks
  BY DEF Init, TR!Init, ExpiredAreTasks
<1> QED BY <1>1, ExpiredKept, TaskSideRuns, PTL DEF Spec, TR!Spec

\* Calls, reservations and the ledger behave as ModelCalls says, whatever becomes
\* of the tasks: what is proved of it holds here (ModelCallsProofs).
THEOREM CallsRun == Spec => MC!Spec
<1>1. Init => MC!Init
  BY DEF Init
<1>2. [Next]_vars => [MC!Next]_MC!vars
  BY CallSideOfStep DEF vars, callSide, MC!vars
<1> QED BY <1>1, <1>2, PTL DEF Spec, MC!Spec

-----------------------------------------------------------------------------
(* Leases.                                                                 *)

\* A row of the table carries a lease only while it is working.
LeasedRow(r) ==
  /\ {"status", "lease", "token"} \subseteq DOMAIN r
  /\ r.lease # "none" => r.status = "working"

\* What the fence of an answer relies on: leases sit in working rows, and a book
\* has one live lease.
Leases ==
  /\ DOMAIN row = TR!Tasks
  /\ \A t \in TR!Tasks : LeasedRow(row[t])
  /\ TR!OneLiveTaskPerBook

\* A row that is written without giving it a live lease disturbs nobody.
LEMMA RowWritten ==
  ASSUME Leases, NEW t, NEW r, row' = [row EXCEPT ![t] = r],
         t \in TR!Tasks => LeasedRow(r) /\ (r.lease = "live" => row[t].lease = "live")
  PROVE  Leases'
<1>1. DOMAIN row' = TR!Tasks /\ \A u \in TR!Tasks : row'[u] = IF u = t THEN r ELSE row[u]
  BY DEF Leases
<1>2. \A u \in TR!Tasks : LeasedRow(row'[u]) /\ (row'[u].lease = "live" => row[u].lease = "live")
  BY <1>1 DEF Leases
<1> QED BY <1>1, <1>2 DEF Leases, TR!OneLiveTaskPerBook

\* The end of a claim clears the lease, whatever the new status.
LEMMA ReleasedIsLeased ==
  ASSUME NEW r, LeasedRow(r), NEW status
  PROVE  LeasedRow(TR!Released(r, status)) /\ TR!Released(r, status).lease = "none"
         /\ TR!Released(r, status).status = status
  BY DEF LeasedRow, TR!Released

LEMMA AuthorKeepsLeases ==
  ASSUME Leases, TR!AuthorStep
  PROVE  Leases'
<1>1. ASSUME NEW t \in TR!Tasks, NEW type \in Types, NEW e \in 0 .. MaxEpoch,
             NEW deps \in SUBSET (1 .. t - 1), TR!Create(t, e, deps, type)
      PROVE  Leases'
  <2> DEFINE r == [TR!AbsentRow EXCEPT !.status = "pending", !.epoch = e, !.type = type]
  <2>1. LeasedRow(r) /\ r.lease = "none"
    BY DEF LeasedRow, TR!AbsentRow
  <2>2. row' = [row EXCEPT ![t] = r]
    BY <1>1 DEF TR!Create
  <2> HIDE DEF r
  <2> QED BY <2>1, <2>2, RowWritten
<1>2. ASSUME NEW t \in TR!Tasks, NEW status, row' = [row EXCEPT ![t].status = status],
             row[t].status # "working"
      PROVE  Leases'
  <2>1. LeasedRow([row[t] EXCEPT !.status = status]) /\ row[t].lease = "none"
        /\ [row[t] EXCEPT !.status = status].lease = "none"
    BY <1>2 DEF Leases, LeasedRow
  <2>2. row' = [row EXCEPT ![t] = [row[t] EXCEPT !.status = status]]
    BY <1>2
  <2> QED BY <2>1, <2>2, RowWritten
<1>3. ASSUME NEW t \in TR!Tasks, NEW choice \in BOOLEAN,
             TR!Queue(t) \/ TR!CompleteSynchronous(t) \/ TR!ResolveWaitingConfirmation(t, choice)
      PROVE  Leases'
  BY <1>2, <1>3 DEF TR!Queue, TR!CompleteSynchronous, TR!ResolveWaitingConfirmation
<1>4. ASSUME NEW t \in TR!Tasks, NEW choice \in BOOLEAN, TR!RetryFailed(t, choice)
      PROVE  Leases'
  <2> DEFINE x == TR!Released(row[t], "queued")
             r == [x EXCEPT !.cancel = FALSE]
  <2>1. LeasedRow(x) /\ x.lease = "none"
    BY ReleasedIsLeased DEF Leases
  <2>2. LeasedRow(r) /\ r.lease = "none"
    <3> HIDE DEF x
    <3> QED BY <2>1 DEF LeasedRow
  <2>3. row' = [row EXCEPT ![t] = r]
    BY <1>4 DEF TR!RetryFailed
  <2> HIDE DEF r
  <2> QED BY <2>2, <2>3, RowWritten
<1>5. ASSUME NEW t \in TR!Tasks, TR!CancelRead(t)
      PROVE  Leases'
  BY <1>5 DEF TR!CancelRead, Leases, TR!OneLiveTaskPerBook
<1>6. CASE TR!CancelWrite
  <2> DEFINE old == row[api.task]
             one == [old EXCEPT !.status = "cancelled", !.cancel = TRUE, !.lease = "none"]
             two == [old EXCEPT !.cancel = TRUE]
  <2>1. CASE api.atOnce
    <3>1. row' = [row EXCEPT ![api.task] = one]
      BY <1>6, <2>1 DEF TR!CancelWrite
    <3>2. LeasedRow(old) => LeasedRow(one) /\ one.lease = "none"
      BY DEF LeasedRow
    <3>3. api.task \in TR!Tasks => LeasedRow(old)
      BY DEF Leases
    <3> HIDE DEF one, old
    <3> QED BY <3>1, <3>2, <3>3, RowWritten
  <2>2. CASE ~api.atOnce
    <3>1. row' = [row EXCEPT ![api.task] = two]
      BY <1>6, <2>2 DEF TR!CancelWrite
    <3>2. LeasedRow(old) => LeasedRow(two) /\ two.lease = old.lease
      BY DEF LeasedRow
    <3>3. api.task \in TR!Tasks => LeasedRow(old)
      BY DEF Leases
    <3> HIDE DEF two
    <3> QED BY <3>1, <3>2, <3>3, RowWritten
  <2> QED BY <2>1, <2>2
<1> QED BY <1>1, <1>3, <1>4, <1>5, <1>6 DEF TR!AuthorStep, TR!CreateAny

\* An execution, the worker, or recovery that writes a row releases it.
LEMMA ReleaseKeepsLeases ==
  ASSUME Leases, NEW t, NEW status, row' = [row EXCEPT ![t] = TR!Released(row[t], status)]
  PROVE  Leases'
<1>1. t \in TR!Tasks => LeasedRow(TR!Released(row[t], status))
                        /\ TR!Released(row[t], status).lease = "none"
  BY ReleasedIsLeased DEF Leases
<1> QED BY <1>1, RowWritten

LEMMA RowsAlone ==
  ASSUME Leases, UNCHANGED row
  PROVE  Leases'
  BY DEF Leases, TR!OneLiveTaskPerBook

LEMMA ExecutionKeepsLeases ==
  ASSUME Leases, TR!ExecutionStep
  PROVE  Leases'
<1>1. ASSUME NEW c \in execs, NEW status, TR!EndExecution(c, status)
      PROVE  Leases'
  BY <1>1, ReleaseKeepsLeases DEF TR!EndExecution
<1>2. ASSUME NEW c \in execs, TR!ExecutionEnds(c)
      PROVE  Leases'
  BY <1>1, <1>2, RowsAlone
     DEF TR!ExecutionEnds, TR!EndsOtherwise, TR!Complete, TR!WaitForConfirmation,
         TR!PauseAtCheckpoint, TR!Fail, TR!ChapterError, TR!ExecutionThrows
<1>3. CASE TR!CloseAttempt
  BY <1>3, RowsAlone DEF TR!CloseAttempt
<1> QED BY <1>2, <1>3 DEF TR!ExecutionStep

LEMMA PumpKeepsLeases ==
  ASSUME Leases, TR!PumpStep
  PROVE  Leases'
<1>1. ASSUME NEW t \in TR!Tasks, TR!ClaimNext(t)
      PROVE  Leases'
  <2> DEFINE n == row[t].no + 1
             r == [row[t] EXCEPT !.status = "working", !.no = n, !.token = n, !.lease = "live"]
  <2>1. row' = [row EXCEPT ![t] = r]
    BY <1>1 DEF TR!ClaimNext
  <2>2. LeasedRow(r)
    <3>1. LeasedRow(row[t])
      BY DEF Leases
    <3> QED BY <3>1 DEF LeasedRow
  <2>3. \A u \in TR!Tasks : BookOf[u] = BookOf[t] => row[u].lease # "live"
    BY <1>1 DEF TR!ClaimNext, TR!Claimable, Leases, LeasedRow
  <2> HIDE DEF r
  <2> QED BY <2>1, <2>2, <2>3 DEF Leases, TR!OneLiveTaskPerBook
<1>2. ASSUME NEW r \in runs, TR!WorkerFail(r) \/ TR!WorkerBlock(r)
      PROVE  Leases'
  BY <1>2, ReleaseKeepsLeases DEF TR!WorkerFail, TR!WorkerBlock, TR!WorkerCloses
<1>3. CASE UNCHANGED row
  BY <1>3, RowsAlone
<1> QED BY <1>1, <1>2, <1>3 DEF TR!PumpStep, TR!ReadExpired, TR!RunEnds

LEMMA EnvironmentKeepsLeases ==
  ASSUME Leases, TR!EnvironmentStep
  PROVE  Leases'
<1>1. ASSUME NEW t \in TR!Tasks, TR!LeaseExpires(t)
      PROVE  Leases'
  <2>1. row' = [row EXCEPT ![t] = [row[t] EXCEPT !.lease = "expired"]]
    BY <1>1 DEF TR!LeaseExpires
  <2>2. LeasedRow(row[t]) /\ row[t].lease = "live"
    BY <1>1 DEF Leases, TR!LeaseExpires
  <2>3. LeasedRow([row[t] EXCEPT !.lease = "expired"])
    BY <2>2 DEF LeasedRow
  <2> QED BY <2>1, <2>2, <2>3, RowWritten
<1>2. CASE TR!ApiCrash \/ TR!WorkerCrash
  BY <1>2, RowsAlone DEF TR!ApiCrash, TR!WorkerCrash
<1> QED BY <1>1, <1>2 DEF TR!EnvironmentStep

\* A takeover releases the working rows of its book and moves the epoch of others.
LEMMA TakeoverKeepsLeases ==
  ASSUME Leases, TR!CompleteTakeover(Calling)
  PROVE  Leases'
<1> DEFINE next == editor[api.book].epoch + 1
           ends == [t \in TR!Tasks |-> IF t \in Calling THEN "interrupted" ELSE "queued"]
<1>1. /\ DOMAIN row' = TR!Tasks
      /\ \A t \in TR!Tasks :
           \/ row'[t] = row[t]
           \/ row'[t] = [TR!Released(row[t], ends[t]) EXCEPT !.epoch = next]
           \/ row'[t] = [row[t] EXCEPT !.epoch = next]
  BY DEF TR!CompleteTakeover
<1>2. ASSUME NEW t \in TR!Tasks
      PROVE  LeasedRow(row'[t]) /\ (row'[t].lease = "live" => row[t].lease = "live")
  <2>1. LeasedRow(row[t])
    BY DEF Leases
  <2>2. LeasedRow(TR!Released(row[t], ends[t])) /\ TR!Released(row[t], ends[t]).lease = "none"
    BY <2>1, ReleasedIsLeased
  <2>3. ASSUME NEW r, LeasedRow(r)
        PROVE  LeasedRow([r EXCEPT !.epoch = next]) /\ [r EXCEPT !.epoch = next].lease = r.lease
    BY <2>3 DEF LeasedRow
  <2> HIDE DEF next, ends
  <2> QED BY <1>1, <2>1, <2>2, <2>3
<1> QED BY <1>1, <1>2 DEF Leases, TR!OneLiveTaskPerBook

LEMMA LeasesKept ==
  ASSUME Leases, [Next]_vars
  PROVE  Leases'
<1>1. ASSUME NEW b \in Books, TR!PrepareTakeover(b, SafeToRevert(b))
      PROVE  Leases'
  BY <1>1, RowsAlone DEF TR!PrepareTakeover
<1>2. ASSUME NEW s \in expired, TR!RecoverRow(s, s.task \in Calling, s.task \in Awaiting)
      PROVE  Leases'
  BY <1>2, RowsAlone, ReleaseKeepsLeases DEF TR!RecoverRow
<1>3. CASE UNCHANGED taskSide \/ UNCHANGED vars
  BY <1>3, RowsAlone DEF vars, taskSide
<1> QED BY <1>1, <1>2, <1>3, AuthorKeepsLeases, ExecutionKeepsLeases, PumpKeepsLeases,
           EnvironmentKeepsLeases, TakeoverKeepsLeases, TaskSideOfStep

\* However many stale executions wait for their provider, and whatever lease token
\* their calls carry, the answers that could be committed now belong to one attempt.
THEOREM OneAttempt == Spec => []OneAttemptMayCommit
<1>1. Init => Leases
  BY DEF Init, TR!Init, TR!AbsentRow, Leases, LeasedRow, TR!OneLiveTaskPerBook
<1>2. Leases => OneAttemptMayCommit
  <2> SUFFICES ASSUME Leases, NEW r \in Requests, NEW s \in Requests, Fence(r), Fence(s),
                      BookOf[TaskOf[r]] = BookOf[TaskOf[s]]
               PROVE  ClaimOf(r) = ClaimOf(s)
    BY DEF OneAttemptMayCommit
  <2>1. TaskOf[r] \in TR!Tasks /\ TaskOf[s] \in TR!Tasks
    BY RequestsAssumption
  <2>2. TaskOf[r] = TaskOf[s]
    BY <2>1 DEF Leases, TR!OneLiveTaskPerBook, Fence, TR!Holds, ClaimOf
  <2> QED BY <2>2 DEF Fence, TR!Holds, ClaimOf
<1> QED BY <1>1, <1>2, LeasesKept, PTL DEF Spec

-----------------------------------------------------------------------------
(* What is queued again.                                                   *)

\* A step that queues a working task is a takeover or a recovery, and it found no
\* working call of the task in the state it writes.
LEMMA QueuedWithoutCalls ==
  ASSUME Leases, Next, NEW t \in TR!Tasks, row[t].status = "working", row'[t].status = "queued"
  PROVE  t \notin Calling
<1>1. LeasedRow(row[t])
  BY DEF Leases
<1>2. ~TR!AuthorStep
  <2>1. ASSUME NEW u \in TR!Tasks, NEW type, NEW e, NEW deps, TR!Create(u, e, deps, type)
        PROVE  FALSE
    BY <2>1, <1>1 DEF TR!Create, TR!AbsentRow, LeasedRow, Leases
  <2>2. ASSUME NEW u \in TR!Tasks, NEW choice,
               \/ TR!Queue(u) \/ TR!CompleteSynchronous(u) \/ TR!RetryFailed(u, choice)
               \/ TR!ResolveWaitingConfirmation(u, choice) \/ TR!CancelRead(u)
        PROVE  FALSE
    BY <2>2, <1>1 DEF TR!Queue, TR!CompleteSynchronous, TR!RetryFailed,
                      TR!ResolveWaitingConfirmation, TR!CancelRead, LeasedRow, Leases
  <2>3. ~TR!CancelWrite
    <3> SUFFICES ASSUME TR!CancelWrite PROVE FALSE
      OBVIOUS
    <3>1. api.task = t /\ DOMAIN row = TR!Tasks
      BY DEF TR!CancelWrite, Leases
    <3>2. row'[t] = IF api.atOnce
                      THEN [row[t] EXCEPT !.status = "cancelled", !.cancel = TRUE, !.lease = "none"]
                      ELSE [row[t] EXCEPT !.cancel = TRUE]
      BY <3>1 DEF TR!CancelWrite
    <3>3. CASE api.atOnce
      BY <1>1, <3>2, <3>3 DEF LeasedRow
    <3>4. CASE ~api.atOnce
      BY <1>1, <3>2, <3>4 DEF LeasedRow
    <3> QED BY <3>3, <3>4
  <2> QED BY <2>1, <2>2, <2>3 DEF TR!AuthorStep, TR!CreateAny
<1>3. ~TR!ExecutionStep
  <2>1. ASSUME NEW c \in execs, NEW status, TR!EndExecution(c, status), status # "queued"
        PROVE  FALSE
    BY <2>1, <1>1, ReleasedIsLeased DEF TR!EndExecution, Leases
  <2>2. ASSUME NEW c \in execs, TR!ExecutionEnds(c)
        PROVE  FALSE
    BY <2>1, <2>2 DEF TR!ExecutionEnds, TR!EndsOtherwise, TR!Complete, TR!WaitForConfirmation,
                      TR!PauseAtCheckpoint, TR!Fail, TR!ChapterError, TR!ExecutionThrows
  <2>3. ~TR!CloseAttempt
    BY DEF TR!CloseAttempt
  <2> QED BY <2>2, <2>3 DEF TR!ExecutionStep
<1>4. ~TR!PumpStep
  <2>1. ASSUME NEW u \in TR!Tasks, TR!ClaimNext(u)
        PROVE  FALSE
    BY <2>1, <1>1 DEF TR!ClaimNext, LeasedRow, Leases
  <2>2. ASSUME NEW r \in runs, NEW status, TR!WorkerCloses(r, status), status # "queued"
        PROVE  FALSE
    BY <2>2, <1>1, ReleasedIsLeased DEF TR!WorkerCloses, Leases
  <2> QED BY <2>1, <2>2 DEF TR!PumpStep, TR!ReadExpired, TR!RunEnds, TR!WorkerFail, TR!WorkerBlock
<1>5. ~TR!EnvironmentStep
  <2>1. ASSUME NEW u \in TR!Tasks, TR!LeaseExpires(u)
        PROVE  FALSE
    BY <2>1, <1>1 DEF TR!LeaseExpires, LeasedRow, Leases
  <2> QED BY <2>1 DEF TR!EnvironmentStep, TR!ApiCrash, TR!WorkerCrash
<1>6. row' # row
  OBVIOUS
<1>7. CASE TR!CompleteTakeover(Calling)
  <2> DEFINE next == editor[api.book].epoch + 1
             ends == [u \in TR!Tasks |-> IF u \in Calling THEN "interrupted" ELSE "queued"]
  <2>1. \/ row'[t] = row[t]
        \/ row'[t] = [TR!Released(row[t], ends[t]) EXCEPT !.epoch = next]
    BY <1>7 DEF TR!CompleteTakeover
  <2>2. LeasedRow(TR!Released(row[t], ends[t])) /\ TR!Released(row[t], ends[t]).status = ends[t]
    BY <1>1, ReleasedIsLeased
  <2>3. ASSUME NEW r, LeasedRow(r)
        PROVE  [r EXCEPT !.epoch = next].status = r.status
    BY <2>3 DEF LeasedRow
  <2>4. ends[t] = "queued"
    <3> HIDE DEF next, ends
    <3> QED BY <2>1, <2>2, <2>3
  <2> QED BY <2>4
<1>8. ASSUME NEW s \in expired, TR!RecoverRow(s, s.task \in Calling, s.task \in Awaiting)
      PROVE  t \notin Calling
  <2> DEFINE status == TR!RecoveredStatus(s, s.task \in Calling, s.task \in Awaiting)
  <2>1. row' = [row EXCEPT ![s.task] = TR!Released(row[s.task], status)]
    BY <1>6, <1>8 DEF TR!RecoverRow
  <2>2. s.task = t
    BY <2>1 DEF Leases
  <2>3. TR!Released(row[t], status).status = status
    <3> HIDE DEF status
    <3> QED BY <1>1, ReleasedIsLeased
  <2>4. status = "queued"
    <3> HIDE DEF status
    <3> QED BY <2>1, <2>2, <2>3 DEF Leases
  <2> QED BY <2>2, <2>4 DEF TR!RecoveredStatus
<1>9. ASSUME NEW b \in Books, TR!PrepareTakeover(b, SafeToRevert(b))
      PROVE  FALSE
  BY <1>6, <1>9 DEF TR!PrepareTakeover
<1>10. ~UNCHANGED taskSide
  BY <1>6 DEF taskSide
<1> QED BY <1>2, <1>3, <1>4, <1>5, <1>7, <1>8, <1>9, <1>10, TaskSideOfStep

\* Recovery and takeover never queue a task while one of its calls is recorded as
\* sent, for any number of tasks, calls, attempts and takeovers.
THEOREM SentCallsAreNotRepeated == Spec => NoSilentResend
<1>1. Init => Leases
  BY DEF Init, TR!Init, TR!AbsentRow, Leases, LeasedRow, TR!OneLiveTaskPerBook
<1>2. Leases /\ [Next]_vars =>
        [\A t \in TR!Tasks :
           row[t].status = "working" /\ row'[t].status = "queued" => t \notin Calling]_vars
  BY QueuedWithoutCalls
<1> QED BY <1>1, <1>2, LeasesKept, PTL DEF Spec, NoSilentResend

=============================================================================
