------------------------------ MODULE Runtime ------------------------------
(***************************************************************************)
(* The task runtime and the model calls its executions make, over the same *)
(* database.  What TaskRuntime takes as arbitrary (is a call working, does *)
(* one await the provider, is a revert safe) and what ModelCalls takes as  *)
(* arbitrary (does the fence of an answer hold, when is a call cut off) is *)
(* here what the other tables say at that moment.                          *)
(*                                                                         *)
(* Requests are made the way chapter-pipeline-service.ts makes them: with  *)
(* the lease token the task has when the call is prepared, which is read   *)
(* anew and need not be the token of the execution that makes the call.    *)
(***************************************************************************)
EXTENDS Naturals, FiniteSets

CONSTANTS NumTasks, Books, BookOf, Types, MaxAttempts, MaxEpoch, MaxConcurrency,
          Requests, TaskOf, KeyOf, Local, Frozen, Usage, Limits

VARIABLES row, attempt, needs, editor, inFlight, runs, expired, execs, api,
          call, result, recon, reservation, ledger, budget, proc, aborted, thread,
          sentBy,  \* the attempt whose execution made a request, or 0
          madeFor  \* the attempt whose lease token the request carries, or 0

TR == INSTANCE TaskRuntime
MC == INSTANCE ModelCalls

\* model_calls.task_id refers to a task.
ASSUME RequestsAssumption == TaskOf \in [Requests -> TR!Tasks]

taskSide == <<row, attempt, needs, editor, inFlight, runs, expired, execs, api>>
callSide == <<call, result, recon, reservation, ledger, budget, proc, aborted, thread>>
requestSide == <<sentBy, madeFor>>
vars == <<taskSide, callSide, requestSide>>

Init ==
  /\ TR!Init /\ MC!Init
  /\ sentBy = [r \in Requests |-> 0] /\ madeFor = [r \in Requests |-> 0]

-----------------------------------------------------------------------------
CallsOf(t) == {r \in Requests : TaskOf[r] = t}
Calling == {t \in TR!Tasks : \E r \in CallsOf(t) : call[r] = "working"}
Awaiting == {t \in TR!Tasks : \E r \in CallsOf(t) : recon[r] = "awaiting_provider"}

ClaimOf(r) == [task |-> TaskOf[r], no |-> madeFor[r]]

\* The commit fence of ModelCallService.execute.
Fence(r) == TR!Holds(ClaimOf(r)) /\ TR!EpochOK(TaskOf[r])

\* An execution goes on or ends only when the calls it has sent are settled
\* (await, and Promise.allSettled where it sends several).
SentBy(r, c) == TaskOf[r] = c.task /\ sentBy[r] = c.no
Waits(c) == \E r \in Requests : SentBy(r, c) /\ proc[r] = "waiting"

\* Defect: only calls with an unknown result are looked at, not those in flight.
SafeUnlessUnknown(b) ==
  \A r \in Requests :
    BookOf[TaskOf[r]] = b /\ call[r] = "interrupted" =>
      row[TaskOf[r]].status \in {"succeeded", "failed", "cancelled"}

\* evaluateExpirySafety.
SafeToRevert(b) ==
  \A r \in Requests : BookOf[TaskOf[r]] = b =>
    /\ call[r] \notin {"pending", "working"}
    /\ call[r] = "interrupted" => row[TaskOf[r]].status \in {"succeeded", "failed", "cancelled"}

Quiet == thread = MC!Idle
CallsUntouched == UNCHANGED <<callSide, requestSide>>

-----------------------------------------------------------------------------
Author ==
  /\ Quiet /\ api.op # "cancel"
  /\ TR!AuthorStep
  /\ CallsUntouched

\* requestCancel, then the abort of the working calls that are left.
Cancel ==
  /\ Quiet
  /\ TR!CancelWrite
  /\ IF ~api.atOnce THEN MC!AbortCalls(api.task)
     ELSE IF api.task \in Calling THEN MC!CancelCalls(api.task)
     ELSE UNCHANGED callSide
  /\ UNCHANGED requestSide

\* A completed task whose cancellation was requested has its working calls
\* (of earlier attempts) cancelled, before the attempt is closed.
Execution ==
  /\ Quiet
  /\ \E c \in execs :
       /\ ~Waits(c)
       /\ \/ /\ TR!Complete(c)
             /\ IF row[c.task].cancel /\ c.task \in Calling THEN MC!CancelCalls(c.task)
                ELSE UNCHANGED callSide
          \/ TR!EndsOtherwise(c) /\ UNCHANGED callSide
  /\ UNCHANGED requestSide

\* The second statement of such an end.
Close ==
  /\ Quiet
  /\ TR!CloseAttempt
  /\ CallsUntouched

\* executeModel reads token and attempt number of the task, whoever holds it now,
\* and makes a call with them.
Issue(c, r) ==
  /\ api = TR!Idle
  /\ c \in execs /\ c.task = TaskOf[r]
  /\ row[c.task].status = "working"
  /\ MC!Reserve(r)
  /\ sentBy' = [sentBy EXCEPT ![r] = c.no]
  /\ madeFor' = [madeFor EXCEPT ![r] = row[c.task].no]
  /\ UNCHANGED taskSide

\* Its second try after a definite technical failure, with the token it read.
IssueAgain(c, s, r) ==
  /\ api = TR!Idle
  /\ c \in execs /\ TaskOf[r] = c.task
  /\ SentBy(s, c) /\ call[s] = "failed" /\ proc[s] = "threw"
  /\ MC!Reserve(r)
  /\ sentBy' = [sentBy EXCEPT ![r] = c.no]
  /\ madeFor' = [madeFor EXCEPT ![r] = madeFor[s]]
  /\ UNCHANGED taskSide

Answer(r) ==
  /\ api = TR!Idle
  /\ MC!Answer(r, Fence(r))
  /\ UNCHANGED <<taskSide, requestSide>>

\* The reconcile route, the sweep, a change of the token limit.
Upkeep ==
  /\ api = TR!Idle
  /\ \/ \E r \in Requests : MC!Reconcile(r)
     \/ \E limit \in Limits : MC!ReviseTokenLimit(limit)
  /\ UNCHANGED <<taskSide, requestSide>>

Handler ==
  /\ MC!HandlerStep
  /\ UNCHANGED <<taskSide, requestSide>>

Takeover ==
  /\ Quiet
  /\ \/ \E b \in Books : TR!PrepareTakeover(b, SafeToRevert(b))
     \/ TR!CompleteTakeover(Calling)
  /\ CallsUntouched

\* recoverExpired looks at the calls of the task and interrupts one of them,
\* whether or not its update of the task still applies.
Recover(s) ==
  /\ TR!RecoverRow(s, s.task \in Calling, s.task \in Awaiting)
  /\ IF s.task \in Calling THEN \E r \in CallsOf(s.task) : MC!WorkerInterrupts(r)
     ELSE UNCHANGED callSide
  /\ UNCHANGED requestSide

Pump == TR!PumpStep /\ CallsUntouched

Environment ==
  \/ /\ (\E t \in TR!Tasks : TR!LeaseExpires(t)) \/ TR!WorkerCrash
     /\ CallsUntouched
  \/ TR!ApiCrash /\ MC!ApiCrash /\ UNCHANGED requestSide

Next ==
  \/ Author \/ Cancel \/ Execution \/ Close \/ Takeover \/ Pump \/ Environment \/ Upkeep \/ Handler
  \/ \E c \in execs, r \in Requests : Issue(c, r) \/ \E s \in Requests : IssueAgain(c, s, r)
  \/ \E r \in Requests : Answer(r)
  \/ \E s \in expired : Recover(s)

Spec == Init /\ [][Next]_vars

-----------------------------------------------------------------------------
\* A request carries the token of the attempt that made it, or of a later one.
TypeOK ==
  /\ sentBy \in [Requests -> 0 .. MaxAttempts]
  /\ madeFor \in [Requests -> 0 .. MaxAttempts]
  /\ \A r \in Requests : sentBy[r] <= madeFor[r]

\* However many stale executions wait for their provider, the calls whose
\* answer could be committed now belong to one attempt of one task of a book.
OneAttemptMayCommit ==
  \A r, s \in Requests :
    /\ proc[r] = "waiting" /\ Fence(r) /\ proc[s] = "waiting" /\ Fence(s)
    /\ BookOf[TaskOf[r]] = BookOf[TaskOf[s]]
    => ClaimOf(r) = ClaimOf(s)

\* The safe return to the chief editor (safeRevertToChief) looks at the calls,
\* then prepares and completes a takeover in two transactions, with the worker's
\* in between.  When it raises the epoch, no answer that could be committed is
\* lost by it, and no task goes on whose call has an open or unknown result.
RevertsLoseNoResult ==
  [][\A b \in Books, r \in Requests :
       /\ editor[b].active = "deputy" /\ editor'[b].active = "chief"
       /\ BookOf[TaskOf[r]] = b
       => /\ ~(proc[r] = "waiting" /\ Fence(r))
          /\ call[r] \in {"pending", "working", "interrupted"} =>
               row[TaskOf[r]].status \in {"succeeded", "failed", "cancelled"}]_vars

\* Neither recovery nor takeover queues a task while one of its calls is recorded
\* as sent: both decide on the calls as they are when the task is written, not
\* on what an earlier read found.  Only the author sends such a task again.
NoSilentResend ==
  [][\A t \in TR!Tasks :
       row[t].status = "working" /\ row'[t].status = "queued" => t \notin Calling]_vars

-----------------------------------------------------------------------------
\* docs/ARCHITECTURE.md:38: while the result of a call is unknown its task waits
\* for reconciliation, it is not queued to be run again.
UnknownResultsWait ==
  [][\A t \in TR!Tasks :
       row[t].status = "working" /\ row'[t].status = "queued" => t \notin Awaiting]_vars

=============================================================================
