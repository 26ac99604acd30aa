----------------------------- MODULE ModelCalls -----------------------------
(***************************************************************************)
(* Paid model calls of one book: rows of model_calls, model_call_results,  *)
(* model_call_reconciliations, budgets, budget_reservations, usage_ledger. *)
(* A request freezes tokens, is recorded, is sent to the provider, and ends *)
(* in one of many ways; the API process runs it, the Worker process may    *)
(* declare it interrupted, a timer sweeps what was left behind.            *)
(*                                                                         *)
(* The API process is single threaded and its SQLite calls synchronous.    *)
(* Statements that are not in one transaction are separate actions linked  *)
(* by `thread': no other code of the API runs between them, but the API    *)
(* may die there, and the Worker may write.  The provider is external: it  *)
(* answers with some usage, fails, or leaves the outcome unknown.          *)
(* Amounts of cash are abstracted: these calls freeze none, so an answer   *)
(* that costs cash is one whose usage exceeds what was frozen.             *)
(***************************************************************************)
EXTENDS Integers, FiniteSets

CONSTANTS
  Requests,   \* request ids: each is one call of ModelCallService.execute
  TaskOf,     \* the task of a request
  KeyOf,      \* its (task, phase_key, model snapshot, input hash)
  Local,      \* requests to a local-deterministic provider
  Frozen,     \* the tokens a request freezes
  Usage,      \* the token usages a provider may report
  Limits      \* the token limits an author may set

ASSUME AmountsAssumption ==
  /\ Frozen \in [Requests -> Nat \ {0}]
  /\ Usage \subseteq Nat \ {0} /\ Limits \subseteq Nat
ASSUME KeysAssumption ==
  /\ Local \subseteq Requests
  /\ \A r, s \in Requests : KeyOf[r] = KeyOf[s] => TaskOf[r] = TaskOf[s]
\* The tables have finitely many rows, so that their amounts have a sum.
ASSUME FinitenessAssumption == IsFiniteSet(Requests)

VARIABLES
  call,         \* table model_calls: state of each request
  result,       \* table model_call_results: token usage, 0 for no row
  recon,        \* table model_call_reconciliations: state
  reservation,  \* table budget_reservations: status
  ledger,       \* table usage_ledger: tokens charged for each request
  budget,       \* table budgets: the row of the book
  proc,         \* API memory: what became of the execute() promise
  aborted,      \* API memory: requests whose AbortController was aborted
  thread        \* API memory: the statement the running handler has reached

callVars == <<call, result, recon>>
budgetVars == <<reservation, ledger, budget>>
procVars == <<proc, aborted, thread>>
vars == <<call, result, recon, reservation, ledger, budget, proc, aborted, thread>>

Tasks == {TaskOf[r] : r \in Requests}

Idle == [at |-> "idle"]
At(place, r) == [at |-> place, req |-> r]

TypeOK ==
  /\ call \in [Requests -> {"none", "pending", "working", "interrupted", "failed", "succeeded"}]
  /\ result \in [Requests -> Usage \cup {0}]
  /\ recon \in [Requests -> {"none", "awaiting_provider", "retry_safe", "reusable", "discarded"}]
  /\ reservation \in [Requests -> {"none", "reserved", "settled", "released"}]
  /\ ledger \in [Requests -> Nat]
  /\ budget \in [limit : Limits, reserved : Int, spent : Nat, status : {"active", "exhausted"}]
  /\ proc \in [Requests -> {"idle", "open", "waiting", "returned", "reused", "threw", "lost"}]
  /\ aborted \subseteq Requests
  /\ \/ thread = Idle
     \/ thread \in [at : {"reserved", "begun", "await", "release", "releaseLocal",
                          "retrySafe", "fail", "discard"}, req : Requests]
     \/ thread \in [at : {"cancel"}, left : SUBSET Requests]
     \/ thread \in [at : {"deduct", "mark"}, req : Requests, left : SUBSET Requests]

Init ==
  /\ call = [r \in Requests |-> "none"]
  /\ result = [r \in Requests |-> 0]
  /\ recon = [r \in Requests |-> "none"]
  /\ reservation = [r \in Requests |-> "none"]
  /\ ledger = [r \in Requests |-> 0]
  /\ budget \in [limit : Limits, reserved : {0}, spent : {0}, status : {"active"}]
  /\ proc = [r \in Requests |-> "idle"]
  /\ aborted = {}
  /\ thread = Idle

-----------------------------------------------------------------------------
(* BudgetService.                                                          *)

\* Defect: the limit is compared with what was spent, not with what is frozen too.
ReserveAgainstSpent(r) ==
  /\ thread = Idle /\ proc[r] = "idle"
  /\ budget.status = "active"
  /\ budget.spent + Frozen[r] <= budget.limit
  /\ budget' = [budget EXCEPT !.reserved = @ + Frozen[r]]
  /\ reservation' = [reservation EXCEPT ![r] = "reserved"]
  /\ proc' = [proc EXCEPT ![r] = "open"]
  /\ thread' = At("reserved", r)
  /\ UNCHANGED <<call, result, recon, ledger, aborted>>

\* reserve: one transaction, right before the call is made.
Reserve(r) ==
  /\ thread = Idle
  /\ proc[r] = "idle"
  /\ budget.status = "active"
  /\ budget.spent + budget.reserved + Frozen[r] <= budget.limit
  /\ budget' = [budget EXCEPT !.reserved = @ + Frozen[r]]
  /\ reservation' = [reservation EXCEPT ![r] = "reserved"]
  /\ proc' = [proc EXCEPT ![r] = "open"]
  /\ thread' = At("reserved", r)
  /\ UNCHANGED <<call, result, recon, ledger, aborted>>

\* Defect: any usage is accepted; or a reservation that was released already.
MaySettleAnyUsage(r, used) == reservation[r] \in {"settled", "reserved"}
MaySettleReleased(r, used) == used <= Frozen[r]

\* settle accepts a usage: a second settlement is a no-op, a released
\* reservation or a usage above what was frozen is refused.
MaySettle(r, used) ==
  \/ reservation[r] = "settled"
  \/ reservation[r] = "reserved" /\ used <= Frozen[r]

\* Defect: the ledger is corrected by the difference to what was frozen.
SettledByDifference(r, used) ==
  IF reservation[r] = "settled" THEN UNCHANGED budgetVars
  ELSE /\ reservation' = [reservation EXCEPT ![r] = "settled"]
       /\ ledger' = [ledger EXCEPT ![r] = @ + used - Frozen[r]]
       /\ budget' = [budget EXCEPT !.reserved = @ - Frozen[r], !.spent = @ + used]

Settled(r, used) ==
  IF reservation[r] = "settled" THEN UNCHANGED budgetVars
  ELSE /\ reservation' = [reservation EXCEPT ![r] = "settled"]
       /\ ledger' = [ledger EXCEPT ![r] = @ + used]
       /\ budget' = [budget EXCEPT !.reserved = @ - Frozen[r], !.spent = @ + used,
                       !.status = IF budget.spent + used >= budget.limit THEN "exhausted" ELSE @]

\* release: one transaction, a no-op unless the reservation is still frozen.
ReleaseReservation(r) ==
  /\ UNCHANGED ledger
  /\ IF reservation[r] = "reserved"
       THEN /\ reservation' = [reservation EXCEPT ![r] = "released"]
            /\ budget' = [budget EXCEPT !.reserved = @ - Frozen[r]]
       ELSE UNCHANGED <<reservation, budget>>

ReviseTokenLimit(limit) ==
  /\ thread = Idle
  /\ limit # budget.limit
  /\ limit >= budget.spent + budget.reserved
  /\ budget' = [budget EXCEPT !.limit = limit,
                  !.status = IF budget.spent + budget.reserved >= limit
                               THEN "exhausted" ELSE "active"]
  /\ UNCHANGED <<call, result, recon, reservation, ledger, proc, aborted, thread>>

-----------------------------------------------------------------------------
(* ModelCallService.execute up to the request to the provider.             *)

\* Defect: the UNIQUE index covers only rows that have not ended.
RowsNotEnded(r) ==
  {s \in Requests : call[s] \in {"pending", "working", "succeeded"} /\ KeyOf[s] = KeyOf[r]}

Rows(r) == {s \in Requests : call[s] # "none" /\ KeyOf[s] = KeyOf[r]}

LiveStates == {"pending", "working", "succeeded"}

\* begin, with a live call of the same key: its result is reused, or the call
\* refused; the reservation is released either way.
BeginExisting(r) ==
  /\ thread = At("reserved", r)
  /\ \E s \in Rows(r) :
       /\ call[s] \in LiveStates
       /\ proc' = [proc EXCEPT ![r] = IF call[s] = "succeeded" THEN "reused" ELSE "threw"]
  /\ ReleaseReservation(r)
  /\ thread' = Idle
  /\ UNCHANGED <<call, result, recon, aborted>>

\* begin, with an ended call of the same key: the INSERT meets the UNIQUE
\* constraint of the table and throws out of execute.
BeginConflict(r) ==
  /\ thread = At("reserved", r)
  /\ Rows(r) # {} /\ \A s \in Rows(r) : call[s] \notin LiveStates
  /\ proc' = [proc EXCEPT ![r] = "threw"]
  /\ thread' = Idle
  /\ UNCHANGED <<call, result, recon, reservation, ledger, budget, aborted>>

BeginInsert(r) ==
  /\ thread = At("reserved", r)
  /\ Rows(r) = {}
  /\ call' = [call EXCEPT ![r] = "pending"]
  /\ thread' = At("begun", r)
  /\ UNCHANGED <<result, recon, reservation, ledger, budget, proc, aborted>>

Start(r) ==
  /\ thread = At("begun", r)
  /\ call' = [call EXCEPT ![r] = "working"]
  /\ proc' = [proc EXCEPT ![r] = "waiting"]
  /\ thread' = Idle
  /\ UNCHANGED <<result, recon, reservation, ledger, budget, aborted>>

-----------------------------------------------------------------------------
(* The provider's answer, after the await.  `fence': the task still belongs *)
(* to the attempt that made the call, or the call carries no lease token.  *)

\* The commit transaction.
AnswerCommits(r, used, fence) ==
  /\ thread = Idle /\ proc[r] = "waiting"
  /\ fence
  /\ call[r] = "working" /\ result[r] = 0 /\ MaySettle(r, used)
  /\ result' = [result EXCEPT ![r] = used]
  /\ Settled(r, used)
  /\ call' = [call EXCEPT ![r] = "succeeded"]
  /\ proc' = [proc EXCEPT ![r] = "returned"]
  /\ aborted' = aborted \ {r}
  /\ UNCHANGED <<recon, thread>>

\* persistDiscardedLateResult: one transaction; a refused settlement undoes it
\* and the error leaves the catch block before anything else is recorded.
AnswerDiscarded(r, used, fence) ==
  /\ thread = Idle /\ proc[r] = "waiting"
  /\ ~fence
  /\ IF MaySettle(r, used)
       THEN /\ result' = [result EXCEPT ![r] = IF @ = 0 THEN used ELSE @]
            /\ Settled(r, used)
            /\ call' = [call EXCEPT ![r] = IF @ = "working" THEN "interrupted" ELSE @]
            /\ recon' = [recon EXCEPT ![r] = "discarded"]
       ELSE UNCHANGED <<call, result, recon, reservation, ledger, budget>>
  /\ proc' = [proc EXCEPT ![r] = "threw"]
  /\ aborted' = aborted \ {r}
  /\ UNCHANGED thread

\* The catch block, for every other error: the state of the call first, then
\* the reservation or the reconciliation row.
Throws(r, interrupted) ==
  /\ call' = [call EXCEPT ![r] = IF @ \notin {"pending", "working"} THEN @
                                 ELSE IF interrupted THEN "interrupted" ELSE "failed"]
  /\ thread' = At(IF ~interrupted THEN "release"
                  ELSE IF r \in Local THEN "releaseLocal" ELSE "await", r)
  /\ proc' = [proc EXCEPT ![r] = "threw"]
  /\ aborted' = aborted \ {r}
  /\ UNCHANGED <<result, recon, reservation, ledger, budget>>

\* The commit transaction fails although the fence holds: the call is no longer
\* working, or the usage exceeds what was frozen.
AnswerRejected(r, used, fence) ==
  /\ thread = Idle /\ proc[r] = "waiting"
  /\ fence
  /\ call[r] # "working" \/ ~MaySettle(r, used)
  /\ Throws(r, r \in aborted)

\* generate() rejects: an aborted call, a definite error, or an unknown outcome.
ProviderFails(r, outcomeUnknown) ==
  /\ thread = Idle /\ proc[r] = "waiting"
  /\ Throws(r, outcomeUnknown \/ r \in aborted)

Await ==
  /\ thread.at = "await"
  /\ recon' = [recon EXCEPT ![thread.req] = IF @ = "none" THEN "awaiting_provider" ELSE @]
  /\ thread' = Idle
  /\ UNCHANGED <<call, result, reservation, ledger, budget, proc, aborted>>

ReleaseAfterError ==
  /\ thread.at \in {"release", "releaseLocal"}
  /\ ReleaseReservation(thread.req)
  /\ thread' = IF thread.at = "release" THEN Idle ELSE At("retrySafe", thread.req)
  /\ UNCHANGED <<call, result, recon, proc, aborted>>

RetrySafe ==
  /\ thread.at = "retrySafe"
  /\ recon' = [recon EXCEPT ![thread.req] = "retry_safe"]
  /\ thread' = Idle
  /\ UNCHANGED <<call, result, reservation, ledger, budget, proc, aborted>>

-----------------------------------------------------------------------------
(* Cancellation.                                                           *)

\* The cancel route aborts the calls of the task that are working.
AbortCalls(t) ==
  /\ thread = Idle
  /\ aborted' = aborted \cup {r \in Requests : /\ TaskOf[r] = t /\ call[r] = "working"
                                               /\ proc[r] = "waiting"}
  /\ UNCHANGED <<call, result, recon, reservation, ledger, budget, proc, thread>>

\* finishCancelledModelCalls: reads the working calls of the task, then runs
\* three statements for each, without a transaction.
CancelCalls(t) ==
  /\ thread = Idle
  /\ LET left == {r \in Requests : TaskOf[r] = t /\ call[r] = "working"}
     IN  left # {} /\ thread' = [at |-> "cancel", left |-> left]
  /\ UNCHANGED <<call, result, recon, reservation, ledger, budget, proc, aborted>>

\* Defect: the counter is lowered whether or not the UPDATE released a row.
CancelReleaseAlways ==
  /\ thread.at = "cancel"
  /\ \E r \in thread.left :
       /\ thread' = [at |-> "deduct", req |-> r, left |-> thread.left \ {r}]
       /\ reservation' = [reservation EXCEPT ![r] = IF @ = "reserved" THEN "released" ELSE @]
  /\ UNCHANGED <<call, result, recon, ledger, budget, proc, aborted>>

CancelRelease ==
  /\ thread.at = "cancel"
  /\ \E r \in thread.left :
       /\ thread' = [at |-> IF reservation[r] = "reserved" THEN "deduct" ELSE "mark",
                     req |-> r, left |-> thread.left \ {r}]
       /\ reservation' = [reservation EXCEPT ![r] = IF @ = "reserved" THEN "released" ELSE @]
  /\ UNCHANGED <<call, result, recon, ledger, budget, proc, aborted>>

CancelDeduct ==
  /\ thread.at = "deduct"
  /\ budget' = [budget EXCEPT !.reserved = IF @ >= Frozen[thread.req]
                                             THEN @ - Frozen[thread.req] ELSE 0]
  /\ thread' = [thread EXCEPT !.at = "mark"]
  /\ UNCHANGED <<call, result, recon, reservation, ledger, proc, aborted>>

CancelMark ==
  /\ thread.at = "mark"
  /\ call' = [call EXCEPT ![thread.req] = IF @ = "working" THEN "interrupted" ELSE @]
  /\ thread' = IF thread.left = {} THEN Idle ELSE [at |-> "cancel", left |-> thread.left]
  /\ UNCHANGED <<result, recon, reservation, ledger, budget, proc, aborted>>

-----------------------------------------------------------------------------
(* Recovery.                                                               *)

\* The Worker's recoverExpired: one working call of the task (LIMIT 1).
WorkerInterrupts(r) ==
  /\ call[r] = "working"
  /\ call' = [call EXCEPT ![r] = "interrupted"]
  /\ recon' = [recon EXCEPT ![r] = IF @ = "none" THEN "awaiting_provider" ELSE @]
  /\ UNCHANGED <<result, reservation, ledger, budget, proc, aborted, thread>>

\* reconcileInterruptedCall, with a stored result: one transaction.
ReconcileResult(r) ==
  /\ thread = Idle
  /\ call[r] = "interrupted" /\ result[r] # 0 /\ MaySettle(r, result[r])
  /\ Settled(r, result[r])
  /\ call' = [call EXCEPT ![r] = "succeeded"]
  /\ recon' = [recon EXCEPT ![r] = "reusable"]
  /\ UNCHANGED <<result, proc, aborted, thread>>

\* Without a result: a local call is proven not executed, any other stays open.
ReconcileLocal(r) ==
  /\ thread = Idle
  /\ call[r] = "interrupted" /\ result[r] = 0 /\ r \in Local
  /\ ReleaseReservation(r)
  /\ thread' = At("retrySafe", r)
  /\ UNCHANGED <<call, result, recon, proc, aborted>>

ReconcileUnknown(r) ==
  /\ thread = Idle
  /\ call[r] = "interrupted" /\ result[r] = 0 /\ r \notin Local
  /\ recon' = [recon EXCEPT ![r] = "awaiting_provider"]
  /\ UNCHANGED <<call, result, reservation, ledger, budget, proc, aborted, thread>>

\* Defect: the sweep does not look for a stored result; or
\* leaves the tokens of calls the provider may have executed.
SweepWithResult(r) ==
  /\ thread = Idle /\ call[r] = "interrupted"
  /\ ReleaseReservation(r)
  /\ thread' = At("fail", r)
  /\ UNCHANGED <<call, result, recon, proc, aborted>>

SweepLocal(r) ==
  /\ thread = Idle /\ call[r] = "interrupted" /\ result[r] = 0 /\ r \in Local
  /\ ReleaseReservation(r)
  /\ thread' = At("fail", r)
  /\ UNCHANGED <<call, result, recon, proc, aborted>>

\* sweepStaleInterruptedCalls, at start and every five minutes: calls that were
\* interrupted ten minutes ago and have no result, then orphan reservations.
Sweep(r) ==
  /\ thread = Idle
  /\ call[r] = "interrupted" /\ result[r] = 0
  /\ ReleaseReservation(r)
  /\ thread' = At("fail", r)
  /\ UNCHANGED <<call, result, recon, proc, aborted>>

SweepFails ==
  /\ thread.at = "fail"
  /\ call' = [call EXCEPT ![thread.req] = IF @ = "interrupted" THEN "failed" ELSE @]
  /\ thread' = At("discard", thread.req)
  /\ UNCHANGED <<result, recon, reservation, ledger, budget, proc, aborted>>

SweepDiscards ==
  /\ thread.at = "discard"
  /\ recon' = [recon EXCEPT ![thread.req] = "discarded"]
  /\ thread' = Idle
  /\ UNCHANGED <<call, result, reservation, ledger, budget, proc, aborted>>

SweepOrphan(r) ==
  /\ thread = Idle
  /\ call[r] = "none" /\ reservation[r] = "reserved"
  /\ ReleaseReservation(r)
  /\ UNCHANGED <<call, result, recon, proc, aborted, thread>>

ApiCrash ==
  /\ proc' = [r \in Requests |-> IF proc[r] \in {"open", "waiting"} THEN "lost" ELSE proc[r]]
  /\ aborted' = {}
  /\ thread' = Idle
  /\ UNCHANGED <<call, result, recon, reservation, ledger, budget>>

-----------------------------------------------------------------------------
\* The handler that runs goes on to its next statement.
HandlerStep ==
  \/ \E r \in Requests : BeginExisting(r) \/ BeginConflict(r) \/ BeginInsert(r) \/ Start(r)
  \/ Await \/ ReleaseAfterError \/ RetrySafe
  \/ CancelRelease \/ CancelDeduct \/ CancelMark
  \/ SweepFails \/ SweepDiscards

Answer(r, fence) ==
  \/ \E used \in Usage : \/ AnswerCommits(r, used, fence)
                         \/ AnswerDiscarded(r, used, fence)
                         \/ AnswerRejected(r, used, fence)
  \/ \E outcomeUnknown \in BOOLEAN : ProviderFails(r, outcomeUnknown)

\* The reconcile route and the sweep.
Reconcile(r) ==
  \/ ReconcileResult(r) \/ ReconcileLocal(r) \/ ReconcileUnknown(r)
  \/ Sweep(r) \/ SweepOrphan(r)

Next ==
  \/ HandlerStep
  \/ \E r \in Requests :
       \/ Reserve(r) \/ Reconcile(r) \/ WorkerInterrupts(r)
       \/ \E fence \in BOOLEAN : Answer(r, fence)
  \/ \E t \in Tasks : AbortCalls(t) \/ CancelCalls(t)
  \/ \E limit \in Limits : ReviseTokenLimit(limit)
  \/ ApiCrash

Spec == Init /\ [][Next]_vars

(***************************************************************************)
(* Fairness.  A synchronous handler goes on until it ends or the process   *)
(* dies.  The sweep is called at every start and every five minutes, so a  *)
(* row it selects again and again is handled.  Nothing is assumed of       *)
(* providers, authors, crashes or the worker.                              *)
(***************************************************************************)
FairSpec ==
  /\ Spec
  /\ WF_vars(HandlerStep)
  /\ \A r \in Requests : SF_vars(Sweep(r)) /\ SF_vars(SweepOrphan(r))

-----------------------------------------------------------------------------
(* Safety.                                                                 *)

\* SUM(amount) over a set of rows: the tokens are counted one by one.
Total(amount, set) == Cardinality(UNION {{r} \X (1 .. amount[r]) : r \in set})

Reserved == {r \in Requests : reservation[r] = "reserved"}

\* The cached counters of the budget never understate its rows: what is frozen
\* and what was charged, whatever settles, is released or dies half way.
CountersCoverRows ==
  /\ budget.spent = Total(ledger, Requests)
  /\ budget.reserved >= Total(Frozen, Reserved)

\* A provider's answer is charged exactly once and for what it used: a request
\* has a stored result, a settled reservation and a ledger amount, or none of
\* the three, through late answers, reconciliations and sweeps.
ResultsAreChargedOnce ==
  \A r \in Requests :
    /\ (result[r] # 0) <=> (reservation[r] = "settled")
    /\ ledger[r] = result[r]
    /\ ledger[r] <= Frozen[r]

\* A call succeeds only with a charged result.  A charged result whose call did
\* not succeed stays interrupted: no sweep gives it up (its text may be reused).
SucceededCallsAreCharged ==
  \A r \in Requests :
    IF call[r] = "succeeded" THEN result[r] # 0
    ELSE result[r] # 0 => call[r] = "interrupted"

\* begin: the provider never works on the same input twice at the same time,
\* although a worker may declare a call interrupted that is still running.
NoConcurrentDuplicates ==
  \A r, s \in Requests :
    proc[r] = "waiting" /\ proc[s] = "waiting" /\ KeyOf[r] = KeyOf[s] => r = s

\* A call that the provider may still answer for its task has its tokens frozen:
\* only a cancellation frees them early, and it ends the call in the same handler.
SentCallsAreFrozen ==
  \A r \in Requests :
    proc[r] = "waiting" /\ call[r] = "working" =>
      \/ reservation[r] = "reserved"
      \/ thread.at \in {"deduct", "mark"} /\ thread.req = r

-----------------------------------------------------------------------------
(* The inductive invariant of the proofs.  Its conjuncts beyond the         *)
(* properties say what the handler that runs relies on.                     *)

\* A request that was not made has no row anywhere, and no handler of its own.
IdleRequestsAreBlank ==
  \A r \in Requests : proc[r] = "idle" =>
    call[r] = "none" /\ reservation[r] = "none" /\ thread # At("reserved", r)

\* What is with the provider has a row that was started.
SentCallsHaveRows ==
  \A r \in Requests : proc[r] = "waiting" => call[r] \notin {"none", "pending"}

\* Between begin and start no other row has the input of the call.
BegunCallIsAlone ==
  \A r \in Requests : thread = At("begun", r) =>
    call[r] = "pending" /\ \A s \in Requests \ {r} : KeyOf[s] = KeyOf[r] => call[s] = "none"

\* A call the sweep gives up, or one that failed under an execution that still waits
\* for its answer, can no longer be charged.
GivenUpCallsAreFree ==
  \A r \in Requests :
    \/ thread = At("fail", r)
    \/ proc[r] = "waiting" /\ call[r] = "failed"
    => reservation[r] \notin {"reserved", "settled"}

Inductive ==
  /\ TypeOK /\ ResultsAreChargedOnce /\ SucceededCallsAreCharged /\ NoConcurrentDuplicates
  /\ IdleRequestsAreBlank /\ SentCallsHaveRows /\ BegunCallIsAlone /\ GivenUpCallsAreFree

\* A handler between a reservation and the provider holds that reservation; one that
\* releases after an error has thrown.  With SentCallsAreFrozen inductive too.
HandlersHoldTheirCall ==
  \A r \in Requests :
    /\ thread \in {At("reserved", r), At("begun", r)} =>
         proc[r] = "open" /\ reservation[r] = "reserved"
    /\ thread \in {At("release", r), At("releaseLocal", r)} => proc[r] = "threw"

\* CountersCoverRows, with the row that a cancellation has released and whose tokens
\* it has still to take off the counter.
Deducting(r) == thread.at = "deduct" /\ thread.req = r

CountersCoverCancellations ==
  /\ budget.spent = Total(ledger, Requests)
  /\ budget.reserved >= Total(Frozen, {r \in Requests : reservation[r] = "reserved" \/ Deducting(r)})
  /\ \A r \in Requests : Deducting(r) => reservation[r] = "released"

-----------------------------------------------------------------------------
(* Action properties and liveness.                                         *)

\* Nothing takes back a settlement, a release, a success or a stored result.
OutcomesAreFinal ==
  [][\A r \in Requests :
       /\ reservation[r] \in {"settled", "released"} => reservation'[r] = reservation[r]
       /\ call[r] = "succeeded" => call'[r] = "succeeded"
       /\ result[r] # 0 => result'[r] = result[r]]_vars

\* What sweepStaleInterruptedCalls is for: an interrupted call without a result
\* and a reservation without a call do not keep their tokens.
AbandonedReservationsAreFreed ==
  \A r \in Requests :
    (reservation[r] = "reserved" /\ call[r] \in {"none", "interrupted"})
      ~> (reservation[r] # "reserved" \/ call[r] \in {"pending", "working"})

-----------------------------------------------------------------------------
(* The calls implement CreditLedger: a hold is a reserved row, a charge the *)
(* amount in the ledger.                                                   *)

hold == [r \in Requests |->
           CASE reservation[r] = "none" -> "none"
             [] reservation[r] = "reserved" -> "held"
             [] reservation[r] = "settled" -> "charged"
             [] OTHER -> "free"]

Abstract == INSTANCE CreditLedger WITH charge <- ledger, cap <- budget.limit

\* Against the rows themselves no call is started that could exceed the limit,
\* and none is charged twice, above its hold, or after it was released.
ImplementsCreditLedger == Abstract!Spec

-----------------------------------------------------------------------------
(* What comments say and the code does not keep.                           *)

\* model-call-service.ts:46: an ended (failed or interrupted) row no longer
\* blocks the same input from being sent again.
EndedCallsDoNotBlock ==
  [][\A r \in Requests :
       thread = At("reserved", r) /\ proc'[r] = "threw" =>
         \E s \in Rows(r) : call[s] \in LiveStates]_vars

\* docs/SECURITY_AND_OPERATIONS.md:51: a late answer only enters the isolated
\* record: what was discarded does not become a reusable success.
DiscardedStaysDiscarded ==
  [][\A r \in Requests :
       call[r] # "succeeded" /\ recon[r] = "discarded" => call'[r] # "succeeded"]_vars

=============================================================================
