-------------------------- MODULE ModelCallsProofs --------------------------
(***************************************************************************)
(* Proofs about the paid model calls, for any requests, keys, amounts and  *)
(* limits: the invariant Inductive, and what follows from it.              *)
(*                                                                         *)
(* The order: types; a lemma for each kind of step (a reservation, the     *)
(* next statement of a handler, an answer, a reconciliation or a sweep,    *)
(* the rest); the step lemma; its theorems; sums, counters and the ledger. *)
(***************************************************************************)
EXTENDS ModelCalls, FiniteSetTheorems, Functions, TLAPS

-----------------------------------------------------------------------------
(* Types.                                                                  *)

\* A reservation writes the counters of the budget and one row.
LEMMA TypeOfReserve ==
  ASSUME TypeOK, NEW r \in Requests, Reserve(r)
  PROVE  TypeOK'
<1>1. Frozen[r] \in Nat /\ budget.reserved \in Int /\ budget.reserved + Frozen[r] \in Int
  BY AmountsAssumption DEF TypeOK
<1>2. budget' = [budget EXCEPT !.reserved = budget.reserved + Frozen[r]]
  BY DEF Reserve
<1>3. budget' \in [limit : Limits, reserved : Int, spent : Nat, status : {"active", "exhausted"}]
  BY <1>1, <1>2 DEF TypeOK
<1>4. thread' \in [at : {"reserved"}, req : Requests]
  BY DEF Reserve, At
<1>5. reservation' \in [Requests -> {"none", "reserved", "settled", "released"}]
  BY DEF TypeOK, Reserve
<1> QED
  BY <1>3, <1>4, <1>5 DEF TypeOK, Reserve

\* The next statement of a handler.
LEMMA TypeOfHandler ==
  ASSUME TypeOK, HandlerStep
  PROVE  TypeOK'
<1> USE AmountsAssumption DEF TypeOK, Idle, At
<1>1. ASSUME NEW r \in Requests,
             BeginExisting(r) \/ BeginConflict(r) \/ BeginInsert(r) \/ Start(r)
      PROVE  TypeOK'
  BY <1>1 DEF BeginExisting, BeginConflict, BeginInsert, Start, ReleaseReservation
<1>2. CASE Await \/ ReleaseAfterError \/ RetrySafe
  BY <1>2 DEF Await, ReleaseAfterError, RetrySafe, ReleaseReservation
<1>3. CASE CancelRelease
  BY <1>3 DEF CancelRelease
<1>4. CASE CancelDeduct \/ CancelMark
  BY <1>4 DEF CancelDeduct, CancelMark
<1>5. CASE SweepFails \/ SweepDiscards
  BY <1>5 DEF SweepFails, SweepDiscards
<1> QED
  BY <1>1, <1>2, <1>3, <1>4, <1>5 DEF HandlerStep

\* Every end of the await: the commit, the isolated late answer, the catch block.
LEMMA AnswerCases ==
  ASSUME NEW r \in Requests, NEW fence, Answer(r, fence)
  PROVE  \/ \E used \in Usage : AnswerCommits(r, used, fence) \/ AnswerDiscarded(r, used, fence)
         \/ /\ thread = Idle /\ proc[r] = "waiting"
            /\ \E interrupted \in BOOLEAN : Throws(r, interrupted)
<1>1. /\ (r \in aborted) \in BOOLEAN
      /\ \A b \in BOOLEAN : (b \/ r \in aborted) \in BOOLEAN
  OBVIOUS
<1> QED
  BY <1>1 DEF Answer, AnswerRejected, ProviderFails

\* A settlement of what the provider reported.
LEMMA TypeOfSettled ==
  ASSUME TypeOK, NEW r \in Requests, NEW used \in Usage, Settled(r, used)
  PROVE  /\ reservation' \in [Requests -> {"none", "reserved", "settled", "released"}]
         /\ ledger' \in [Requests -> Nat]
         /\ budget' \in [limit : Limits, reserved : Int, spent : Nat,
                          status : {"active", "exhausted"}]
<1>1. used \in Nat /\ Frozen[r] \in Nat /\ ledger[r] + used \in Nat
  BY AmountsAssumption DEF TypeOK
<1>2. /\ budget.reserved - Frozen[r] \in Int /\ budget.spent + used \in Nat
  BY <1>1 DEF TypeOK
<1>3. CASE reservation[r] = "settled"
  BY <1>3 DEF TypeOK, Settled, budgetVars
<1>4. CASE reservation[r] # "settled"
  BY <1>1, <1>2, <1>4 DEF TypeOK, Settled
<1> QED
  BY <1>3, <1>4

LEMMA TypeOfAnswer ==
  ASSUME TypeOK, NEW r \in Requests, NEW fence, Answer(r, fence)
  PROVE  TypeOK'
<1>1. ASSUME NEW used \in Usage, AnswerCommits(r, used, fence)
      PROVE  TypeOK'
  <2>1. Settled(r, used)
    BY <1>1 DEF AnswerCommits
  <2> QED
    BY <1>1, <2>1, TypeOfSettled DEF AnswerCommits, TypeOK
<1>2. ASSUME NEW used \in Usage, AnswerDiscarded(r, used, fence)
      PROVE  TypeOK'
  <2>1. CASE MaySettle(r, used)
    <3>1. Settled(r, used)
      BY <1>2, <2>1 DEF AnswerDiscarded
    <3> QED
      BY <1>2, <2>1, <3>1, TypeOfSettled DEF AnswerDiscarded, TypeOK
  <2>2. CASE ~MaySettle(r, used)
    BY <1>2, <2>2 DEF AnswerDiscarded, TypeOK
  <2> QED
    BY <2>1, <2>2
<1>3. ASSUME NEW interrupted \in BOOLEAN, Throws(r, interrupted)
      PROVE  TypeOK'
  BY <1>3 DEF TypeOK, Throws, At
<1> QED
  BY <1>1, <1>2, <1>3, AnswerCases

LEMMA TypeOfReconcile ==
  ASSUME TypeOK, NEW r \in Requests, Reconcile(r)
  PROVE  TypeOK'
<1>1. CASE ReconcileResult(r)
  <2>1. result[r] \in Usage /\ Settled(r, result[r])
    BY <1>1 DEF ReconcileResult, TypeOK
  <2> QED
    BY <1>1, <2>1, TypeOfSettled DEF ReconcileResult, TypeOK
<1>2. CASE ReconcileLocal(r) \/ ReconcileUnknown(r)
  BY <1>2, AmountsAssumption DEF ReconcileLocal, ReconcileUnknown, ReleaseReservation, TypeOK, At
<1>3. CASE Sweep(r) \/ SweepOrphan(r)
  BY <1>3, AmountsAssumption DEF Sweep, SweepOrphan, ReleaseReservation, TypeOK, At
<1> QED
  BY <1>1, <1>2, <1>3 DEF Reconcile

\* The worker, the cancel route, the author and a crash.
LEMMA TypeOfOthers ==
  ASSUME TypeOK
  PROVE  /\ \A r \in Requests : WorkerInterrupts(r) => TypeOK'
         /\ \A t \in Tasks : AbortCalls(t) \/ CancelCalls(t) => TypeOK'
         /\ \A limit \in Limits : ReviseTokenLimit(limit) => TypeOK'
         /\ ApiCrash => TypeOK'
         /\ UNCHANGED vars => TypeOK'
<1> USE AmountsAssumption DEF TypeOK
<1>1. ASSUME NEW r \in Requests, WorkerInterrupts(r) PROVE TypeOK'
  BY <1>1 DEF WorkerInterrupts
<1>2. ASSUME NEW t \in Tasks, AbortCalls(t) PROVE TypeOK'
  BY <1>2 DEF AbortCalls
<1>3. ASSUME NEW t \in Tasks, CancelCalls(t) PROVE TypeOK'
  BY <1>3 DEF CancelCalls
<1>4. ASSUME NEW limit \in Limits, ReviseTokenLimit(limit) PROVE TypeOK'
  BY <1>4 DEF ReviseTokenLimit
<1>5. ASSUME ApiCrash PROVE TypeOK'
  BY <1>5 DEF ApiCrash, Idle
<1>6. ASSUME UNCHANGED vars PROVE TypeOK'
  BY <1>6 DEF vars
<1> QED
  BY <1>1, <1>2, <1>3, <1>4, <1>5, <1>6

-----------------------------------------------------------------------------
(* The invariant: a lemma for each kind of step.                           *)

\* No request was made yet.
LEMMA InitInductive == Init => Inductive
<1> SUFFICES ASSUME Init PROVE Inductive
  OBVIOUS
<1>1. TypeOK
  BY DEF Init, TypeOK, Idle
<1>2. ResultsAreChargedOnce /\ SucceededCallsAreCharged /\ NoConcurrentDuplicates
  BY AmountsAssumption
     DEF Init, ResultsAreChargedOnce, SucceededCallsAreCharged, NoConcurrentDuplicates
<1>3. IdleRequestsAreBlank /\ SentCallsHaveRows /\ BegunCallIsAlone /\ GivenUpCallsAreFree
  BY DEF Init, Idle, At, IdleRequestsAreBlank, SentCallsHaveRows, BegunCallIsAlone,
         GivenUpCallsAreFree
<1> QED
  BY <1>1, <1>2, <1>3 DEF Inductive

\* A reservation is written for a request that has no row yet.
LEMMA ReserveKeeps ==
  ASSUME Inductive, TypeOK', NEW q \in Requests, Reserve(q)
  PROVE  Inductive'
<1> USE DEF Inductive, TypeOK, Reserve
<1>1. ResultsAreChargedOnce' /\ SucceededCallsAreCharged'
  BY DEF ResultsAreChargedOnce, SucceededCallsAreCharged, IdleRequestsAreBlank
<1>2. NoConcurrentDuplicates' /\ SentCallsHaveRows'
  BY DEF NoConcurrentDuplicates, SentCallsHaveRows
<1>3. IdleRequestsAreBlank'
  BY DEF IdleRequestsAreBlank, Idle, At
<1>4. BegunCallIsAlone' /\ GivenUpCallsAreFree'
  BY DEF BegunCallIsAlone, GivenUpCallsAreFree, Idle, At
<1> QED
  BY <1>1, <1>2, <1>3, <1>4

\* begin either leaves every call alone, or finds no row with the input of the one
\* it inserts; start then is the only sender of that input.
LEMMA BeginKeeps ==
  ASSUME Inductive, TypeOK', NEW q \in Requests,
         BeginExisting(q) \/ BeginConflict(q) \/ BeginInsert(q) \/ Start(q)
  PROVE  Inductive'
<1> USE DEF Inductive, TypeOK, Idle, At
<1>1. CASE BeginExisting(q)
  <2> USE <1>1 DEF BeginExisting, ReleaseReservation
  <2>1. ResultsAreChargedOnce' /\ SucceededCallsAreCharged'
    BY DEF ResultsAreChargedOnce, SucceededCallsAreCharged
  <2>2. NoConcurrentDuplicates' /\ IdleRequestsAreBlank' /\ SentCallsHaveRows'
    BY DEF NoConcurrentDuplicates, IdleRequestsAreBlank, SentCallsHaveRows
  <2>3. BegunCallIsAlone' /\ GivenUpCallsAreFree'
    BY DEF BegunCallIsAlone, GivenUpCallsAreFree
  <2> QED
    BY <2>1, <2>2, <2>3
<1>2. CASE BeginConflict(q)
  <2> USE <1>2 DEF BeginConflict
  <2>1. ResultsAreChargedOnce' /\ SucceededCallsAreCharged'
    BY DEF ResultsAreChargedOnce, SucceededCallsAreCharged
  <2>2. NoConcurrentDuplicates' /\ IdleRequestsAreBlank' /\ SentCallsHaveRows'
    BY DEF NoConcurrentDuplicates, IdleRequestsAreBlank, SentCallsHaveRows
  <2>3. BegunCallIsAlone' /\ GivenUpCallsAreFree'
    BY DEF BegunCallIsAlone, GivenUpCallsAreFree
  <2> QED
    BY <2>1, <2>2, <2>3
<1>3. CASE BeginInsert(q)
  <2> USE <1>3 DEF BeginInsert
  <2>0. /\ call[q] = "none"
        /\ \A s \in Requests : KeyOf[s] = KeyOf[q] => call[s] = "none"
    BY DEF Rows
  <2>1. ResultsAreChargedOnce' /\ SucceededCallsAreCharged'
    BY <2>0 DEF ResultsAreChargedOnce, SucceededCallsAreCharged
  <2>2. NoConcurrentDuplicates' /\ SentCallsHaveRows'
    BY <2>0 DEF NoConcurrentDuplicates, SentCallsHaveRows
  <2>3. IdleRequestsAreBlank'
    BY <2>0 DEF IdleRequestsAreBlank
  <2>4. BegunCallIsAlone'
    BY <2>0 DEF BegunCallIsAlone
  <2>5. GivenUpCallsAreFree'
    BY <2>0 DEF GivenUpCallsAreFree
  <2> QED
    BY <2>1, <2>2, <2>3, <2>4, <2>5
<1>4. CASE Start(q)
  <2> USE <1>4 DEF Start
  <2>1. call[q] = "pending" /\ \A s \in Requests \ {q} : KeyOf[s] = KeyOf[q] => call[s] = "none"
    BY DEF BegunCallIsAlone
  <2>2. ResultsAreChargedOnce' /\ SucceededCallsAreCharged'
    BY <2>1 DEF ResultsAreChargedOnce, SucceededCallsAreCharged
  <2>3. NoConcurrentDuplicates' /\ IdleRequestsAreBlank' /\ SentCallsHaveRows'
    BY <2>1 DEF NoConcurrentDuplicates, IdleRequestsAreBlank, SentCallsHaveRows
  <2>4. BegunCallIsAlone' /\ GivenUpCallsAreFree'
    BY <2>1 DEF BegunCallIsAlone, GivenUpCallsAreFree
  <2> QED
    BY <2>2, <2>3, <2>4
<1> QED
  BY <1>1, <1>2, <1>3, <1>4

\* The other statements touch a reconciliation row, free a frozen reservation, or
\* end a call that has no result.
LEMMA HandlerKeeps ==
  ASSUME Inductive, TypeOK', HandlerStep
  PROVE  Inductive'
<1> USE DEF Inductive, ResultsAreChargedOnce, SucceededCallsAreCharged, NoConcurrentDuplicates,
            IdleRequestsAreBlank, SentCallsHaveRows, BegunCallIsAlone, GivenUpCallsAreFree,
            TypeOK, Idle, At
<1>1. CASE Await \/ RetrySafe
  BY <1>1 DEF Await, RetrySafe
<1>2. CASE ReleaseAfterError
  BY <1>2 DEF ReleaseAfterError, ReleaseReservation
<1>3. CASE CancelRelease
  BY <1>3 DEF CancelRelease
<1>4. CASE CancelDeduct
  BY <1>4 DEF CancelDeduct
<1>5. CASE CancelMark
  BY <1>5 DEF CancelMark
<1>6. CASE SweepFails
  BY <1>6 DEF SweepFails
<1>7. CASE SweepDiscards
  BY <1>7 DEF SweepDiscards
<1> QED
  BY <1>1, <1>2, <1>3, <1>4, <1>5, <1>6, <1>7, BeginKeeps DEF HandlerStep

\* A late answer is charged only if its reservation is still frozen: what was given
\* up or failed has none.
LEMMA AnswerKeeps ==
  ASSUME Inductive, TypeOK', NEW q \in Requests, NEW fence, Answer(q, fence)
  PROVE  Inductive'
<1> USE DEF Inductive, TypeOK
<1>1. ASSUME NEW used \in Usage, AnswerCommits(q, used, fence)
      PROVE  Inductive'
  <2> USE <1>1 DEF AnswerCommits, MaySettle, Settled, budgetVars
  <2>0. used \in Nat \ {0}
    BY AmountsAssumption
  <2>1. ResultsAreChargedOnce' /\ SucceededCallsAreCharged'
    BY <2>0, AmountsAssumption DEF ResultsAreChargedOnce, SucceededCallsAreCharged
  <2>2. NoConcurrentDuplicates' /\ IdleRequestsAreBlank' /\ SentCallsHaveRows'
    BY DEF NoConcurrentDuplicates, IdleRequestsAreBlank, SentCallsHaveRows, Idle, At
  <2>3. BegunCallIsAlone' /\ GivenUpCallsAreFree'
    BY DEF BegunCallIsAlone, GivenUpCallsAreFree, Idle, At
  <2> QED
    BY <2>1, <2>2, <2>3
<1>2. ASSUME NEW used \in Usage, AnswerDiscarded(q, used, fence)
      PROVE  Inductive'
  <2> USE <1>2 DEF AnswerDiscarded, MaySettle, Settled, budgetVars
  <2>0. used \in Nat \ {0}
    BY AmountsAssumption
  <2>1. ResultsAreChargedOnce' /\ SucceededCallsAreCharged'
    BY <2>0, AmountsAssumption DEF ResultsAreChargedOnce, SucceededCallsAreCharged,
       GivenUpCallsAreFree, SentCallsHaveRows
  <2>2. NoConcurrentDuplicates' /\ IdleRequestsAreBlank' /\ SentCallsHaveRows'
    BY DEF NoConcurrentDuplicates, IdleRequestsAreBlank, SentCallsHaveRows, Idle, At
  <2>3. BegunCallIsAlone' /\ GivenUpCallsAreFree'
    BY DEF BegunCallIsAlone, GivenUpCallsAreFree, Idle, At
  <2> QED
    BY <2>1, <2>2, <2>3
<1>3. ASSUME thread = Idle, proc[q] = "waiting", NEW interrupted \in BOOLEAN,
             Throws(q, interrupted)
      PROVE  Inductive'
  <2> USE <1>3 DEF Throws
  <2>1. ResultsAreChargedOnce' /\ SucceededCallsAreCharged'
    BY DEF ResultsAreChargedOnce, SucceededCallsAreCharged
  <2>2. NoConcurrentDuplicates' /\ IdleRequestsAreBlank' /\ SentCallsHaveRows'
    BY DEF NoConcurrentDuplicates, IdleRequestsAreBlank, SentCallsHaveRows, Idle, At
  <2>3. BegunCallIsAlone' /\ GivenUpCallsAreFree'
    BY DEF BegunCallIsAlone, GivenUpCallsAreFree, Idle, At
  <2> QED
    BY <2>1, <2>2, <2>3
<1> QED
  BY <1>1, <1>2, <1>3, AnswerCases

\* A reconciliation reuses a result that is charged, or frees what has none.
LEMMA ReconcileKeeps ==
  ASSUME Inductive, TypeOK', NEW q \in Requests, Reconcile(q)
  PROVE  Inductive'
<1> USE DEF Inductive, TypeOK, Idle, At
<1>1. CASE ReconcileResult(q)
  <2> USE <1>1 DEF ReconcileResult
  <2>0. reservation[q] = "settled" /\ UNCHANGED budgetVars
    BY DEF Settled, ResultsAreChargedOnce
  <2>1. ResultsAreChargedOnce' /\ SucceededCallsAreCharged'
    BY <2>0 DEF ResultsAreChargedOnce, SucceededCallsAreCharged, budgetVars
  <2>2. NoConcurrentDuplicates' /\ IdleRequestsAreBlank' /\ SentCallsHaveRows'
    BY <2>0 DEF NoConcurrentDuplicates, IdleRequestsAreBlank, SentCallsHaveRows, budgetVars
  <2>3. BegunCallIsAlone' /\ GivenUpCallsAreFree'
    BY <2>0 DEF BegunCallIsAlone, GivenUpCallsAreFree, budgetVars
  <2> QED
    BY <2>1, <2>2, <2>3
<1>2. CASE ReconcileUnknown(q)
  BY <1>2 DEF ReconcileUnknown, ResultsAreChargedOnce, SucceededCallsAreCharged,
     NoConcurrentDuplicates, IdleRequestsAreBlank, SentCallsHaveRows, BegunCallIsAlone,
     GivenUpCallsAreFree
<1>3. CASE ReconcileLocal(q) \/ Sweep(q) \/ SweepOrphan(q)
  <2> USE <1>3 DEF ReconcileLocal, Sweep, SweepOrphan, ReleaseReservation
  <2>1. ResultsAreChargedOnce' /\ SucceededCallsAreCharged'
    BY DEF ResultsAreChargedOnce, SucceededCallsAreCharged
  <2>2. NoConcurrentDuplicates' /\ IdleRequestsAreBlank' /\ SentCallsHaveRows'
    BY DEF NoConcurrentDuplicates, IdleRequestsAreBlank, SentCallsHaveRows
  <2>3. BegunCallIsAlone'
    BY DEF BegunCallIsAlone
  <2>4. GivenUpCallsAreFree'
    BY DEF GivenUpCallsAreFree, ResultsAreChargedOnce
  <2> QED
    BY <2>1, <2>2, <2>3, <2>4
<1> QED
  BY <1>1, <1>2, <1>3 DEF Reconcile

\* The worker, the cancel route, the author, a crash, and no step at all.
LEMMA OthersKeep ==
  ASSUME Inductive, TypeOK'
  PROVE  /\ \A r \in Requests : WorkerInterrupts(r) => Inductive'
         /\ \A t \in Tasks : AbortCalls(t) \/ CancelCalls(t) => Inductive'
         /\ \A limit \in Limits : ReviseTokenLimit(limit) => Inductive'
         /\ ApiCrash => Inductive'
         /\ UNCHANGED vars => Inductive'
<1> USE DEF Inductive, ResultsAreChargedOnce, SucceededCallsAreCharged, NoConcurrentDuplicates,
            IdleRequestsAreBlank, SentCallsHaveRows, BegunCallIsAlone, GivenUpCallsAreFree,
            TypeOK, Idle, At
<1>1. ASSUME NEW r \in Requests, WorkerInterrupts(r) PROVE Inductive'
  BY <1>1 DEF WorkerInterrupts
<1>2. ASSUME NEW t \in Tasks, AbortCalls(t) \/ CancelCalls(t) PROVE Inductive'
  BY <1>2 DEF AbortCalls, CancelCalls
<1>3. ASSUME NEW limit \in Limits, ReviseTokenLimit(limit) PROVE Inductive'
  BY <1>3 DEF ReviseTokenLimit
<1>4. ASSUME ApiCrash PROVE Inductive'
  BY <1>4 DEF ApiCrash
<1>5. ASSUME UNCHANGED vars PROVE Inductive'
  BY <1>5 DEF vars
<1> QED
  BY <1>1, <1>2, <1>3, <1>4, <1>5

\* Every step keeps the invariant.
LEMMA NextInductive == Inductive /\ [Next]_vars => Inductive'
<1> SUFFICES ASSUME Inductive, [Next]_vars PROVE Inductive'
  OBVIOUS
<1>0. TypeOK
  BY DEF Inductive
<1>1. CASE HandlerStep
  BY <1>0, <1>1, TypeOfHandler, HandlerKeeps
<1>2. ASSUME NEW r \in Requests, Reserve(r) PROVE Inductive'
  BY <1>0, <1>2, TypeOfReserve, ReserveKeeps
<1>3. ASSUME NEW r \in Requests, Reconcile(r) PROVE Inductive'
  BY <1>0, <1>3, TypeOfReconcile, ReconcileKeeps
<1>4. ASSUME NEW r \in Requests, NEW fence \in BOOLEAN, Answer(r, fence) PROVE Inductive'
  BY <1>0, <1>4, TypeOfAnswer, AnswerKeeps
<1>5. ASSUME NEW r \in Requests, WorkerInterrupts(r) PROVE Inductive'
  BY <1>0, <1>5, TypeOfOthers, OthersKeep
<1>6. ASSUME NEW t \in Tasks, AbortCalls(t) \/ CancelCalls(t) PROVE Inductive'
  BY <1>0, <1>6, TypeOfOthers, OthersKeep
<1>7. ASSUME NEW limit \in Limits, ReviseTokenLimit(limit) PROVE Inductive'
  BY <1>0, <1>7, TypeOfOthers, OthersKeep
<1>8. CASE ApiCrash
  BY <1>0, <1>8, TypeOfOthers, OthersKeep
<1>9. CASE UNCHANGED vars
  BY <1>0, <1>9, TypeOfOthers, OthersKeep
<1> QED
  BY <1>1, <1>2, <1>3, <1>4, <1>5, <1>6, <1>7, <1>8, <1>9 DEF Next

-----------------------------------------------------------------------------
(* Tokens of calls that are being made, relative to Inductive.             *)

\* The call with the provider keeps its frozen tokens: only its own handler, its own
\* answer or a cancellation that goes on to end it frees them.
LEMMA FrozenStep ==
  ASSUME Inductive, SentCallsAreFrozen, HandlersHoldTheirCall, [Next]_vars
  PROVE  (SentCallsAreFrozen /\ HandlersHoldTheirCall)'
<1> USE DEF Inductive, TypeOK, Idle, At, SentCallsAreFrozen, HandlersHoldTheirCall
<1>1. ASSUME NEW q \in Requests,
             BeginExisting(q) \/ BeginConflict(q)
      PROVE  (SentCallsAreFrozen /\ HandlersHoldTheirCall)'
  BY <1>1 DEF BeginExisting, BeginConflict, ReleaseReservation
<1>2. ASSUME NEW q \in Requests, BeginInsert(q) \/ Start(q)
      PROVE  (SentCallsAreFrozen /\ HandlersHoldTheirCall)'
  BY <1>2 DEF BeginInsert, Start
<1>3. CASE Await \/ RetrySafe
  BY <1>3 DEF Await, RetrySafe
<1>4. CASE ReleaseAfterError
  BY <1>4 DEF ReleaseAfterError, ReleaseReservation
<1>5. CASE CancelRelease
  BY <1>5 DEF CancelRelease
<1>6. CASE CancelDeduct \/ CancelMark
  BY <1>6 DEF CancelDeduct, CancelMark
<1>7. CASE SweepFails \/ SweepDiscards
  BY <1>7 DEF SweepFails, SweepDiscards
<1>8. ASSUME NEW q \in Requests, NEW fence, Answer(q, fence)
      PROVE  (SentCallsAreFrozen /\ HandlersHoldTheirCall)'
  <2>1. ASSUME NEW used \in Usage, AnswerCommits(q, used, fence)
        PROVE  (SentCallsAreFrozen /\ HandlersHoldTheirCall)'
    BY <2>1 DEF AnswerCommits, Settled, budgetVars
  <2>2. ASSUME NEW used \in Usage, AnswerDiscarded(q, used, fence)
        PROVE  (SentCallsAreFrozen /\ HandlersHoldTheirCall)'
    <3>1. /\ thread = Idle /\ thread' = Idle
          /\ proc' = [proc EXCEPT ![q] = "threw"]
          /\ \A r \in Requests \ {q} : call'[r] = call[r] /\ reservation'[r] = reservation[r]
      BY <2>2 DEF AnswerDiscarded, Settled, budgetVars
    <3> QED
      BY <3>1
  <2>3. ASSUME thread = Idle, NEW interrupted \in BOOLEAN, Throws(q, interrupted)
        PROVE  (SentCallsAreFrozen /\ HandlersHoldTheirCall)'
    BY <2>3 DEF Throws
  <2> QED
    BY <1>8, <2>1, <2>2, <2>3, AnswerCases
<1>9. ASSUME NEW q \in Requests, Reconcile(q)
      PROVE  (SentCallsAreFrozen /\ HandlersHoldTheirCall)'
  <2>1. CASE ReconcileResult(q)
    BY <2>1 DEF ReconcileResult, Settled, budgetVars
  <2>2. CASE ReconcileUnknown(q)
    BY <2>2 DEF ReconcileUnknown
  <2>3. CASE ReconcileLocal(q) \/ Sweep(q) \/ SweepOrphan(q)
    BY <2>3 DEF ReconcileLocal, Sweep, SweepOrphan, ReleaseReservation
  <2> QED
    BY <1>9, <2>1, <2>2, <2>3 DEF Reconcile
<1>10. ASSUME NEW q \in Requests, Reserve(q)
       PROVE  (SentCallsAreFrozen /\ HandlersHoldTheirCall)'
  BY <1>10 DEF Reserve
<1>11. ASSUME NEW q \in Requests, WorkerInterrupts(q)
       PROVE  (SentCallsAreFrozen /\ HandlersHoldTheirCall)'
  BY <1>11 DEF WorkerInterrupts
<1>12. ASSUME NEW t \in Tasks, AbortCalls(t) \/ CancelCalls(t)
       PROVE  (SentCallsAreFrozen /\ HandlersHoldTheirCall)'
  BY <1>12 DEF AbortCalls, CancelCalls
<1>13. ASSUME NEW limit \in Limits, ReviseTokenLimit(limit)
       PROVE  (SentCallsAreFrozen /\ HandlersHoldTheirCall)'
  BY <1>13 DEF ReviseTokenLimit
<1>14. CASE ApiCrash
  BY <1>14 DEF ApiCrash
<1>15. CASE UNCHANGED vars
  BY <1>15 DEF vars
<1> QED
  BY <1>1, <1>2, <1>3, <1>4, <1>5, <1>6, <1>7, <1>8, <1>9, <1>10, <1>11, <1>12, <1>13, <1>14, <1>15
     DEF Next, HandlerStep

-----------------------------------------------------------------------------
(* The theorems.                                                           *)

\* The inductive invariant holds in every reachable state, whatever the provider,
\* the worker, the author, the sweep and crashes of the API do between two statements.
THEOREM InductiveHolds == Spec => []Inductive
  BY InitInductive, NextInductive, PTL DEF Spec

\* Rows, counters and the memory of the API keep their types; the counters of the
\* budget are integers whatever is settled or released twice.
THEOREM TypeCorrect == Spec => []TypeOK
<1>1. Inductive => TypeOK
  BY DEF Inductive
<1> QED
  BY <1>1, InductiveHolds, PTL

\* A request has a stored result, a settled reservation and a ledger amount, or none
\* of the three, and the amount is what the provider reported, within what was frozen.
THEOREM ChargedOnce == Spec => []ResultsAreChargedOnce
<1>1. Inductive => ResultsAreChargedOnce
  BY DEF Inductive
<1> QED
  BY <1>1, InductiveHolds, PTL

\* Only charged calls succeed, and no charged result is ever given up by a sweep.
THEOREM SuccessIsCharged == Spec => []SucceededCallsAreCharged
<1>1. Inductive => SucceededCallsAreCharged
  BY DEF Inductive
<1> QED
  BY <1>1, InductiveHolds, PTL

\* Two executions never wait for the provider with the same input, although a worker
\* may declare a call interrupted that is still running.
THEOREM NoDuplicates == Spec => []NoConcurrentDuplicates
<1>1. Inductive => NoConcurrentDuplicates
  BY DEF Inductive
<1> QED
  BY <1>1, InductiveHolds, PTL

\* A call whose answer would still count has its tokens frozen, unless the cancellation
\* that freed them is about to end it in the same handler.
THEOREM SentCallsStayFrozen == Spec => []SentCallsAreFrozen
<1>1. Init => SentCallsAreFrozen /\ HandlersHoldTheirCall
  BY DEF Init, Idle, At, SentCallsAreFrozen, HandlersHoldTheirCall
<1>2. Inductive /\ SentCallsAreFrozen /\ HandlersHoldTheirCall /\ [Next]_vars
        => (SentCallsAreFrozen /\ HandlersHoldTheirCall)'
  BY FrozenStep
<1> QED
  BY <1>1, <1>2, InductiveHolds, PTL DEF Spec

\* A step takes back no settlement, release, success or stored result.
THEOREM OutcomesStay == Spec => OutcomesAreFinal
<1> DEFINE Final ==
      \A r \in Requests :
        /\ reservation[r] \in {"settled", "released"} => reservation'[r] = reservation[r]
        /\ call[r] = "succeeded" => call'[r] = "succeeded"
        /\ result[r] # 0 => result'[r] = result[r]
<1>1. Inductive /\ [Next]_vars => [Final]_vars
  <2> SUFFICES ASSUME Inductive, Next PROVE Final
    OBVIOUS
  <2> USE DEF Inductive, TypeOK
  <2>1. ASSUME NEW q \in Requests,
               BeginExisting(q) \/ BeginConflict(q) \/ BeginInsert(q) \/ Start(q)
        PROVE  Final
    BY <2>1 DEF BeginExisting, BeginConflict, BeginInsert, Start, Rows, ReleaseReservation,
       BegunCallIsAlone
  <2>2. CASE Await \/ ReleaseAfterError \/ RetrySafe
    BY <2>2 DEF Await, ReleaseAfterError, RetrySafe, ReleaseReservation
  <2>3. CASE CancelRelease \/ CancelDeduct \/ CancelMark
    BY <2>3 DEF CancelRelease, CancelDeduct, CancelMark
  <2>4. CASE SweepFails \/ SweepDiscards
    BY <2>4 DEF SweepFails, SweepDiscards
  <2>5. ASSUME NEW q \in Requests, NEW fence, Answer(q, fence)
        PROVE  Final
    <3>1. ASSUME NEW used \in Usage, AnswerCommits(q, used, fence) PROVE Final
      BY <3>1 DEF AnswerCommits, MaySettle, Settled, budgetVars
    <3>2. ASSUME NEW used \in Usage, AnswerDiscarded(q, used, fence) PROVE Final
      BY <3>2 DEF AnswerDiscarded, MaySettle, Settled, budgetVars
    <3>3. ASSUME NEW interrupted \in BOOLEAN, Throws(q, interrupted) PROVE Final
      BY <3>3 DEF Throws
    <3> QED
      BY <2>5, <3>1, <3>2, <3>3, AnswerCases
  <2>6. ASSUME NEW q \in Requests, Reconcile(q)
        PROVE  Final
    BY <2>6 DEF Reconcile, ReconcileResult, ReconcileLocal, ReconcileUnknown, Sweep, SweepOrphan,
       ReleaseReservation, MaySettle, Settled, budgetVars
  <2>7. ASSUME NEW q \in Requests, Reserve(q)
        PROVE  Final
    BY <2>7 DEF Reserve, IdleRequestsAreBlank
  <2>8. ASSUME NEW q \in Requests, WorkerInterrupts(q)
        PROVE  Final
    BY <2>8 DEF WorkerInterrupts
  <2>9. ASSUME NEW t \in Tasks, AbortCalls(t) \/ CancelCalls(t)
        PROVE  Final
    BY <2>9 DEF AbortCalls, CancelCalls
  <2>10. ASSUME NEW limit \in Limits, ReviseTokenLimit(limit)
         PROVE  Final
    BY <2>10 DEF ReviseTokenLimit
  <2>11. CASE ApiCrash
    BY <2>11 DEF ApiCrash
  <2> QED
    BY <2>1, <2>2, <2>3, <2>4, <2>5, <2>6, <2>7, <2>8, <2>9, <2>10, <2>11 DEF Next, HandlerStep
<1> QED
  BY <1>1, InductiveHolds, PTL DEF Spec, OutcomesAreFinal

-----------------------------------------------------------------------------
(* Sums.  The library's theorems on cardinality give the laws of Total.    *)

\* What Total counts: token n of request r is <<r, n>>.
Tokens(amount, set) == UNION {{r} \X (1 .. amount[r]) : r \in set}

\* A request has as many tokens as its amount says.
LEMMA TokensOfOne ==
  ASSUME NEW r, NEW n \in Nat
  PROVE  IsFiniteSet({r} \X (1 .. n)) /\ Cardinality({r} \X (1 .. n)) = n
<1>1. IsFiniteSet({r}) /\ Cardinality({r}) = 1
  BY FS_Singleton
<1>2. IsFiniteSet(1 .. n) /\ Cardinality(1 .. n) = n
  BY FS_Interval
<1>3. IsFiniteSet({r} \X (1 .. n)) /\ Cardinality({r} \X (1 .. n)) = 1 * n
  BY <1>1, <1>2, FS_Product
<1> QED
  BY <1>3

\* Finitely many requests have finitely many tokens.
LEMMA TokensFinite ==
  ASSUME NEW S, IsFiniteSet(S), NEW amount, \A r \in S : amount[r] \in Nat
  PROVE  IsFiniteSet(Tokens(amount, S))
<1> DEFINE of == [r \in S |-> {r} \X (1 .. amount[r])]
           T == {{r} \X (1 .. amount[r]) : r \in S}
<1>1. of \in Surjection(S, T)
  BY DEF Surjection
<1>2. IsFiniteSet(T)
  BY <1>1, FS_Surjection
<1>3. ASSUME NEW r \in S PROVE IsFiniteSet({r} \X (1 .. amount[r]))
  BY TokensOfOne
<1>4. \A t \in T : IsFiniteSet(t)
  BY <1>3
<1>5. Tokens(amount, S) = UNION T
  BY DEF Tokens
<1> HIDE DEF T
<1> QED
  BY <1>2, <1>4, <1>5, FS_UNION

\* A sum is one of its amounts and the sum of the others.
LEMMA TotalSplits ==
  ASSUME NEW S, IsFiniteSet(S), NEW amount, \A r \in S : amount[r] \in Nat, NEW q \in S
  PROVE  Total(amount, S) = amount[q] + Total(amount, S \ {q})
<1> DEFINE One == {q} \X (1 .. amount[q])
           Rest == Tokens(amount, S \ {q})
<1>1. IsFiniteSet(One) /\ Cardinality(One) = amount[q]
  BY TokensOfOne
<1>2. IsFiniteSet(Rest)
  BY FS_RemoveElement, TokensFinite
<1>3. Tokens(amount, S) = One \cup Rest
  BY DEF Tokens
<1>4. One \cap Rest = {}
  BY DEF Tokens
<1>5. Cardinality(One \cup Rest) = Cardinality(One) + Cardinality(Rest)
  <2>1. Cardinality(One \cup Rest)
          = Cardinality(One) + Cardinality(Rest) - Cardinality(One \cap Rest)
    BY <1>1, <1>2, FS_Union
  <2>2. Cardinality(One \cap Rest) = 0
    BY <1>4, FS_EmptySet
  <2>3. Cardinality(One) \in Nat /\ Cardinality(Rest) \in Nat
    BY <1>1, <1>2, FS_CardinalityType
  <2> HIDE DEF One, Rest
  <2> QED
    BY <2>1, <2>2, <2>3
<1> QED
  BY <1>1, <1>3, <1>5 DEF Total, Tokens

\* A sum looks at the amounts of its set only.
LEMMA TotalAgrees ==
  ASSUME NEW S, NEW one, NEW other, \A r \in S : one[r] = other[r]
  PROVE  Total(one, S) = Total(other, S)
<1>1. {{r} \X (1 .. one[r]) : r \in S} = {{r} \X (1 .. other[r]) : r \in S}
  OBVIOUS
<1> QED
  BY <1>1 DEF Total

\* What the requests of a set have frozen.
LEMMA FrozenTotal ==
  ASSUME NEW S \in SUBSET Requests
  PROVE  /\ Total(Frozen, S) \in Nat
         /\ \A q \in S : Total(Frozen, S) = Frozen[q] + Total(Frozen, S \ {q})
         /\ \A T \in SUBSET S : Total(Frozen, T) <= Total(Frozen, S)
<1>1. IsFiniteSet(S) /\ \A r \in S : Frozen[r] \in Nat
  BY FinitenessAssumption, AmountsAssumption, FS_Subset
<1>2. IsFiniteSet(Tokens(Frozen, S))
  BY <1>1, TokensFinite
<1>3. ASSUME NEW T \in SUBSET S PROVE Total(Frozen, T) <= Total(Frozen, S)
  <2>1. Tokens(Frozen, T) \in SUBSET Tokens(Frozen, S)
    BY DEF Tokens
  <2> QED
    BY <1>2, <2>1, FS_Subset DEF Total, Tokens
<1>4. Total(Frozen, S) \in Nat
  BY <1>2, FS_CardinalityType DEF Total, Tokens
<1>5. \A q \in S : Total(Frozen, S) = Frozen[q] + Total(Frozen, S \ {q})
  BY <1>1, TotalSplits
<1> QED
  BY <1>3, <1>4, <1>5

\* A settlement adds what was used to what was charged.
LEMMA LedgerTotal ==
  ASSUME TypeOK
  PROVE  /\ Total(ledger, Requests) \in Nat
         /\ \A q \in Requests, used \in Nat :
              Total([ledger EXCEPT ![q] = @ + used], Requests) = Total(ledger, Requests) + used
<1>1. IsFiniteSet(Requests) /\ ledger \in [Requests -> Nat]
  BY FinitenessAssumption DEF TypeOK
<1>2. Total(ledger, Requests) \in Nat
  <2>1. IsFiniteSet(Tokens(ledger, Requests))
    BY <1>1, TokensFinite
  <2> QED
    BY <2>1, FS_CardinalityType DEF Total, Tokens
<1>3. ASSUME NEW q \in Requests, NEW used \in Nat
      PROVE  Total([ledger EXCEPT ![q] = @ + used], Requests) = Total(ledger, Requests) + used
  <2> DEFINE new == [ledger EXCEPT ![q] = ledger[q] + used]
             others == Requests \ {q}
  <2>1. new \in [Requests -> Nat] /\ new[q] = ledger[q] + used
        /\ \A r \in others : new[r] = ledger[r]
    BY <1>1
  <2>2. Total(new, Requests) = new[q] + Total(new, others)
    <3> HIDE DEF new
    <3> QED
      BY <1>1, <2>1, TotalSplits
  <2>3. Total(ledger, Requests) = ledger[q] + Total(ledger, others)
    BY <1>1, TotalSplits
  <2>4. Total(new, others) = Total(ledger, others)
    <3> HIDE DEF new
    <3> QED
      BY <2>1, TotalAgrees
  <2>5. Total(ledger, others) \in Nat
    <3>1. IsFiniteSet(others)
      BY <1>1, FS_RemoveElement
    <3>2. IsFiniteSet(Tokens(ledger, others))
      BY <1>1, <3>1, TokensFinite
    <3> QED
      BY <3>2, FS_CardinalityType DEF Total, Tokens
  <2>6. ledger[q] \in Nat
    BY <1>1
  <2> HIDE DEF new, others
  <2>7. Total(new, Requests) = Total(ledger, Requests) + used
    BY <2>1, <2>2, <2>3, <2>4, <2>5, <2>6
  <2> QED
    BY <2>7 DEF new
<1> QED
  BY <1>2, <1>3
-----------------------------------------------------------------------------
(* The counters of the budget and the ledger.                              *)

\* What a step does to reservations, ledger and budget.
LEMMA BudgetSteps ==
  ASSUME Inductive, [Next]_vars
  PROVE  \/ /\ UNCHANGED budgetVars
            /\ thread' = thread \/ thread'.at # "deduct"
         \/ \E q \in Requests : Reserve(q)
         \/ \E q \in Requests : /\ reservation[q] = "reserved" /\ ReleaseReservation(q)
                                /\ thread.at # "deduct" /\ thread'.at # "deduct"
         \/ \E q \in Requests, used \in Usage :
              /\ reservation[q] = "reserved" /\ used <= Frozen[q] /\ Settled(q, used)
              /\ thread = Idle /\ thread' = Idle
         \/ CancelRelease
         \/ CancelDeduct
         \/ \E limit \in Limits : ReviseTokenLimit(limit)
<1> DEFINE Effect ==
         \/ /\ UNCHANGED budgetVars
            /\ thread' = thread \/ thread'.at # "deduct"
         \/ \E q \in Requests : Reserve(q)
         \/ \E q \in Requests : /\ reservation[q] = "reserved" /\ ReleaseReservation(q)
                                /\ thread.at # "deduct" /\ thread'.at # "deduct"
         \/ \E q \in Requests, used \in Usage :
              /\ reservation[q] = "reserved" /\ used <= Frozen[q] /\ Settled(q, used)
              /\ thread = Idle /\ thread' = Idle
         \/ CancelRelease
         \/ CancelDeduct
         \/ \E limit \in Limits : ReviseTokenLimit(limit)
<1> SUFFICES Effect
  OBVIOUS
<1> USE DEF Inductive, TypeOK, Idle, At
<1>1. ASSUME NEW q \in Requests, thread.at # "deduct", thread'.at # "deduct", ReleaseReservation(q)
      PROVE  Effect
  BY <1>1 DEF ReleaseReservation, budgetVars
<1>2. ASSUME NEW q \in Requests, NEW used \in Usage, MaySettle(q, used), Settled(q, used),
             thread = Idle, thread' = Idle
      PROVE  Effect
  BY <1>2 DEF MaySettle, Settled, budgetVars
<1> HIDE DEF Effect
<1>3. ASSUME NEW q \in Requests,
             BeginExisting(q) \/ BeginConflict(q) \/ BeginInsert(q) \/ Start(q)
      PROVE  Effect
  <2>1. CASE BeginExisting(q)
    BY <1>1, <2>1 DEF BeginExisting
  <2>2. CASE BeginConflict(q) \/ BeginInsert(q) \/ Start(q)
    BY <2>2 DEF Effect, BeginConflict, BeginInsert, Start, budgetVars
  <2> QED
    BY <1>3, <2>1, <2>2
<1>4. CASE Await \/ RetrySafe \/ CancelMark \/ SweepFails \/ SweepDiscards
  BY <1>4 DEF Effect, Await, RetrySafe, CancelMark, SweepFails, SweepDiscards, budgetVars
<1>5. CASE ReleaseAfterError
  <2>1. thread.req \in Requests /\ thread.at # "deduct" /\ thread'.at # "deduct"
    BY <1>5 DEF ReleaseAfterError
  <2>2. ReleaseReservation(thread.req)
    BY <1>5 DEF ReleaseAfterError
  <2> QED
    BY <1>1, <2>1, <2>2
<1>6. CASE CancelRelease \/ CancelDeduct
  BY <1>6 DEF Effect
<1>7. ASSUME NEW q \in Requests, NEW fence, Answer(q, fence)
      PROVE  Effect
  <2>1. ASSUME NEW used \in Usage, AnswerCommits(q, used, fence) PROVE Effect
    BY <1>2, <2>1 DEF AnswerCommits
  <2>2. ASSUME NEW used \in Usage, AnswerDiscarded(q, used, fence) PROVE Effect
    <3>1. CASE MaySettle(q, used)
      BY <1>2, <2>2, <3>1 DEF AnswerDiscarded
    <3>2. CASE ~MaySettle(q, used)
      BY <2>2, <3>2 DEF Effect, AnswerDiscarded, budgetVars
    <3> QED
      BY <3>1, <3>2
  <2>3. ASSUME NEW interrupted \in BOOLEAN, Throws(q, interrupted) PROVE Effect
    BY <2>3 DEF Effect, Throws, budgetVars
  <2> QED
    BY <1>7, <2>1, <2>2, <2>3, AnswerCases
<1>8. ASSUME NEW q \in Requests, Reconcile(q)
      PROVE  Effect
  <2>1. CASE ReconcileResult(q)
    <3>1. result[q] \in Usage
      BY <2>1 DEF ReconcileResult
    <3> QED
      BY <1>2, <2>1, <3>1 DEF ReconcileResult
  <2>2. CASE ReconcileUnknown(q)
    BY <2>2 DEF Effect, ReconcileUnknown, budgetVars
  <2>3. CASE ReconcileLocal(q) \/ Sweep(q) \/ SweepOrphan(q)
    BY <1>1, <2>3 DEF ReconcileLocal, Sweep, SweepOrphan
  <2> QED
    BY <1>8, <2>1, <2>2, <2>3 DEF Reconcile
<1>9. ASSUME NEW q \in Requests, Reserve(q) \/ WorkerInterrupts(q)
      PROVE  Effect
  BY <1>9 DEF Effect, WorkerInterrupts, budgetVars
<1>10. ASSUME NEW t \in Tasks, AbortCalls(t) \/ CancelCalls(t)
       PROVE  Effect
  BY <1>10 DEF Effect, AbortCalls, CancelCalls, budgetVars
<1>11. ASSUME NEW limit \in Limits, ReviseTokenLimit(limit)
       PROVE  Effect
  BY <1>11 DEF Effect
<1>12. CASE ApiCrash \/ UNCHANGED vars
  BY <1>12 DEF Effect, ApiCrash, vars, budgetVars
<1>13. HandlerStep => Effect
  BY <1>3, <1>4, <1>5, <1>6 DEF HandlerStep
<1>14. Next => Effect
  BY <1>7, <1>8, <1>9, <1>10, <1>11, <1>12, <1>13 DEF Next
<1> QED
  BY <1>12, <1>14


\* What a cancellation has still to deduct only adds to the rows.
LEMMA RowsCovered ==
  ASSUME Inductive, CountersCoverCancellations
  PROVE  CountersCoverRows
<1> DEFINE owed == {r \in Requests : reservation[r] = "reserved" \/ Deducting(r)}
<1>1. Reserved \in SUBSET owed
  BY DEF Reserved
<1>2. /\ Total(Frozen, Reserved) <= Total(Frozen, owed)
      /\ Total(Frozen, Reserved) \in Nat /\ Total(Frozen, owed) \in Nat
  BY <1>1, FrozenTotal
<1>3. budget.reserved \in Int
  BY DEF Inductive, TypeOK
<1> QED
  BY <1>2, <1>3 DEF CountersCoverRows, CountersCoverCancellations

\* No counter is lowered by more than a row gives up.
LEMMA CountersStep ==
  ASSUME Inductive, CountersCoverCancellations, [Next]_vars
  PROVE  CountersCoverCancellations'
<1> DEFINE Owed == {r \in Requests : reservation[r] = "reserved" \/ Deducting(r)}
<1> USE DEF Inductive, CountersCoverCancellations
<1>0. /\ TypeOK
      /\ Frozen \in [Requests -> Nat]
      /\ budget.reserved \in Int /\ budget.spent \in Nat
      /\ budget.spent = Total(ledger, Requests)
      /\ budget.reserved >= Total(Frozen, Owed)
      /\ Total(Frozen, Owed) \in Nat
  BY AmountsAssumption, FrozenTotal DEF TypeOK
<1>1. CASE UNCHANGED budgetVars /\ (thread' = thread \/ thread'.at # "deduct")
  <2>1. Owed' \in SUBSET Owed
    BY <1>1 DEF budgetVars, Deducting
  <2>2. Total(Frozen, Owed') <= Total(Frozen, Owed) /\ Total(Frozen, Owed') \in Nat
    BY <2>1, FrozenTotal
  <2>3. budget' = budget /\ ledger' = ledger
    BY <1>1 DEF budgetVars
  <2>4. (\A r \in Requests : Deducting(r) => reservation[r] = "released")'
    BY <1>1 DEF budgetVars, Deducting
  <2> QED
    BY <1>0, <2>2, <2>3, <2>4
<1>2. ASSUME NEW q \in Requests, Reserve(q)
      PROVE  CountersCoverCancellations'
  <2>1. reservation[q] = "none" /\ ~Deducting(q)
    BY <1>0, <1>2 DEF Reserve, IdleRequestsAreBlank, Deducting, Idle
  <2>2. Owed' = Owed \cup {q} /\ q \notin Owed /\ ~\E r \in Requests : Deducting(r)'
    BY <1>0, <1>2, <2>1 DEF Reserve, Deducting, Idle, At, TypeOK
  <2>3. Total(Frozen, Owed') = Frozen[q] + Total(Frozen, Owed)
    <3>1. Owed' \in SUBSET Requests /\ q \in Owed' /\ Owed' \ {q} = Owed
      BY <2>2
    <3> QED
      BY <3>1, FrozenTotal
  <2>4. budget'.reserved = budget.reserved + Frozen[q] /\ budget'.spent = budget.spent
        /\ ledger' = ledger
    BY <1>0, <1>2 DEF Reserve, TypeOK
  <2> HIDE DEF Owed
  <2> QED
    BY <1>0, <2>2, <2>3, <2>4 DEF Owed
<1>3. ASSUME NEW q \in Requests, reservation[q] = "reserved", ReleaseReservation(q),
             thread.at # "deduct", thread'.at # "deduct"
      PROVE  CountersCoverCancellations'
  <2>1. Owed' = Owed \ {q} /\ q \in Owed /\ ~\E r \in Requests : Deducting(r)'
    BY <1>0, <1>3 DEF ReleaseReservation, Deducting, TypeOK
  <2>2. Total(Frozen, Owed) = Frozen[q] + Total(Frozen, Owed')
    BY <2>1, FrozenTotal
  <2>3. Total(Frozen, Owed') \in Nat
    BY <2>1, FrozenTotal
  <2>4. budget'.reserved = budget.reserved - Frozen[q] /\ budget'.spent = budget.spent
        /\ ledger' = ledger
    BY <1>0, <1>3 DEF ReleaseReservation, TypeOK
  <2> HIDE DEF Owed
  <2> QED
    BY <1>0, <2>1, <2>2, <2>3, <2>4 DEF Owed
<1>4. ASSUME NEW q \in Requests, NEW used \in Usage, reservation[q] = "reserved",
             used <= Frozen[q], Settled(q, used), thread = Idle, thread' = Idle
      PROVE  CountersCoverCancellations'
  <2>0. used \in Nat
    BY AmountsAssumption
  <2>1. Owed' = Owed \ {q} /\ q \in Owed /\ ~\E r \in Requests : Deducting(r)'
    BY <1>0, <1>4 DEF Settled, Deducting, TypeOK, Idle
  <2>2. Total(Frozen, Owed) = Frozen[q] + Total(Frozen, Owed')
    BY <2>1, FrozenTotal
  <2>3. Total(Frozen, Owed') \in Nat
    BY <2>1, FrozenTotal
  <2>4. budget'.reserved = budget.reserved - Frozen[q] /\ budget'.spent = budget.spent + used
        /\ ledger' = [ledger EXCEPT ![q] = @ + used]
    BY <1>0, <1>4 DEF Settled, TypeOK
  <2>5. Total(ledger', Requests) = Total(ledger, Requests) + used
    BY <1>0, <2>0, <2>4, LedgerTotal
  <2> HIDE DEF Owed
  <2> QED
    BY <1>0, <2>1, <2>2, <2>3, <2>4, <2>5 DEF Owed
<1>5. CASE CancelRelease
  <2>1. Owed' = Owed
    BY <1>0, <1>5 DEF CancelRelease, Deducting, TypeOK
  <2>2. budget' = budget /\ ledger' = ledger
    BY <1>5 DEF CancelRelease
  <2>3. (\A r \in Requests : Deducting(r) => reservation[r] = "released")'
    BY <1>0, <1>5 DEF CancelRelease, Deducting, TypeOK
  <2> QED
    BY <1>0, <2>1, <2>2, <2>3
<1>6. CASE CancelDeduct
  <2> DEFINE q == thread.req
  <2>1. q \in Requests /\ q \in Owed /\ reservation[q] = "released"
    BY <1>0, <1>6 DEF CancelDeduct, Deducting, TypeOK, Idle
  <2>2. Owed' = Owed \ {q} /\ ~\E r \in Requests : Deducting(r)'
    BY <1>0, <1>6, <2>1 DEF CancelDeduct, Deducting, TypeOK, Idle
  <2>3. Total(Frozen, Owed) = Frozen[q] + Total(Frozen, Owed')
    BY <2>1, <2>2, FrozenTotal
  <2>4. Total(Frozen, Owed') \in Nat
    BY <2>2, FrozenTotal
  <2>5. budget'.reserved = (IF budget.reserved >= Frozen[q] THEN budget.reserved - Frozen[q] ELSE 0)
        /\ budget'.spent = budget.spent /\ ledger' = ledger
    BY <1>0, <1>6 DEF CancelDeduct, TypeOK
  <2>6. Frozen[q] \in Nat
    BY <1>0, <2>1
  <2> HIDE DEF Owed, q
  <2> QED
    BY <1>0, <2>2, <2>3, <2>4, <2>5, <2>6 DEF Owed
<1>7. ASSUME NEW limit \in Limits, ReviseTokenLimit(limit)
      PROVE  CountersCoverCancellations'
  BY <1>0, <1>7 DEF ReviseTokenLimit, TypeOK, Deducting
<1> QED
  BY <1>1, <1>2, <1>3, <1>4, <1>5, <1>6, <1>7, BudgetSteps

\* The counters of the budget never understate its rows, through settlements, releases,
\* cancellations of three statements and crashes between any two of them.
THEOREM CountersCover == Spec => []CountersCoverRows
<1>1. Init => CountersCoverCancellations
  <2> SUFFICES ASSUME Init PROVE CountersCoverCancellations
    OBVIOUS
  <2>1. {r \in Requests : reservation[r] = "reserved" \/ Deducting(r)} = {}
    BY DEF Init, Deducting, Idle
  <2>2. UNION {{r} \X (1 .. ledger[r]) : r \in Requests} = {}
    BY DEF Init
  <2>3. Total(ledger, Requests) = 0 /\ Total(Frozen, {}) = 0
    <3>1. UNION {{r} \X (1 .. Frozen[r]) : r \in {}} = {}
      OBVIOUS
    <3> QED
      BY <2>2, <3>1, FS_EmptySet DEF Total
  <2> QED
    BY <2>1, <2>3 DEF Init, CountersCoverCancellations, Deducting, Idle
<1>2. Inductive /\ CountersCoverCancellations /\ [Next]_vars => CountersCoverCancellations'
  BY CountersStep
<1>3. Inductive /\ CountersCoverCancellations => CountersCoverRows
  BY RowsCovered
<1> QED
  BY <1>1, <1>2, <1>3, InductiveHolds, PTL DEF Spec

-----------------------------------------------------------------------------
(* The calls implement CreditLedger.                                       *)

\* The hold of a request, by the status of its reservation.
HoldOf(status) == CASE status = "none" -> "none"
                    [] status = "reserved" -> "held"
                    [] status = "settled" -> "charged"
                    [] OTHER -> "free"

\* A hold is free, held or charged as the reservation is.
LEMMA HoldsMapped ==
  ASSUME TypeOK
  PROVE  /\ hold \in [Requests -> {"none", "held", "charged", "free"}]
         /\ hold = [r \in Requests |-> HoldOf(reservation[r])]
         /\ \A r \in Requests : (hold[r] = "none") <=> (reservation[r] = "none")
         /\ \A r \in Requests : (hold[r] = "held") <=> (reservation[r] = "reserved")
<1>1. hold = [r \in Requests |-> HoldOf(reservation[r])]
  BY DEF hold, HoldOf
<1>2. reservation \in [Requests -> {"none", "reserved", "settled", "released"}]
  BY DEF TypeOK
<1>3. \A status \in {"none", "reserved", "settled", "released"} :
        /\ HoldOf(status) \in {"none", "held", "charged", "free"}
        /\ (HoldOf(status) = "none") <=> (status = "none")
        /\ (HoldOf(status) = "held") <=> (status = "reserved")
  BY DEF HoldOf
<1> QED
  BY <1>1, <1>2, <1>3

\* A write to one reservation writes one hold.
LEMMA HoldWritten ==
  ASSUME TypeOK, NEW q \in Requests, NEW status,
         reservation' = [reservation EXCEPT ![q] = status]
  PROVE  hold' = [hold EXCEPT ![q] = HoldOf(status)]
<1>1. hold = [r \in Requests |-> HoldOf(reservation[r])]
  BY DEF hold, HoldOf
<1>2. hold' = [r \in Requests |-> HoldOf(reservation'[r])]
  BY DEF hold, HoldOf
<1>3. reservation \in [Requests -> {"none", "reserved", "settled", "released"}]
  BY DEF TypeOK
<1> QED
  BY <1>1, <1>2, <1>3

\* A released reservation is a hold set free.
LEMMA ReleasedIsFree == HoldOf("released") = "free"
BY DEF HoldOf

\* Without a write to reservations no hold changes.
LEMMA HoldsKept ==
  ASSUME reservation' = reservation
  PROVE  hold' = hold
BY DEF hold

\* What is committed against the limit is covered by the counters.
LEMMA CommittedCovered ==
  ASSUME Inductive, CountersCoverRows
  PROVE  /\ Abstract!Committed \in Nat
         /\ Abstract!Committed <= budget.spent + budget.reserved
<1>1. {r \in Requests : hold[r] = "held"} = Reserved
  BY HoldsMapped DEF Inductive, Reserved
<1>2. Abstract!Committed = Total(ledger, Requests) + Total(Frozen, Reserved)
  <2>1. Abstract!Committed = Abstract!Total(ledger, Requests)
                               + Abstract!Total(Frozen, {r \in Requests : hold[r] = "held"})
    BY DEF Abstract!Committed
  <2>2. \A amount, set : Abstract!Total(amount, set) = Total(amount, set)
    <3>1. \A S : Abstract!Cardinality(S) = Cardinality(S)
      BY Zenon DEF Abstract!Cardinality, Cardinality
    <3> HIDE DEF Cardinality, Abstract!Cardinality
    <3> QED
      BY <3>1 DEF Abstract!Total, Total
  <2> QED
    BY <1>1, <2>1, <2>2
<1>3. Total(ledger, Requests) \in Nat /\ Total(Frozen, Reserved) \in Nat
  BY FrozenTotal, LedgerTotal DEF Inductive, Reserved
<1>4. budget.spent \in Nat /\ budget.reserved \in Int
  BY DEF Inductive, TypeOK
<1> QED
  BY <1>2, <1>3, <1>4 DEF CountersCoverRows

\* Nothing is held or charged at first.
LEMMA LedgerInit == Init => Abstract!Init
<1> SUFFICES ASSUME Init PROVE Abstract!Init
  OBVIOUS
<1>1. hold = [r \in Requests |-> "none"]
  BY DEF Init, hold
<1>2. budget.limit \in Nat
  BY AmountsAssumption DEF Init
<1> QED
  BY <1>1, <1>2 DEF Abstract!Init, Init

\* A reservation is a hold, a settlement a charge, a release or the first statement of a
\* cancellation sets free; no other step is seen in the rows.
LEMMA LedgerStep ==
  ASSUME Inductive, CountersCoverRows, [Next]_vars
  PROVE  [Abstract!Next]_(Abstract!vars)
<1> USE DEF Inductive
<1>0. /\ Frozen \in [Requests -> Nat]
      /\ budget.limit \in Nat /\ budget.spent \in Nat /\ budget.reserved \in Int
      /\ Abstract!Committed \in Nat
      /\ Abstract!Committed <= budget.spent + budget.reserved
  BY AmountsAssumption, CommittedCovered DEF TypeOK
<1>1. CASE UNCHANGED budgetVars
  BY <1>1, HoldsKept DEF budgetVars, Abstract!vars
<1>2. ASSUME NEW q \in Requests, Reserve(q)
      PROVE  Abstract!Hold(q)
  <2>1. reservation[q] = "none"
    BY <1>2 DEF Reserve, IdleRequestsAreBlank
  <2>2. Abstract!Committed + Frozen[q] <= budget.limit
    BY <1>0, <1>2 DEF Reserve
  <2>3. reservation' = [reservation EXCEPT ![q] = "reserved"]
        /\ budget'.limit = budget.limit /\ ledger' = ledger
    BY <1>2 DEF Reserve, TypeOK
  <2>5. hold' = [hold EXCEPT ![q] = "held"]
    BY <2>3, HoldWritten DEF HoldOf
  <2> QED
    BY <2>1, <2>2, <2>3, <2>5, HoldsMapped DEF Abstract!Hold
<1>3. ASSUME NEW q \in Requests, reservation[q] = "reserved", ReleaseReservation(q)
      PROVE  Abstract!Free(q)
  <2>1. reservation' = [reservation EXCEPT ![q] = "released"]
        /\ budget'.limit = budget.limit /\ ledger' = ledger
    BY <1>3 DEF ReleaseReservation, TypeOK
  <2>2. hold' = [hold EXCEPT ![q] = "free"]
    BY <2>1, HoldWritten, ReleasedIsFree
  <2> QED
    BY <1>3, <2>1, <2>2, HoldsMapped DEF Abstract!Free
<1>4. ASSUME NEW q \in Requests, NEW used \in Usage, reservation[q] = "reserved",
             used <= Frozen[q], Settled(q, used)
      PROVE  Abstract!Charge(q)
  <2>1. ledger[q] = 0 /\ ledger \in [Requests -> Nat]
    BY <1>4 DEF ResultsAreChargedOnce, TypeOK
  <2>2. used \in 1 .. Frozen[q]
    BY <1>0, <1>4, AmountsAssumption
  <2>3. reservation' = [reservation EXCEPT ![q] = "settled"]
        /\ budget'.limit = budget.limit /\ ledger' = [ledger EXCEPT ![q] = ledger[q] + used]
    BY <1>4 DEF Settled, TypeOK
  <2>4. ledger' = [ledger EXCEPT ![q] = used]
    <3>1. ledger[q] + used = used
      BY <1>0, <2>1, <2>2
    <3> QED
      BY <2>3, <3>1
  <2>5. hold' = [hold EXCEPT ![q] = "charged"]
    BY <2>3, HoldWritten DEF HoldOf
  <2> QED
    BY <1>4, <2>2, <2>3, <2>4, <2>5, HoldsMapped DEF Abstract!Charge
<1>5. CASE CancelRelease
  <2>1. PICK q \in Requests :
          reservation' = [reservation EXCEPT ![q] = IF @ = "reserved" THEN "released" ELSE @]
    <3>1. thread.left \subseteq Requests
      BY <1>5 DEF CancelRelease, TypeOK, Idle
    <3>2. PICK q \in thread.left :
            reservation' = [reservation EXCEPT ![q] = IF @ = "reserved" THEN "released" ELSE @]
      BY <1>5 DEF CancelRelease
    <3> QED
      BY <3>1, <3>2
  <2>2. budget' = budget /\ ledger' = ledger
    BY <1>5 DEF CancelRelease
  <2>3. CASE reservation[q] = "reserved"
    <3>0. hold' = [hold EXCEPT ![q] = "free"]
      BY <2>1, <2>3, HoldWritten, ReleasedIsFree
    <3>1. Abstract!Free(q)
      BY <2>2, <2>3, <3>0, HoldsMapped DEF Abstract!Free
    <3> QED
      BY <3>1 DEF Abstract!Next
  <2>4. CASE reservation[q] # "reserved"
    <3>1. reservation' = reservation
      BY <2>1, <2>4 DEF TypeOK
    <3> QED
      BY <2>2, <3>1, HoldsKept DEF Abstract!vars
  <2> QED
    BY <2>3, <2>4
<1>6. CASE CancelDeduct
  <2>1. reservation' = reservation /\ ledger' = ledger /\ budget'.limit = budget.limit
    BY <1>6 DEF CancelDeduct, TypeOK
  <2> QED
    BY <2>1, HoldsKept DEF Abstract!vars
<1>7. ASSUME NEW limit \in Limits, ReviseTokenLimit(limit)
      PROVE  Abstract!Revise
  <2>1. limit \in Nat /\ budget'.limit = limit /\ limit >= budget.spent + budget.reserved
    BY <1>7, AmountsAssumption DEF ReviseTokenLimit, TypeOK
  <2>2. ledger' = ledger /\ hold' = hold
    BY <1>7, HoldsKept DEF ReviseTokenLimit
  <2> QED
    BY <1>0, <2>1, <2>2 DEF Abstract!Revise
<1> QED
  BY <1>1, <1>2, <1>3, <1>4, <1>5, <1>6, <1>7, BudgetSteps DEF Abstract!Next

\* Against the rows themselves, every call is held within the limit before it is sent,
\* charged once and never above its hold, or set free.
THEOREM CallsAreALedger == Spec => ImplementsCreditLedger
  BY LedgerInit, LedgerStep, InductiveHolds, CountersCover, PTL
     DEF Spec, Abstract!Spec, ImplementsCreditLedger

=============================================================================
