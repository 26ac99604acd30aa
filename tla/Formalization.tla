---------------------------- MODULE Formalization ----------------------------
(***************************************************************************)
(* The write-back of finished chapters: the outbox of formalization events *)
(* that a final manuscript opens, the settlement of the chapter that an    *)
(* editor extracts from it, the three maintenance events the settlement    *)
(* opens, the stage jobs that close the chain and its volume, and the      *)
(* workflow row that refreshWorkflow recomputes from all of them.          *)
(*                                                                         *)
(* The process runs one batch at a time.  A batch reads the events once,   *)
(* settles the chapters one after another, then runs the other events      *)
(* together, then one stage job.  The worker asks for batches of one       *)
(* event, a finalization, a look at the write-back and a managed run for   *)
(* the whole backlog (24 events, which the instances do not reach).        *)
(*                                                                         *)
(* The texts of the chain belong to CreationChain, which EXTENDS this      *)
(* module with the steps that write them.  Leases of events are not        *)
(* modelled: one batch runs at a time, so no two hold the same event, and  *)
(* a crash leaves its events "working", which no batch offers again.       *)
(* Writes that follow each other without an await are one turn of the      *)
(* event loop: nothing comes between them but a crash, see turn.           *)
(***************************************************************************)
EXTENDS Integers, Sequences, FiniteSetsExt

CONSTANTS
  NumEditors,   \* members in the fallback chain of settlement editors
  MaxAttempts,  \* attempts after which an event or a job is offered no more
  ClosesVolume, \* whether every other chain of the volume is settled
  Scenarios     \* the chapters of the confirmed outline, and what may go wrong

\* Failures and unknown results of the write-back, then those of the writing.
Troubles == {"failure", "unknown", "look"} \cup
            {"call failure", "call unknown", "crash", "cancellation", "author"}

ASSUME ChainAssumption ==
  /\ NumEditors \in Nat \ {0} /\ MaxAttempts \in Nat \ {0}
  /\ ClosesVolume \in BOOLEAN /\ Scenarios \subseteq [chapters : Nat \ {0}, troubles : SUBSET Troubles]

VARIABLES
  workflow,   \* the row of v7_creation_workflows
  text,       \* table v7_manuscript_versions, with the verdict of each review
  event,      \* table v7_formalization_outbox
  editorCall, \* the settlement calls of v7_creation_model_calls
  settled,    \* the chapters with a row in v7_chapter_settlements
  staged,     \* the chapters with an active stage settlement
  child,      \* table v7_character_maintenance_runs
  running,    \* API memory: the maintenance runs this process executes
  job,        \* table v7_creation_stage_jobs
  batch,      \* API memory: the batch in flight
  turn,       \* the write this turn of the event loop has still to make
  scenario    \* of the behaviour: no step changes it

outbox == <<event, settled>>
editing == <<editorCall, staged>>
chores == <<child, running>>
written == <<workflow, text>>

troubles == scenario.troubles
Chapters == 1 .. scenario.chapters
Kinds == {"settle", "story", "characters", "planning"}
Jobs == {"chain", "volume"}

NoBatch == [on |-> FALSE, single |-> FALSE, todo |-> {}, open |-> {}, step |-> "lease",
            editor |-> 0, used |-> FALSE]
Fresh == [status |-> "pending", attempts |-> 0]

InitWriteBack ==
  /\ scenario \in Scenarios
  /\ event = [c \in Chapters |-> [k \in Kinds |-> [status |-> "none", attempts |-> 0]]]
  /\ editorCall = [c \in Chapters |-> [m \in 1 .. NumEditors |-> "none"]]
  /\ settled = {} /\ staged = {} /\ running = {}
  /\ child = [c \in Chapters |-> "none"]
  /\ job = [j \in Jobs |-> [status |-> "none", attempts |-> 0]]
  /\ batch = NoBatch
  /\ turn = "none"
-----------------------------------------------------------------------------
(* The workflow row.                                                       *)

Final(texts) == {texts[v].chapter : v \in {u \in DOMAIN texts : texts[u].lifecycle = "final"}}
Unwritten(texts) == Chapters \ Final(texts)

Rows(ev) == {e \in Chapters \X Kinds : ev[e[1]][e[2]].status # "none"}
Have(ev, status) == \E e \in Rows(ev) : ev[e[1]][e[2]].status = status

\* Whether the write-back is complete.  Defect: an event that ended counts as done.
AllEnded(ev) ==
  Cardinality(Rows(ev)) >= 4 /\ ~Have(ev, "pending") /\ ~Have(ev, "working")
AllCompleted(ev) ==
  Cardinality(Rows(ev)) >= 4 /\ \A e \in Rows(ev) : ev[e[1]][e[2]].status = "completed"

Enqueued(jobs, j) == IF jobs[j].status = "none" THEN [jobs EXCEPT ![j] = Fresh] ELSE jobs

\* The stage jobs after refreshWorkflow: the chain when every chapter of the
\* outline is final and settled, the volume when its last chain is settled.
JobsAfter(ev, jobs) ==
  IF ~(AllCompleted(ev) /\ Unwritten(text) = {} /\ settled = Final(text)) THEN jobs
  ELSE LET chain == Enqueued(jobs, "chain")
       IN  IF chain["chain"].status = "completed" /\ ClosesVolume
           THEN Enqueued(chain, "volume") ELSE chain

\* refreshWorkflow, with the events ev and the jobs as they are after the step.
\* The checkpoint is replaced: text and acknowledgement are forgotten.
Refreshed(ev, jobs) ==
  LET more == AllCompleted(ev) /\ Unwritten(text) # {}
      closed == /\ AllCompleted(ev) /\ ~more /\ jobs["chain"].status = "completed"
                /\ jobs["volume"].status \in {"none", "completed"}
      lost == \E j \in Jobs : jobs[j].status = "failed"
  IN  IF workflow.stage # "settlement" \/ workflow.status = "cancelled" THEN workflow
      ELSE [stage |-> IF more THEN "manuscript" ELSE IF closed THEN "completed" ELSE "settlement",
            status |-> IF more THEN "awaiting_author"
                       ELSE IF closed THEN "completed"
                       ELSE IF Have(ev, "unknown") THEN "unknown"
                       ELSE IF lost \/ Have(ev, "failed") THEN "partially_failed" ELSE "working",
            text |-> 0, ack |-> 0]

\* The end of a turn: refreshWorkflow looks at nothing unless the workflow settles.
RefreshTurn ==
  LET after == IF workflow.stage = "settlement" /\ workflow.status # "cancelled"
               THEN JobsAfter(event, job) ELSE job
  IN  /\ turn = "refresh" /\ turn' = "none"
      /\ job' = after /\ workflow' = Refreshed(event, after)
      /\ UNCHANGED <<text, outbox, editing, chores, batch>>
-----------------------------------------------------------------------------
(* One batch: processBatch and processLeasedEvent.                         *)

\* pendingEvents.  Defect: attempts are not counted; or a failed event is left alone.
OfferedAlways(r) == r.status \in {"pending", "failed"}
OfferedOnce(r) == r.status = "pending" /\ r.attempts < MaxAttempts
Offered(r) == r.status \in {"pending", "failed"} /\ r.attempts < MaxAttempts
OfferedEvents == {e \in Chapters \X Kinds : Offered(event[e[1]][e[2]])}
OfferedJobs == {j \in Jobs : Offered(job[j])}

\* The rows as the batch reads them; an event is older than those of a later
\* chapter, and the settlement than what it opened.
AsRead(E) == {<<e[1], e[2], event[e[1]][e[2]].attempts>> : e \in E}
Oldest(E) ==
  {e \in E : \A f \in E : e[1] < f[1] \/ (e[1] = f[1] /\ (e[2] = "settle" \/ f[2] # "settle"))}

StartBatch(single, E) ==
  /\ ~batch.on
  /\ batch' = [NoBatch EXCEPT !.on = TRUE, !.single = single, !.todo = AsRead(E)]

\* V7FormalizationExecutor.runNext: nothing is asked for without an event.
WorkerAsks ==
  /\ \E e \in Oldest(OfferedEvents) : StartBatch(TRUE, {e})
  /\ UNCHANGED <<written, outbox, editing, chores, job, turn>>

\* kick, from the routes finalize and write-back.
Kick ==
  /\ OfferedEvents # {} \/ OfferedJobs # {}
  /\ StartBatch(FALSE, OfferedEvents)
  /\ UNCHANGED <<written, outbox, editing, chores, job, turn>>

Leased(ev, E) ==
  [c \in Chapters |-> [k \in Kinds |->
     IF \E n \in 0 .. MaxAttempts : <<c, k, n>> \in E
     THEN [status |-> "working", attempts |-> ev[c][k].attempts + 1] ELSE ev[c][k]]]

\* The lease of e ends, by finishEvent or, when it is pending again, by deferEvent.
EndEvent(e, status) ==
  LET left == batch.open \ {e}
  IN  /\ event' = [event EXCEPT ![e[1]][e[2]] =
                     [status |-> status, attempts |-> IF status = "pending" THEN @.attempts - 1 ELSE @.attempts]]
      /\ batch' = [batch EXCEPT !.open = left, !.step = IF left = {} THEN "lease" ELSE @]
      /\ turn' = "refresh"

Upstream == {e \in batch.todo : e[2] = "settle"}
Settling(step) == batch.on /\ batch.step = step
TheOpen == CHOOSE e \in batch.open : TRUE

\* settleChapter begins; what is settled already only needs its stage settlement.
LeaseSettle ==
  /\ Settling("lease") /\ batch.open = {}
  /\ \E e \in Upstream :
       /\ \A f \in Upstream : e[1] <= f[1]
       /\ event' = Leased(event, {e})
       /\ batch' = [batch EXCEPT !.todo = @ \ {e}, !.open = {e}, !.used = TRUE,
                                 !.step = IF e[1] \in settled THEN "stage" ELSE "ask",
                                 !.editor = 1]
  /\ UNCHANGED <<written, settled, editing, chores, job, turn>>

\* The context of the chapter could not be compiled.
SettleThrows ==
  /\ Settling("ask") /\ batch.editor = 1 /\ "failure" \in troubles
  /\ EndEvent(TheOpen, "failed")
  /\ UNCHANGED <<written, settled, editing, chores, job>>

\* The settlement and its three events, in one transaction.
SaveSettlement(c) ==
  /\ settled' = settled \cup {c}
  /\ event' = [event EXCEPT ![c] = [k \in Kinds |-> IF k = "settle" THEN @[k] ELSE Fresh]]
  /\ batch' = [batch EXCEPT !.step = "stage"]
  /\ UNCHANGED turn

\* A member did not deliver: the next one is asked, or the event has failed.
NextEditor ==
  IF batch.editor < NumEditors
  THEN /\ batch' = [batch EXCEPT !.step = "ask", !.editor = @ + 1]
       /\ UNCHANGED <<event, turn>>
  ELSE EndEvent(TheOpen, "failed")

Unparsable(e) == EndEvent(e, "failed")

\* The request of a member has no attempt in its name: what it ended with the
\* first time is what a retry of the event is told.
AskEditor ==
  /\ Settling("ask")
  /\ LET e == TheOpen
         was == editorCall[e[1]][batch.editor]
     IN  \/ /\ was = "none"
            /\ editorCall' = [editorCall EXCEPT ![e[1]][batch.editor] = "working"]
            /\ batch' = [batch EXCEPT !.step = "answer"]
            /\ UNCHANGED <<event, settled, turn>>
         \/ was \in {"working", "unknown"} /\ EndEvent(e, "unknown") /\ UNCHANGED <<settled, editorCall>>
         \/ was = "failed" /\ NextEditor /\ UNCHANGED <<settled, editorCall>>
         \/ was = "bad" /\ Unparsable(e) /\ UNCHANGED <<settled, editorCall>>
         \/ was = "good" /\ SaveSettlement(e[1]) /\ UNCHANGED editorCall
  /\ UNCHANGED <<written, staged, chores, job>>

Outcomes == {"good"} \cup (IF "failure" \in troubles THEN {"bad", "failed"} ELSE {})
                     \cup (IF "unknown" \in troubles THEN {"unknown"} ELSE {})

EditorAnswers ==
  /\ Settling("answer")
  /\ \E out \in Outcomes :
       LET e == TheOpen
       IN  /\ editorCall' = [editorCall EXCEPT ![e[1]][batch.editor] = out]
           /\ \/ out = "good" /\ SaveSettlement(e[1])
              \/ out = "bad" /\ Unparsable(e) /\ UNCHANGED settled
              \/ out = "failed" /\ NextEditor /\ UNCHANGED settled
              \/ out = "unknown" /\ EndEvent(e, "unknown") /\ UNCHANGED settled
  /\ UNCHANGED <<written, staged, chores, job>>

\* ensureStageSettlement, in transactions of its own, and the end of the event.
StageSettle ==
  /\ Settling("stage")
  /\ LET e == TheOpen
     IN  \/ staged' = staged \cup {e[1]} /\ EndEvent(e, "completed")
         \/ /\ "failure" \in troubles /\ e[1] \notin staged
            /\ EndEvent(e, "failed") /\ UNCHANGED staged
  /\ UNCHANGED <<written, settled, editorCall, chores, job>>
-----------------------------------------------------------------------------
(* The maintenance events of a batch, all leased in one turn.              *)

Restartable(c, attempts) == child[c] = "none" \/ (child[c] = "failed" /\ attempts > 0)

\* triggerMaintenance and retryMaintenance start what this process does not run;
\* a run the last process left working finds its call unanswered, and stops.
LeaseMaintenance ==
  /\ Settling("lease") /\ batch.open = {} /\ Upstream = {} /\ batch.todo # {}
  /\ event' = Leased(event, batch.todo)
  /\ batch' = [batch EXCEPT !.todo = {}, !.open = batch.todo, !.step = "maintain", !.used = TRUE]
  /\ LET triggered == {e \in batch.todo : e[2] = "characters" /\ e[1] \in staged}
         started == {e[1] : e \in {f \in triggered : Restartable(f[1], f[3])}}
         orphaned == {e[1] : e \in triggered} \cap {c \in Chapters \ running : child[c] = "working"}
     IN  /\ child' = [c \in Chapters |-> IF c \in started THEN "working"
                                       ELSE IF c \in orphaned THEN "unknown" ELSE child[c]]
         /\ running' = running \cup started
  /\ UNCHANGED <<written, settled, editing, job, turn>>

\* requireStageSettlement, then what the event is for: the run it started, or
\* the deterministic record of the chapter.
Ready(e) == e[2] = "story" \/ e[1] \in staged
CharactersEnd(c) ==
  CASE child[c] = "done" -> "completed" [] child[c] = "unknown" -> "unknown"
    [] child[c] = "working" -> "pending" [] OTHER -> "failed"

Maintain ==
  /\ Settling("maintain")
  /\ \E e \in batch.open :
       \/ ~Ready(e) /\ EndEvent(e, "failed")
       \/ Ready(e) /\ e[2] = "characters" /\ EndEvent(e, CharactersEnd(e[1]))
       \/ Ready(e) /\ e[2] # "characters" /\ EndEvent(e, "completed")
       \/ Ready(e) /\ e[2] # "characters" /\ "failure" \in troubles /\ EndEvent(e, "failed")
  /\ UNCHANGED <<written, settled, editing, chores, job>>

\* executeMaintenance ends; its result is stored whatever the row says by then.
ChildEnds(c) ==
  /\ c \in running
  /\ \E out \in {"done"} \cup (Outcomes \cap {"failed", "unknown"}) : child' = [child EXCEPT ![c] = out]
  /\ running' = running \ {c}
  /\ UNCHANGED <<written, outbox, editing, job, batch, turn>>

\* The page asks for a run that is working: the service of the route does not
\* know the call of the other service, sees it unanswered, and stops.
LookAtRun(c) ==
  /\ "look" \in troubles /\ child[c] = "working"
  /\ child' = [child EXCEPT ![c] = "unknown"]
  /\ UNCHANGED <<written, outbox, editing, running, job, batch, turn>>

\* The last part of a batch: the oldest stage job, unless the limit is reached.
\* Who waits for the batch is told whether it processed anything.
EndBatch(used) == batch' = [NoBatch EXCEPT !.used = used]

LeaseJob ==
  /\ Settling("lease") /\ batch.todo = {} /\ batch.open = {}
  /\ IF OfferedJobs = {} \/ (batch.single /\ batch.used)
     THEN EndBatch(batch.used) /\ UNCHANGED <<job, turn>>
     ELSE /\ \E j \in OfferedJobs :
               /\ "chain" \in OfferedJobs => j = "chain"
               /\ job' = [job EXCEPT ![j] = [status |-> "working", attempts |-> @.attempts + 1]]
               /\ batch' = [batch EXCEPT !.step = j]
          /\ turn' = "job"
  /\ UNCHANGED <<written, outbox, editing, chores>>

\* processStageJob aggregates the settlements there are, or throws.
JobTurn ==
  /\ turn = "job" /\ turn' = "refresh"
  /\ EndBatch(TRUE)
  /\ \E s \in {"completed"} \cup (Outcomes \cap {"failed"}) : job' = [job EXCEPT ![batch.step].status = s]
  /\ UNCHANGED <<written, outbox, editing, chores>>

\* What a crash leaves of a batch: rows that stay "working".
BatchDies == batch' = NoBatch /\ running' = {} /\ turn' = "none"

\* retryFailedEvents: the author goes on, and what failed is offered again.
\* Defect: so is what ended otherwise.
ReopenedAll ==
  [c \in Chapters |-> [k \in Kinds |->
     IF event[c][k].status \in {"failed", "completed", "unknown"} THEN Fresh ELSE event[c][k]]]
Reopened ==
  [c \in Chapters |-> [k \in Kinds |-> IF event[c][k].status = "failed" THEN Fresh ELSE event[c][k]]]

BatchStep ==
  \/ LeaseSettle \/ SettleThrows \/ AskEditor \/ EditorAnswers \/ StageSettle
  \/ LeaseMaintenance \/ Maintain \/ LeaseJob
TurnStep == RefreshTurn \/ JobTurn
=============================================================================
