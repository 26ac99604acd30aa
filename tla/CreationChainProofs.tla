------------------------ MODULE CreationChainProofs -------------------------
(***************************************************************************)
(* The inductive invariant of CreationChain, and what follows from it for  *)
(* every outline, fallback chain and limit on attempts: a final text was   *)
(* reviewed and passed, no chapter waits for a write-back nobody will start,*)
(* nothing is written back twice, and a completed chain is written back.   *)
(* A second invariant, about the calls, adds that nothing is ordered twice, *)
(* a third that the managed run writes the chapters in their order.        *)
(***************************************************************************)
EXTENDS CreationSteps
-----------------------------------------------------------------------------
(* The steps of the chain beside the generations.                          *)

\* The inductive invariant.
Inductive ==
  Texts /\ Making /\ WriteBackRows /\ BatchRow /\ CompletedMeansSettled

\* What every step but the recomputation of the workflow keeps.
Kept ==
  /\ Texts' /\ Making' /\ Outbox /\ JobsStay
  /\ staged \subseteq staged' /\ Final(text) \subseteq Final(text')
  /\ workflow'.stage = "completed" => workflow.stage = "completed"

\* So the invariant is kept, and so is what is completed.
LEMMA KeptIsInductive ==
  ASSUME Inductive, UNCHANGED scenario, Kept
  PROVE  Inductive' /\ EventsStay
BY CompletedKept DEF Inductive, Kept, Outbox

\* The texts do not change.
LEMMA TextsStay ==
  ASSUME Texts, UNCHANGED <<text, scenario>>
  PROVE  /\ Texts' /\ Final(text') = Final(text) /\ Chapters' = Chapters
         /\ Len(text) \in Nat /\ Len(text') = Len(text)
BY DEF Texts, FinalsWereReviewed, Chapters, Final

\* The generations do not change.
LEMMA GenerationsStay ==
  ASSUME Generations, UNCHANGED <<gen, scenario>>, Len(text') = Len(text)
  PROVE  Generations'
BY DEF Generations, Known, Chapters

\* Nothing the outbox looks at changes.
LEMMA OutboxStays ==
  ASSUME WriteBackRows, BatchRow, UNCHANGED <<event, settled, staged, running, job, batch, scenario>>,
         Final(text') = Final(text), turn' = "job" => turn = "job"
  PROVE  Outbox /\ JobsStay
<1>1. Chapters' = Chapters
  BY DEF Chapters
<1>2. WriteBackRows'
  BY <1>1 DEF WriteBackRows, WriteBackIsQueued, EventRows, JobRows
<1>3. BatchRow'
  BY <1>1 DEF BatchRow, Row
<1> QED
  BY <1>2, <1>3 DEF Outbox, EventsStay, JobsStay

\* A step that leaves the write-back alone.
LEMMA MakingKept ==
  ASSUME WriteBackRows, BatchRow, Goals, UNCHANGED <<writeBack, scenario>>,
         turn' = "job" => turn = "job"
  PROVE  Kept
<1>1. UNCHANGED <<event, settled, staged, running, job, batch>>
  BY DEF writeBack, outbox, editing, chores
<1>2. Final(text') = Final(text)
  BY DEF Goals
<1>3. Outbox /\ JobsStay
  BY <1>1, <1>2, OutboxStays
<1> QED
  BY <1>1, <1>2, <1>3 DEF Kept, Goals

\* A step that leaves texts, calls and workflow alone.
LEMMA WriteBackKept ==
  ASSUME Texts, Making, WriteBackGoals, UNCHANGED <<making, scenario>>, ManagedRow'
  PROVE  Kept
<1>1. UNCHANGED <<text, workflow, gen, call>>
  BY DEF WriteBackGoals, written, making
<1>2. Texts' /\ Final(text') = Final(text) /\ Len(text') = Len(text)
  BY <1>1, TextsStay
<1>3. Generations'
  BY <1>1, <1>2, GenerationsStay DEF Making
<1>4. WorkflowRow' /\ CallRows'
  BY <1>1 DEF Making, WorkflowRow, CallRows
<1> QED
  BY <1>1, <1>2, <1>3, <1>4 DEF Kept, Making, WriteBackGoals

\* A step of the drain or the author that writes workflow, run and calls only.
LEMMA RowsStep ==
  ASSUME Texts, Making, UNCHANGED <<text, scenario, gen>>,
         WorkflowRow', CallRows', ManagedRow',
         workflow'.stage = "completed" => workflow.stage = "completed"
  PROVE  Goals
<1>1. Texts' /\ Final(text') = Final(text) /\ Len(text') = Len(text)
  BY TextsStay
<1>2. Generations'
  BY <1>1, GenerationsStay DEF Making
<1> QED
  BY <1>1, <1>2 DEF Goals, Making

\* The rows that stay what they are.
LEMMA RowsStay ==
  ASSUME Texts, Making, UNCHANGED text
  PROVE  /\ UNCHANGED call => CallRows'
         /\ UNCHANGED managed => ManagedRow'
         /\ UNCHANGED <<workflow, call>> => WorkflowRow'
BY DEF Making, CallRows, ManagedRow, WorkflowRow

\* The status of the workflow is set beside its other columns.
LEMMA StatusStep ==
  ASSUME Texts, Making, UNCHANGED <<text, call>>, NEW status \in Statuses,
         workflow' = [workflow EXCEPT !.status = status]
  PROVE  WorkflowRow' /\ workflow'.stage = workflow.stage
BY DEF Making, WorkflowRow

\* The managed run is claimed, released or activated.
LEMMA ManagedStep ==
  ASSUME Making, NEW leased, NEW writer,
         NEW status \in {"active", "failed", "unknown", "cancelled", "completed"},
         \/ managed' = managed
         \/ managed' = [managed EXCEPT !.leased = leased]
         \/ managed' = [managed EXCEPT !.status = status]
         \/ managed' = [managed EXCEPT !.leased = leased, !.status = status]
         \/ managed' = [managed EXCEPT !.status = status, !.leased = leased]
         \/ managed' = [status |-> status, leased |-> leased, writer |-> writer]
  PROVE  ManagedRow'
<1> DEFINE given == [managed EXCEPT !.leased = leased]
           turned == [managed EXCEPT !.status = status]
<1>1. /\ "status" \in DOMAIN given /\ given.status = managed.status
      /\ "status" \in DOMAIN turned /\ turned.status = status
      /\ "status" \in DOMAIN managed
  BY DEF Making, ManagedRow
<1>2. CASE managed' = managed \/ managed' = given \/ managed' = turned
  BY <1>1, <1>2 DEF Making, ManagedRow
<1>3. CASE managed' = [managed EXCEPT !.leased = leased, !.status = status]
  <2>1. managed' = [given EXCEPT !.status = status]
    BY <1>3
  <2> HIDE DEF given
  <2>2. "status" \in DOMAIN managed' /\ managed'.status = status
    BY <1>1, <2>1
  <2> QED
    BY <2>2 DEF ManagedRow
<1>4. CASE managed' = [managed EXCEPT !.status = status, !.leased = leased]
  <2>1. managed' = [turned EXCEPT !.leased = leased]
    BY <1>4
  <2> HIDE DEF turned
  <2>2. "status" \in DOMAIN managed' /\ managed'.status = status
    BY <1>1, <2>1
  <2> QED
    BY <2>2 DEF ManagedRow
<1>5. CASE managed' = [status |-> status, leased |-> leased, writer |-> writer]
  BY <1>5 DEF ManagedRow
<1> QED
  BY <1>2, <1>3, <1>4, <1>5

\* A generation begins.
LEMMA StartStep ==
  ASSUME Texts, Making, UNCHANGED <<text, call, scenario>>, ManagedRow',
         NEW o \in Owners, NEW c \in Chapters, NEW step \in {"write", "resume"}, Start(o, c, step)
  PROVE  Goals
<1>1. Texts' /\ Final(text') = Final(text) /\ Len(text') = Len(text) /\ Len(text) \in Nat
  BY TextsStay
<1> DEFINE g == [NoGen EXCEPT !.step = step, !.chapter = c, !.pass = 1, !.ack = workflow.ack]
<1>2. Known(g, Len(text'))
  BY DEF Known, NoGen, AboutText
<1>3. Goes(o, g)
  BY DEF Start
<1> HIDE DEF g
<1>4. Generations'
  BY <1>1, <1>2, <1>3, GenerationStep DEF Making
<1>5. workflow' = [workflow EXCEPT !.stage = "manuscript", !.status = "working"]
  BY DEF Start
<1>6. WorkflowRow' /\ workflow'.stage = "manuscript"
  BY <1>5 DEF Making, WorkflowRow, Stages, Statuses
<1>7. CallRows'
  BY RowsStay
<1> QED
  BY <1>1, <1>4, <1>6, <1>7 DEF Goals, Making

\* A chapter gets its final text and enters the outbox.
LEMMA FinalizedKept ==
  ASSUME Inductive, turn = "none", NEW v \in DOMAIN text, MayFinalize(v), NEW key, Finalize(v, key),
         UNCHANGED <<workflow, settled, editing, chores, job, batch, making, driving, scenario>>
  PROVE  Kept
<1> DEFINE c == text[v].chapter
<1>1. /\ Texts' /\ Final(text') = Final(text) \cup {c}
      /\ c \in Chapters \ Final(text) /\ Len(text') = Len(text)
  BY FinalizedStep DEF Inductive
<1>2. UNCHANGED <<staged, running, gen, call, managed>> /\ Chapters' = Chapters /\ turn' # "job"
  BY DEF editing, chores, making, driving, Chapters, Finalize
<1>3. event' = [event EXCEPT ![c] = [event[c] EXCEPT !["settle"] = Fresh]]
  BY DEF Finalize
<1> HIDE DEF c
<1>4. Fresh \in [status : EventStatuses, attempts : 0 .. MaxAttempts] /\ Fresh.status = "pending"
  BY ChainAssumption DEF Fresh, EventStatuses
<1>5. WriteBackRows /\ event \in EventRows
  BY DEF Inductive, WriteBackRows
<1>6. event' \in EventRows
  BY <1>1, <1>3, <1>4, <1>5 DEF EventRows
<1>7. \A d \in Chapters, l \in Kinds :
        event'[d][l] = IF d = c /\ l = "settle" THEN Fresh ELSE event[d][l]
  BY <1>1, <1>3, <1>5 DEF EventRows
<1>8. event[c]["settle"].status = "none"
  BY <1>1, <1>5 DEF WriteBackRows, WriteBackIsQueued
<1>9. EventsStay /\ JobsStay
  BY <1>7, <1>8 DEF EventsStay, JobsStay
<1>10. WriteBackIsQueued'
  <2>1. \A d \in Chapters : d \in Final(text') <=> event'[d]["settle"].status # "none"
    BY <1>1, <1>4, <1>5, <1>7 DEF WriteBackRows, WriteBackIsQueued, Kinds
  <2>2. \A d \in Chapters, l \in Kinds \ {"settle"} : event'[d][l] = event[d][l]
    BY <1>7
  <2> QED
    BY <1>2, <1>5, <2>1, <2>2 DEF WriteBackRows, WriteBackIsQueued
<1>11. WriteBackRows'
  <2>1. \A d \in Chapters : event'[d]["settle"].status = "completed" => d \in staged'
    BY <1>2, <1>4, <1>5, <1>7 DEF WriteBackRows, Kinds
  <2>2. event' \in EventRows' /\ job' \in JobRows'
    BY <1>2, <1>5, <1>6 DEF WriteBackRows, EventRows, JobRows
  <2> QED
    BY <1>1, <1>2, <1>5, <1>10, <2>1, <2>2 DEF WriteBackRows
<1>12. BatchRow'
  <2>1. BatchRow
    BY DEF Inductive
  <2>2. \A f \in batch.todo \cup batch.open :
          /\ f[1] \in Chapters /\ f[2] \in Kinds
          /\ event'[f[1]][f[2]] = event[f[1]][f[2]]
    <3>1. \A f \in batch.todo \cup batch.open : f[1] \in Chapters /\ f[2] \in Kinds /\ Row(f).status # "none"
      BY <2>1 DEF BatchRow, Offered
    <3> QED
      BY <1>7, <1>8, <3>1 DEF Row
  <2> QED
    BY <1>2, <2>1, <2>2 DEF BatchRow, Row, Offered
<1>13. Generations'
  BY <1>1, <1>2, GenerationsStay DEF Inductive, Making
<1>14. WorkflowRow' /\ CallRows' /\ ManagedRow'
  BY <1>1, <1>2 DEF Inductive, Making, WorkflowRow, CallRows, ManagedRow
<1> QED
  BY <1>1, <1>2, <1>9, <1>11, <1>12, <1>13, <1>14 DEF Kept, Outbox, Making

\* The text the workflow names is one of the table, unless there is none.
LEMMA NamedText ==
  ASSUME Texts, Making, workflow.text # 0
  PROVE  workflow.text \in DOMAIN text
BY DomainOfTexts DEF Making, WorkflowRow, Texts

\* The steps of the drain that leave the write-back alone.
LEMMA DrainQuietStep ==
  ASSUME Inductive, turn = "none", UNCHANGED scenario, DrainEnds \/ DrainStops \/ DrainWrites \/ SettlingEnds
  PROVE  Kept
<1>1. /\ Texts /\ Making /\ WriteBackRows /\ BatchRow
      /\ UNCHANGED <<writeBack, turn, text, call, scenario>>
  BY DEF Inductive, DrainEnds, DrainStops, DrainWrites, SettlingEnds, written, making
<1>2. CASE DrainEnds \/ DrainStops
  <2>1. UNCHANGED <<workflow, gen>>
    BY <1>2 DEF DrainEnds, DrainStops, written, making
  <2>2. ManagedRow'
    <3>1. managed' = managed \/ \E status \in {"cancelled", "completed", "failed"} :
            managed' = [managed EXCEPT !.status = status]
      BY <1>2, Zenon DEF DrainEnds, DrainStops, Released
    <3> QED
      BY <1>1, <3>1, ManagedStep
  <2> QED
    BY <1>1, <2>1, <2>2, RowsStay, RowsStep, MakingKept
<1>3. CASE DrainWrites
  <2>1. Start("managed", NextChapter, "write") /\ managed' = [managed EXCEPT !.leased = TRUE]
    BY <1>3 DEF DrainWrites
  <2>2. NextChapter \in Chapters
    <3>1. Unwritten(text) # {} /\ NextChapter = Min(Unwritten(text))
      BY <1>3 DEF DrainWrites, NextChapter
    <3>2. Unwritten(text) \subseteq Chapters /\ Chapters \subseteq Nat
      BY DEF Unwritten, Chapters
    <3> QED
      BY <3>1, <3>2, LeastNat
  <2>3. ManagedRow'
    BY <1>1, <2>1, ManagedStep
  <2>4. Goals
    BY <1>1, <2>1, <2>2, <2>3, StartStep DEF Owners
  <2> QED
    BY <1>1, <2>4, MakingKept
<1>4. CASE SettlingEnds
  <2> DEFINE status == IF workflow.stage = "completed" THEN "completed"
                       ELSE IF workflow.status = "failed" THEN "failed" ELSE "active"
  <2>1. /\ Release(status) /\ UNCHANGED gen
        /\ workflow' = workflow \/ workflow' = [workflow EXCEPT !.status = "working"]
    BY <1>4 DEF SettlingEnds, making
  <2>2. status \in {"completed", "failed", "active"}
    OBVIOUS
  <2> HIDE DEF status
  <2>3. ManagedRow'
    BY <1>1, <2>1, <2>2, ManagedStep DEF Release
  <2>4. WorkflowRow' /\ workflow'.stage = workflow.stage
    BY <1>1, <2>1, StatusStep, RowsStay DEF Statuses
  <2> QED
    BY <1>1, <2>1, <2>3, <2>4, RowsStay, RowsStep, MakingKept
<1> QED
  BY <1>2, <1>3, <1>4

\* The managed run finalizes the text the workflow names, or is refused.
LEMMA DrainFinalizesStep ==
  ASSUME Inductive, turn = "none", UNCHANGED scenario, DrainFinalizes
  PROVE  Kept
<1> DEFINE v == workflow.text
<1>1. /\ Texts /\ Making /\ WriteBackRows /\ BatchRow /\ workflow.text # 0
      /\ UNCHANGED <<settled, editing, chores, job, batch, making>>
  BY DEF Inductive, DrainFinalizes
<1>2. v \in DOMAIN text
  BY <1>1, NamedText
<1>3. CASE MayFinalize(v) /\ Finalize(v, "managed") /\ UNCHANGED <<workflow, managed, drain>>
  BY <1>1, <1>2, <1>3, FinalizedKept DEF driving
<1>4. CASE /\ workflow' = workflow \/ workflow' = [workflow EXCEPT !.status = "failed"]
           /\ Released("failed") /\ UNCHANGED <<text, event, turn>>
  <2>1. UNCHANGED <<writeBack, call, gen>>
    BY <1>1, <1>4 DEF writeBack, outbox, making
  <2>2. ManagedRow'
    BY <1>1, <1>4, ManagedStep DEF Released
  <2>3. WorkflowRow' /\ workflow'.stage = workflow.stage
    BY <1>1, <1>4, <2>1, StatusStep, RowsStay DEF Statuses
  <2> QED
    BY <1>1, <1>4, <2>1, <2>2, <2>3, RowsStay, RowsStep, MakingKept
<1> QED
  BY <1>3, <1>4 DEF DrainFinalizes

\* The managed run joins the batch in flight, or starts one.
LEMMA DrainSettlesStep ==
  ASSUME Inductive, turn = "none", UNCHANGED scenario, DrainSettles
  PROVE  Kept
<1>1. /\ Texts /\ Making /\ Idle /\ managed' = [managed EXCEPT !.leased = TRUE]
      /\ UNCHANGED <<written, outbox, editing, chores, job, making, turn>>
      /\ UNCHANGED batch \/ StartBatch(FALSE, OfferedEvents)
  BY DEF Inductive, DrainSettles, Idle
<1>2. ManagedRow'
  BY <1>1, ManagedStep
<1>3. CASE UNCHANGED batch
  <2>1. UNCHANGED <<text, workflow, gen, call, writeBack>>
    BY <1>1, <1>3 DEF written, making, writeBack
  <2> QED
    BY <1>1, <1>2, <2>1, RowsStay, RowsStep, MakingKept DEF Idle
<1>4. CASE StartBatch(FALSE, OfferedEvents)
  <2>1. WriteBackGoals
    BY <1>1, <1>4, StartBatchStep
  <2> QED
    BY <1>1, <1>2, <2>1, WriteBackKept DEF Idle
<1> QED
  BY <1>1, <1>3, <1>4

\* Every step of the drain.
LEMMA DrainStepKeeps ==
  ASSUME Inductive, turn = "none", UNCHANGED scenario, DrainStep
  PROVE  Kept
BY DrainQuietStep, DrainFinalizesStep, DrainSettlesStep DEF DrainStep

\* The workflow row follows the finalization.
LEMMA SettlementTurnStep ==
  ASSUME Inductive, UNCHANGED scenario, SettlementTurn
  PROVE  Kept
<1>1. /\ Texts /\ Making /\ WriteBackRows /\ BatchRow /\ turn' = "none"
      /\ workflow' = [stage |-> "settlement", status |-> "working", text |-> 0, ack |-> 0]
      /\ UNCHANGED <<text, writeBack, gen, call, managed>>
  BY DEF Inductive, SettlementTurn, making, driving
<1>2. Len(text') \in Nat /\ Len(call') \in Nat
  BY <1>1 DEF Texts, Making, CallRows
<1>3. WorkflowRow'
  BY <1>1, <1>2 DEF WorkflowRow, Stages, Statuses
<1> QED
  BY <1>1, <1>3, RowsStay, RowsStep, MakingKept
-----------------------------------------------------------------------------
(* The author and the process.                                             *)

\* What failed is offered again: no completed event is.
LEMMA ReopenedStep ==
  ASSUME WriteBackRows, BatchRow, event' = Reopened, turn' = "refresh",
         UNCHANGED <<text, settled, staged, running, job, batch, scenario>>
  PROVE  Outbox /\ JobsStay
<1>1. MaxAttempts \in Nat \ {0}
  BY ChainAssumption
<1>2. Fresh \in [status : EventStatuses, attempts : 0 .. MaxAttempts] /\ Fresh.status = "pending" /\ Offered(Fresh)
  BY <1>1 DEF Fresh, EventStatuses, Offered
<1>3. \A c \in Chapters, k \in Kinds :
        event'[c][k] = IF event[c][k].status = "failed" THEN Fresh ELSE event[c][k]
  BY DEF Reopened
<1>4. event' \in EventRows
  BY <1>2 DEF WriteBackRows, EventRows, Reopened
<1>5. Chapters' = Chapters /\ Final(text') = Final(text)
  BY DEF Chapters, Final
<1>6. \A c \in Chapters, k \in Kinds :
        /\ event'[c][k].status = "none" <=> event[c][k].status = "none"
        /\ event'[c][k].status = "completed" <=> event[c][k].status = "completed"
  BY <1>2, <1>3
<1>7. WriteBackRows'
  <2>1. WriteBackIsQueued'
    BY <1>5, <1>6 DEF WriteBackRows, WriteBackIsQueued, Kinds
  <2> QED
    BY <1>4, <1>5, <1>6, <2>1 DEF WriteBackRows, EventRows, JobRows, Kinds
<1>8. BatchRow'
  <2>1. \A f \in batch.todo \cup batch.open : f[1] \in Chapters /\ f[2] \in Kinds
    BY DEF BatchRow
  <2>2. \A f \in batch.todo : Offered(event'[f[1]][f[2]])
    BY <1>2, <1>3, <2>1 DEF BatchRow, Row
  <2>3. \A f \in batch.open : event'[f[1]][f[2]] = event[f[1]][f[2]]
    BY <1>3, <2>1 DEF BatchRow, Row
  <2> QED
    BY <1>5, <2>2, <2>3 DEF BatchRow, Row
<1> QED
  BY <1>6, <1>7, <1>8 DEF Outbox, EventsStay, JobsStay

\* The author activates the run: a result may be passed over, what failed is reopened.
LEMMA ActivateStep ==
  ASSUME Inductive, turn = "none", UNCHANGED scenario, NEW m \in 1 .. NumWriters, Activate(m)
  PROVE  Kept
<1> DEFINE last == LastUnknown
           unknown == workflow.status = "unknown"
<1>1. /\ Texts /\ Making /\ WriteBackRows /\ BatchRow
      /\ UNCHANGED <<text, settled, editing, chores, job, batch, gen>>
      /\ unknown => last # 0
      /\ workflow' = [workflow EXCEPT !.status = "working", !.ack = IF unknown THEN last ELSE @]
      /\ call' = IF unknown THEN [call EXCEPT ![last].acked = TRUE] ELSE call
      /\ managed' = [status |-> "active", leased |-> FALSE, writer |-> m]
      /\ \/ UNCHANGED <<event, turn>>
         \/ event' = Reopened /\ turn' = "refresh"
  BY DEF Inductive, Activate
<1>2. Len(call) \in Nat /\ DOMAIN call = 1 .. Len(call)
  BY <1>1 DEF Making, CallRows
<1>3. unknown => last \in 1 .. Len(call)
  <2> DEFINE S == {i \in DOMAIN call : call[i].state = "unknown"}
  <2>1. S \subseteq 1 .. Len(call)
    BY <1>2
  <2>2. last = Latest(S)
    BY DEF LastUnknown
  <2> HIDE DEF S, last
  <2> QED
    BY <1>1, <1>2, <2>1, <2>2, LatestIsOne
<1> HIDE DEF last
<1>4. CallRows' /\ Len(call') = Len(call)
  <2>1. CASE unknown
    <3> DEFINE row == [call[last] EXCEPT !.acked = TRUE]
    <3>1. call' = [call EXCEPT ![last] = row]
      BY <1>1, <2>1
    <3> HIDE DEF row
    <3>2. call' = [i \in 1 .. Len(call) |-> IF i = last THEN row ELSE call[i]]
      BY <1>2, <3>1
    <3>3. Len(call') = Len(call)
      BY <1>2, <3>2
    <3> QED
      BY <1>2, <3>2, <3>3 DEF CallRows
  <2>2. CASE ~unknown
    BY <1>1, <2>2 DEF Making, CallRows
  <2> QED
    BY <2>1, <2>2
<1>5. WorkflowRow' /\ workflow'.stage = workflow.stage
  <2> DEFINE worked == [workflow EXCEPT !.status = "working"]
             ack == IF unknown THEN last ELSE worked.ack
  <2>1. /\ {"stage", "status", "text", "ack"} \subseteq DOMAIN worked
        /\ worked.stage = workflow.stage /\ worked.status = "working"
        /\ worked.text = workflow.text /\ worked.ack = workflow.ack
    BY <1>1 DEF Making, WorkflowRow
  <2>2. workflow' = [worked EXCEPT !.ack = ack]
    BY <1>1
  <2>3. ack \in 0 .. Len(call)
    BY <1>1, <1>2, <1>3, <2>1 DEF Making, WorkflowRow
  <2> HIDE DEF worked, ack
  <2>4. /\ {"stage", "status", "text", "ack"} \subseteq DOMAIN workflow'
        /\ workflow'.stage = workflow.stage /\ workflow'.status = "working"
        /\ workflow'.text = workflow.text /\ workflow'.ack = ack
    BY <2>1, <2>2
  <2> QED
    BY <1>1, <1>4, <2>3, <2>4 DEF Making, WorkflowRow, Statuses
<1>6. ManagedRow'
  BY <1>1, ManagedStep
<1>7. Goals
  BY <1>1, <1>4, <1>5, <1>6, RowsStep
<1>8. UNCHANGED <<staged, running>>
  BY <1>1 DEF editing, chores
<1>9. Outbox /\ JobsStay
  <2>1. CASE UNCHANGED <<event, turn>>
    BY <1>1, <1>7, <1>8, <2>1, OutboxStays DEF Goals
  <2>2. CASE event' = Reopened /\ turn' = "refresh"
    BY <1>1, <1>8, <2>2, ReopenedStep
  <2> QED
    BY <1>1, <2>1, <2>2
<1> QED
  BY <1>7, <1>8, <1>9 DEF Kept, Goals

\* Every step of the author.
LEMMA AuthorKeeps ==
  ASSUME Inductive, turn = "none", UNCHANGED scenario, Author
  PROVE  Kept
<1>1. Texts /\ Making /\ WriteBackRows /\ BatchRow
  BY DEF Inductive
<1>2. CASE \E m \in 1 .. NumWriters : Activate(m)
  BY <1>2, ActivateStep
<1>3. CASE Cancel
  <2>1. /\ UNCHANGED <<text, writeBack, call, gen, turn>>
        /\ workflow' = [workflow EXCEPT !.status = "cancelled"]
    BY <1>3 DEF Cancel, making
  <2>2. ManagedRow'
    BY <1>1, <1>3, ManagedStep DEF Cancel
  <2>3. WorkflowRow' /\ workflow'.stage = workflow.stage
    BY <1>1, <2>1, StatusStep DEF Statuses
  <2> QED
    BY <1>1, <2>1, <2>2, <2>3, RowsStay, RowsStep, MakingKept
<1>4. CASE AuthorWrites
  <2>1. /\ UNCHANGED <<text, writeBack, call, managed, turn>>
        /\ \E c \in Chapters, step \in {"write", "resume"} : Start("author", c, step)
    BY <1>4 DEF AuthorWrites, driving
  <2>2. Goals
    BY <1>1, <2>1, RowsStay, StartStep DEF Owners
  <2> QED
    BY <1>1, <2>1, <2>2, MakingKept
<1>5. CASE AuthorFinalizes
  BY <1>5, FinalizedKept DEF AuthorFinalizes
<1> QED
  BY <1>2, <1>3, <1>4, <1>5 DEF Author

\* A crash loses what is in memory: generations, the batch, its runs.
LEMMA CrashStep ==
  ASSUME Inductive, Crash
  PROVE  Kept
<1>1. /\ Texts /\ Making /\ WriteBackRows /\ BatchRow
      /\ UNCHANGED <<text, workflow, event, settled, staged, job, call, managed, scenario>>
      /\ gen' = [o \in Owners |-> NoGen] /\ batch' = NoBatch /\ running' = {} /\ turn' = "none"
  BY DEF Inductive, Crash, BatchDies, written, outbox, editing
<1>2. Texts' /\ Final(text') = Final(text) /\ Chapters' = Chapters
  BY <1>1, TextsStay
<1>3. Generations'
  <2>1. \A o \in Owners : gen'[o] = NoGen
    BY <1>1
  <2>2. gen' = [o \in Owners |-> gen'[o]]
    BY <1>1
  <2>3. \A o \in Owners : Known(gen[o], Len(text))'
    BY <2>1 DEF Known, NoGen, AboutText
  <2> QED
    BY <2>2, <2>3 DEF Generations
<1>4. Making'
  BY <1>1, <1>3, RowsStay DEF Making
<1>5. WriteBackRows'
  BY <1>1, <1>2 DEF WriteBackRows, WriteBackIsQueued, EventRows, JobRows
<1>6. BatchRow'
  BY <1>1 DEF BatchRow, NoBatch
<1> QED
  BY <1>1, <1>2, <1>4, <1>5, <1>6 DEF Kept, Outbox, EventsStay, JobsStay
-----------------------------------------------------------------------------
(* The invariant holds.                                                    *)

\* The chain begins with no text and no event.
LEMMA InductiveInit ==
  ASSUME Init PROVE Inductive
<1>1. /\ workflow = [stage |-> "manuscript", status |-> "awaiting_author", text |-> 0, ack |-> 0]
      /\ text = <<>> /\ call = <<>> /\ gen = [o \in Owners |-> NoGen]
      /\ managed = [status |-> "none", leased |-> FALSE, writer |-> 1]
      /\ event = [c \in Chapters |-> [k \in Kinds |-> [status |-> "none", attempts |-> 0]]]
      /\ settled = {} /\ staged = {} /\ running = {}
      /\ job = [j \in Jobs |-> [status |-> "none", attempts |-> 0]]
      /\ batch = NoBatch /\ turn = "none"
  BY DEF Init, InitWriteBack
<1>2. /\ DOMAIN text = {} /\ Len(text) = 0 /\ Len(call) = 0
      /\ text = [v \in 1 .. Len(text) |-> text[v]] /\ call = [i \in 1 .. Len(call) |-> call[i]]
  BY <1>1
<1>3. Texts /\ Final(text) = {}
  BY <1>2 DEF Texts, FinalsWereReviewed, Final
<1>4. Making
  <2>1. Generations
    BY <1>1, NobodyGenerates DEF Generations
  <2>2. WorkflowRow
    BY <1>1, <1>2 DEF WorkflowRow, Stages, Statuses
  <2> QED
    BY <1>1, <1>2, <2>1, <2>2 DEF Making, CallRows, ManagedRow
<1>5. WriteBackRows
  <2>1. [status |-> "none", attempts |-> 0] \in [status : EventStatuses, attempts : 0 .. MaxAttempts]
    BY ChainAssumption DEF EventStatuses
  <2>2. event \in EventRows /\ job \in JobRows
    BY <1>1, <2>1 DEF EventRows, JobRows
  <2>3. \A c \in Chapters, k \in Kinds : event[c][k].status = "none"
    BY <1>1
  <2> QED
    BY <1>1, <1>3, <2>2, <2>3 DEF WriteBackRows, WriteBackIsQueued, Kinds
<1>6. BatchRow
  BY <1>1 DEF BatchRow, NoBatch
<1>7. CompletedMeansSettled
  BY <1>1 DEF CompletedMeansSettled
<1> QED
  BY <1>3, <1>4, <1>5, <1>6, <1>7 DEF Inductive

\* Every step keeps the invariant, and every event that is completed.
LEMMA InductiveStep ==
  ASSUME Inductive, [Next]_vars
  PROVE  Inductive' /\ EventsStay
<1>1. Texts /\ Making /\ WriteBackRows /\ BatchRow
  BY DEF Inductive
<1>2. CASE Turns
  <2>1. CASE RefreshTurn /\ UNCHANGED <<making, driving>>
    <3>1. UNCHANGED <<scenario, gen, call, managed>>
      BY <1>2, <2>1 DEF Turns, making, driving
    <3>2. /\ Outbox /\ CompletedMeansSettled' /\ WorkflowRow' /\ UNCHANGED text
      BY <1>1, <2>1, <3>1, RefreshStep DEF Inductive, Making
    <3>3. Texts' /\ Len(text') = Len(text)
      BY <1>1, <3>1, <3>2, TextsStay
    <3>4. Generations'
      BY <1>1, <3>1, <3>3, GenerationsStay DEF Making
    <3> QED
      BY <1>1, <3>1, <3>2, <3>3, <3>4, RowsStay DEF Inductive, Making, Outbox
  <2>2. CASE JobTurn /\ UNCHANGED <<making, driving>>
    <3>1. UNCHANGED <<scenario, text, making, managed>>
      BY <1>2, <2>2 DEF Turns, driving, JobTurn, written
    <3>2. WriteBackGoals
      BY <1>1, <2>2, <3>1, JobTurnStep
    <3> QED
      BY <1>1, <3>1, <3>2, RowsStay, WriteBackKept, KeptIsInductive
  <2>3. CASE SettlementTurn
    BY <1>2, <2>3, SettlementTurnStep, KeptIsInductive DEF Turns
  <2> QED
    BY <1>2, <2>1, <2>2, <2>3 DEF Turns, TurnStep
<1>3. CASE Batches \/ Children \/ Worker \/ Alone(Kick) \/ \E c \in Chapters : Alone(LookAtRun(c))
  <2>1. /\ turn = "none" /\ UNCHANGED <<making, driving, scenario>>
        /\ BatchStep \/ (\E c \in Chapters : ChildEnds(c) \/ LookAtRun(c)) \/ WorkerAsks \/ Kick
    BY <1>3 DEF Batches, Children, Worker, Alone
  <2>2. WriteBackGoals
    BY <1>1, <2>1, BatchStepKeeps, RunStep, AsksStep DEF Idle
  <2>3. ManagedRow'
    BY <1>1, <2>1, <2>2, RowsStay DEF driving, WriteBackGoals, written
  <2> QED
    BY <1>1, <2>1, <2>2, <2>3, WriteBackKept, KeptIsInductive
<1>4. CASE Drains
  BY <1>4, DrainStepKeeps, KeptIsInductive DEF Drains
<1>5. CASE turn = "none" /\ UNCHANGED scenario /\ \E o \in Owners : GenStep(o)
  BY <1>1, <1>5, GenStepKeeps, MakingKept, KeptIsInductive
<1>6. CASE turn = "none" /\ UNCHANGED scenario /\ Author
  BY <1>6, AuthorKeeps, KeptIsInductive
<1>7. CASE Crash
  BY <1>7, CrashStep, KeptIsInductive DEF Crash
<1>8. CASE UNCHANGED vars
  <2>1. UNCHANGED <<writeBack, turn, text, workflow, call, gen, managed, scenario>>
    BY <1>8 DEF vars, written, making, driving
  <2> QED
    BY <1>1, <2>1, RowsStay, RowsStep, MakingKept, KeptIsInductive
<1> QED
  BY <1>2, <1>3, <1>4, <1>5, <1>6, <1>7, <1>8 DEF Next

\* The invariant holds in every state, for every outline, chain of writers and editors
\* and every limit on attempts.
THEOREM InductiveHolds == Spec => []Inductive
<1>1. Init => Inductive
  BY InductiveInit
<1>2. Inductive /\ [Next]_vars => Inductive'
  BY InductiveStep
<1> QED
  BY <1>1, <1>2, PTL DEF Spec

\* The rows have the statuses their tables admit and counters stay within the bounds;
\* settled chapters are final, and runs are about settled ones.
THEOREM TypeCorrect == Spec => []TypeOK
<1>1. Inductive => TypeOK
  BY DEF Inductive, Making, WorkflowRow, Stages, Statuses, ManagedRow, WriteBackRows, EventRows,
         JobRows, TypeOK
<1> QED
  BY <1>1, InductiveHolds, PTL

\* finalizeManuscript never makes final what no reviewer passed, nor a second text of
\* a chapter, whoever asks and whatever was generated meanwhile.
THEOREM FinalsReviewed == Spec => []FinalsWereReviewed
<1>1. Inductive => FinalsWereReviewed
  BY DEF Inductive, Texts
<1> QED
  BY <1>1, InductiveHolds, PTL

\* Every final text is in the outbox and every settlement has its maintenance events
\* there, after any failure, retry or crash.
THEOREM WriteBackQueued == Spec => []WriteBackIsQueued
<1>1. Inductive => WriteBackIsQueued
  BY DEF Inductive, WriteBackRows
<1> QED
  BY <1>1, InductiveHolds, PTL

\* refreshWorkflow ends the workflow only with every chapter final, settled and
\* written back, and its stage jobs done.
THEOREM CompletedIsSettled == Spec => []CompletedMeansSettled
<1>1. Inductive => CompletedMeansSettled
  BY DEF Inductive
<1> QED
  BY <1>1, InductiveHolds, PTL

\* No retry, activation or crash offers a completed event again.
THEOREM CompletedHolds == Spec => CompletedStays
<1>1. Inductive /\ [Next]_vars => [EventsStay]_vars
  BY InductiveStep
<1>2. Spec => [][EventsStay]_vars
  BY <1>1, InductiveHolds, PTL DEF Spec
<1> QED
  BY <1>2 DEF CompletedStays, EventsStay
-----------------------------------------------------------------------------
(* The calls.                                                              *)

\* The request a generation waits for the answer of.
Asks(g) ==
  IF g.step = "writing" THEN {WriteRequest(g)}
  ELSE IF g.step = "reviewing" THEN {ReviewRequest(g, 0)}
  ELSE IF g.step = "repairing" THEN {ReviewRequest(g, 1)} ELSE {}

\* A generation that may have to ask for the repair of its review.
MayRepair(g) == g.step \in {"reviewing", "repair"}

\* The author passed over the call a, or there is none.
Passed(a) == a = 0 \/ (a \in DOMAIN call /\ call[a].acked)

\* The requests that were made; a review of a text counts the calls about it.
Counted(r) ==
  r.kind = "review" => r.attempt \in Nat /\ r.attempt <= Cardinality(CallsAbout(r.of))
RequestRows ==
  /\ CallRows
  /\ \A i \in DOMAIN call :
       /\ {"kind", "of", "pass", "attempt", "member", "state", "acked"} \subseteq DOMAIN call[i]
       /\ call[i].state # "none" /\ Counted(call[i])

\* What a generation waits for is recorded as unresolved; a review that may have to
\* be repaired has a number of its own, under which no repair was asked for.
OwnCalls(o) ==
  /\ DOMAIN gen[o] = DOMAIN NoGen /\ Passed(gen[o].ack)
  /\ \A r \in Asks(gen[o]) : Earlier(r) # {} /\ \A i \in Earlier(r) : Unresolved(call[i])
  /\ MayRepair(gen[o]) => Counted(ReviewRequest(gen[o], 1)) /\ Earlier(ReviewRequest(gen[o], 1)) = {}
  /\ \A p \in Owners \ {o} :
       /\ Asks(gen[o]) \cap Asks(gen[p]) = {}
       /\ MayRepair(gen[o]) /\ MayRepair(gen[p]) => ReviewRequest(gen[o], 1) # ReviewRequest(gen[p], 1)

\* The second invariant, which the first does not need.
Calls ==
  /\ RequestRows /\ NothingIsOrderedTwice /\ Passed(workflow.ack)
  /\ DOMAIN gen = Owners /\ \A o \in Owners : OwnCalls(o)

\* No call is made, none becomes unresolved, and those the owners outside S wait
\* for stay what they are.
CallsFade(S) ==
  /\ CallRows' /\ DOMAIN call' = DOMAIN call
  /\ \A i \in DOMAIN call :
       /\ {"kind", "of", "pass", "attempt", "member", "state", "acked"} \subseteq DOMAIN call'[i]
       /\ SameRequest(call'[i], call[i]) /\ call'[i].state # "none"
       /\ call[i].acked => call'[i].acked
       /\ Unresolved(call'[i]) => Unresolved(call[i])
  /\ \A p \in Owners \ S : \A r \in Asks(gen[p]) : \A i \in Earlier(r) : call'[i].state = call[i].state

\* A generation that was h goes on as g, and waits for nothing.
Rests(h, g) ==
  /\ DOMAIN g = DOMAIN NoGen /\ Passed(g.ack) /\ Asks(g) = {} /\ g.step # "reviewing"
  /\ g.step = "repair" => MayRepair(h) /\ g.text = h.text /\ g.trial = h.trial

\* Two requests that are the same.
LEMMA RequestsAreEqual ==
  ASSUME NEW k, NEW v, NEW p, NEW a, NEW m, NEW l, NEW w, NEW q, NEW b, NEW n,
         SameRequest(Request(k, v, p, a, m), Request(l, w, q, b, n))
  PROVE  Request(k, v, p, a, m) = Request(l, w, q, b, n)
BY DEF SameRequest, SameNode, Request

\* While calls fade, a request is made or not as before, and counts as before.
LEMMA FadeKeepsRequests ==
  ASSUME RequestRows, NEW S, CallsFade(S)
  PROVE  /\ \A r : Earlier(r)' = Earlier(r)
         /\ \A v : CallsAbout(v)' = CallsAbout(v)
         /\ \A a : Passed(a) => Passed(a)'
         /\ \A r : Counted(r) => Counted(r)'
         /\ RequestRows'
<1>1. \A r : Earlier(r)' = Earlier(r)
  BY DEF CallsFade, Earlier, SameRequest, SameNode
<1>2. \A v : CallsAbout(v)' = CallsAbout(v)
  BY DEF CallsFade, CallsAbout, SameRequest, SameNode
<1>3. \A a : Passed(a) => Passed(a)'
  BY DEF CallsFade, Passed
<1>4. \A r : Counted(r) => Counted(r)'
  BY <1>2 DEF Counted
<1>5. RequestRows'
  <2>1. ASSUME NEW i \in DOMAIN call
        PROVE  Counted(call[i])'
    <3>1. Counted(call[i])
      BY DEF RequestRows
    <3>2. /\ call'[i].kind = call[i].kind /\ call'[i].of = call[i].of
          /\ call'[i].attempt = call[i].attempt
      BY DEF CallsFade, SameRequest, SameNode
    <3>3. {j \in DOMAIN call' : call'[j].kind = "review" /\ call'[j].of = call'[i].of}
            = CallsAbout(call[i].of)
      BY <3>2 DEF CallsAbout, CallsFade, SameRequest, SameNode
    <3>4. Counted(call[i])' <=>
            (call'[i].kind = "review" =>
               /\ call'[i].attempt \in Nat
               /\ call'[i].attempt <= Cardinality({j \in DOMAIN call' :
                                        call'[j].kind = "review" /\ call'[j].of = call'[i].of}))
      BY DEF Counted, CallsAbout
    <3> QED
      BY <3>1, <3>2, <3>3, <3>4 DEF Counted
  <2> QED
    BY <2>1 DEF CallsFade, RequestRows
<1> QED
  BY <1>1, <1>2, <1>3, <1>4, <1>5

\* Two orders of one node are unresolved together only if the first was passed over:
\* calls that fade keep it so.
LEMMA FadeKeepsOrders ==
  ASSUME NothingIsOrderedTwice, NEW S, CallsFade(S)
  PROVE  NothingIsOrderedTwice'
BY DEF CallsFade, NothingIsOrderedTwice, SameRequest, SameNode

\* A step after which every generation waits for what it waited for, or for nothing.
LEMMA FadeStep ==
  ASSUME Calls, NEW S \in SUBSET Owners, CallsFade(S), DOMAIN gen' = Owners,
         \A o \in Owners : (o \notin S /\ gen'[o] = gen[o]) \/ Rests(gen[o], gen'[o]),
         Passed(workflow.ack)'
  PROVE  Calls'
<1>1. /\ \A r : Earlier(r)' = Earlier(r)
      /\ \A v : CallsAbout(v)' = CallsAbout(v)
      /\ \A a : Passed(a) => Passed(a)'
      /\ \A r : Counted(r) => Counted(r)'
      /\ RequestRows'
  BY FadeKeepsRequests DEF Calls
<1>2. NothingIsOrderedTwice'
  BY FadeKeepsOrders DEF Calls
<1>3. ASSUME NEW o \in Owners
      PROVE  /\ Asks(gen'[o]) \subseteq Asks(gen[o])
             /\ MayRepair(gen'[o]) =>
                  MayRepair(gen[o]) /\ ReviewRequest(gen'[o], 1) = ReviewRequest(gen[o], 1)
  BY <1>3 DEF Rests, MayRepair, ReviewRequest, Request
<1>4. ASSUME NEW o \in Owners
      PROVE  OwnCalls(o)'
  <2>1. OwnCalls(o)
    BY DEF Calls
  <2>2. DOMAIN gen'[o] = DOMAIN NoGen /\ Passed(gen'[o].ack)
    BY <2>1 DEF Rests, OwnCalls
  <2>3. (Passed(gen[o].ack))'
    BY <1>1, <2>2 DEF Passed
  <2>4. ASSUME NEW r \in Asks(gen'[o])
        PROVE  Earlier(r)' # {} /\ \A i \in Earlier(r)' : Unresolved(call'[i])
    <3>1. o \notin S /\ gen'[o] = gen[o] /\ r \in Asks(gen[o])
      BY <2>4 DEF Rests
    <3>2. Earlier(r) # {} /\ \A i \in Earlier(r) : Unresolved(call[i]) /\ call'[i].state = call[i].state
      BY <2>1, <3>1 DEF OwnCalls, CallsFade
    <3> QED
      BY <1>1, <3>2 DEF Unresolved
  <2>5. ASSUME MayRepair(gen'[o])
        PROVE  Counted(ReviewRequest(gen[o], 1))' /\ Earlier(ReviewRequest(gen[o], 1))' = {}
    <3>1. /\ ReviewRequest(gen'[o], 1) = ReviewRequest(gen[o], 1)
          /\ Counted(ReviewRequest(gen[o], 1)) /\ Earlier(ReviewRequest(gen[o], 1)) = {}
      BY <1>3, <2>1, <2>5 DEF OwnCalls
    <3>2. Counted(ReviewRequest(gen[o], 1))'
      BY <1>1, <3>1 DEF Counted, CallsAbout
    <3>3. Earlier(ReviewRequest(gen[o], 1))' = {}
      BY <1>1, <3>1 DEF Earlier
    <3> QED
      BY <3>2, <3>3
  <2>6. \A p \in Owners \ {o} :
          /\ Asks(gen'[o]) \cap Asks(gen'[p]) = {}
          /\ MayRepair(gen'[o]) /\ MayRepair(gen'[p]) => ReviewRequest(gen'[o], 1) # ReviewRequest(gen'[p], 1)
    BY <1>3, <2>1 DEF OwnCalls
  <2> QED
    BY <2>2, <2>3, <2>4, <2>5, <2>6 DEF OwnCalls
<1> QED
  BY <1>1, <1>2, <1>4 DEF Calls

\* Nothing changes about the calls.
LEMMA NothingFades ==
  ASSUME RequestRows, UNCHANGED call, NEW S
  PROVE  CallsFade(S)
BY DEF RequestRows, CallRows, CallsFade, SameRequest, SameNode, Unresolved

\* The call an owner waits for ends: nobody else waits for it.
LEMMA AnswerFades ==
  ASSUME Calls, NEW o \in Owners, NEW r \in Asks(gen[o]), NEW state, state # "none", EndCall(r, state)
  PROVE  CallsFade({o})
<1>1. CallRows' /\ Len(call') = Len(call) /\ DOMAIN call' = DOMAIN call
  BY EndedStep DEF Calls, RequestRows, EndCall
<1>2. \A i \in DOMAIN call :
        call'[i] = IF i \in Earlier(r) THEN [call[i] EXCEPT !.state = state] ELSE call[i]
  BY DEF EndCall
<1>3. \A i \in Earlier(r) : Unresolved(call[i])
  BY DEF Calls, OwnCalls
<1>4. ASSUME NEW i \in DOMAIN call
      PROVE  /\ {"kind", "of", "pass", "attempt", "member", "state", "acked"} \subseteq DOMAIN call'[i]
             /\ SameRequest(call'[i], call[i]) /\ call'[i].state # "none"
             /\ call[i].acked => call'[i].acked
             /\ Unresolved(call'[i]) => Unresolved(call[i])
  <2>1. /\ {"kind", "of", "pass", "attempt", "member", "state", "acked"} \subseteq DOMAIN call[i]
        /\ call[i].state # "none"
    BY DEF Calls, RequestRows
  <2>2. CASE i \notin Earlier(r)
    BY <1>2, <2>1, <2>2 DEF SameRequest, SameNode
  <2>3. CASE i \in Earlier(r)
    <3>1. call'[i] = [call[i] EXCEPT !.state = state]
      BY <1>2, <2>3
    <3>2. Unresolved(call[i])
      BY <1>3, <2>3
    <3> QED
      BY <2>1, <3>1, <3>2 DEF SameRequest, SameNode
  <2> QED
    BY <2>2, <2>3
<1>5. ASSUME NEW p \in Owners \ {o}, NEW q \in Asks(gen[p]), NEW i \in Earlier(q)
      PROVE  call'[i].state = call[i].state
  <2>1. q # r
    BY DEF Calls, OwnCalls
  <2>2. i \notin Earlier(r)
    <3> SUFFICES ASSUME i \in Earlier(r) PROVE FALSE
      OBVIOUS
    <3>1. SameRequest(call[i], q) /\ SameRequest(call[i], r)
      BY DEF Earlier
    <3>2. SameRequest(r, q)
      BY <3>1 DEF SameRequest, SameNode
    <3>3. r = q
      BY <3>2, RequestsAreEqual DEF Asks, WriteRequest, ReviewRequest
    <3> QED
      BY <2>1, <3>3
  <2>3. i \in DOMAIN call
    BY DEF Earlier
  <2> QED
    BY <1>2, <2>2, <2>3
<1> QED
  BY <1>1, <1>4, <1>5 DEF CallsFade

\* The generation of one owner rests.
LEMMA OneRests ==
  ASSUME Calls, NEW o \in Owners, CallsFade({o}), NEW g, Rests(gen[o], g), Goes(o, g),
         Passed(workflow.ack)'
  PROVE  Calls'
<1>1. /\ DOMAIN gen' = Owners /\ gen'[o] = g
      /\ \A p \in Owners \ {o} : gen'[p] = gen[p]
  BY DEF Calls, Goes
<1>2. \A p \in Owners : (p \notin {o} /\ gen'[p] = gen[p]) \/ Rests(gen[p], gen'[p])
  BY <1>1
<1> QED
  BY <1>1, <1>2, FadeStep

\* No generation moves, and no call.
LEMMA NobodyAsks ==
  ASSUME Calls, UNCHANGED making, workflow'.ack \in {0, workflow.ack}
  PROVE  Calls'
<1>1. UNCHANGED <<call, gen>>
  BY DEF making
<1>2. CallsFade({})
  BY <1>1, NothingFades DEF Calls
<1>3. Passed(workflow.ack)'
  BY <1>1 DEF Calls, Passed
<1> QED
  BY <1>1, <1>2, <1>3, FadeStep DEF Calls

\* What the check of the siblings lets through: what is unresolved was passed over.
LEMMA UnblockedIsPassed ==
  ASSUME RequestRows, NothingIsOrderedTwice, NEW r, NEW ack, Passed(ack),
         Earlier(r) = {}, Blocking(r, ack) = {}
  PROVE  \A i \in DOMAIN call : SameNode(call[i], r) /\ Unresolved(call[i]) => call[i].acked
<1> SUFFICES ASSUME NEW i \in DOMAIN call, SameNode(call[i], r), Unresolved(call[i])
             PROVE  call[i].acked
  OBVIOUS
<1>0. DOMAIN call \subseteq Nat \ {0}
  BY DEF RequestRows, CallRows
<1>1. i \in Siblings(r)
  BY DEF Siblings, Earlier
<1>2. CASE i = ack
  BY <1>0, <1>2 DEF Passed
<1>3. CASE i # ack
  <2>1. PICK j \in Siblings(r) : ~(j <= i)
    BY <1>1, <1>3 DEF Blocking
  <2>2. j \in DOMAIN call /\ i < j /\ SameNode(call[i], call[j])
    BY <1>0, <2>1 DEF Siblings, SameNode
  <2> QED
    BY <2>2 DEF NothingIsOrderedTwice
<1> QED
  BY <1>2, <1>3

\* The row of a request that is made, and what counts it.
LEMMA BegunRow ==
  ASSUME RequestRows, NEW r, Begin(r)
  PROVE  LET n == Len(call) + 1
             about(v) == r.kind = "review" /\ r.of = v
         IN  /\ CallRows' /\ DOMAIN call' = DOMAIN call \cup {n} /\ \A i \in DOMAIN call : i < n
             /\ \A i \in DOMAIN call : call'[i] = call[i]
             /\ call'[n] = [kind |-> r.kind, of |-> r.of, pass |-> r.pass, attempt |-> r.attempt,
                            member |-> r.member, state |-> "working", acked |-> FALSE]
             /\ \A q : Earlier(q)' = Earlier(q) \cup (IF SameRequest(r, q) THEN {n} ELSE {})
             /\ \A v : /\ Cardinality(CallsAbout(v)) \in Nat
                       /\ Cardinality(CallsAbout(v))' =
                            IF about(v) THEN Cardinality(CallsAbout(v)) + 1 ELSE Cardinality(CallsAbout(v))
             /\ \A q : Counted(q) => Counted(q)'
<1> DEFINE n == Len(call) + 1
           about(v) == r.kind = "review" /\ r.of = v
           row == [kind |-> r.kind, of |-> r.of, pass |-> r.pass, attempt |-> r.attempt,
                   member |-> r.member, state |-> "working", acked |-> FALSE]
<1>1. CallRows' /\ Len(call') = n /\ Len(call) \in Nat /\ DOMAIN call = 1 .. Len(call)
  BY BegunStep DEF RequestRows, CallRows
<1>2. DOMAIN call' = DOMAIN call \cup {n} /\ n \notin DOMAIN call /\ \A i \in DOMAIN call : i < n
  BY <1>1 DEF CallRows
<1>3. (\A i \in DOMAIN call : call'[i] = call[i]) /\ call'[n] = row
  <2>1. call \in Seq({call[i] : i \in DOMAIN call} \cup {row})
    BY DEF RequestRows, CallRows
  <2>2. call' = Append(call, row)
    BY DEF Begin
  <2> HIDE DEF row
  <2> QED
    BY <1>1, <2>1, <2>2
<1>4. ASSUME NEW q
      PROVE  Earlier(q)' = Earlier(q) \cup (IF SameRequest(r, q) THEN {n} ELSE {})
  <2>1. SameRequest(call'[n], q) <=> SameRequest(r, q)
    BY <1>3 DEF SameRequest, SameNode
  <2> HIDE DEF n
  <2> QED
    BY <1>2, <1>3, <2>1 DEF Earlier
<1>5. ASSUME NEW v
      PROVE  CallsAbout(v)' = CallsAbout(v) \cup (IF about(v) THEN {n} ELSE {})
  <2>1. call'[n].kind = r.kind /\ call'[n].of = r.of
    BY <1>3
  <2> HIDE DEF n
  <2> QED
    BY <1>2, <1>3, <2>1 DEF CallsAbout
<1>6. ASSUME NEW v
      PROVE  /\ Cardinality(CallsAbout(v)) \in Nat
             /\ Cardinality(CallsAbout(v))' =
                  IF about(v) THEN Cardinality(CallsAbout(v)) + 1 ELSE Cardinality(CallsAbout(v))
  <2>1. IsFiniteSet(CallsAbout(v)) /\ n \notin CallsAbout(v)
    <3>1. IsFiniteSet(1 .. Len(call))
      BY <1>1, FS_Interval
    <3> QED
      BY <1>1, <1>2, <3>1, FS_Subset DEF CallsAbout
  <2>2. Cardinality(CallsAbout(v)) \in Nat
    BY <2>1, FS_CardinalityType
  <2>3. Cardinality(CallsAbout(v) \cup {n}) = Cardinality(CallsAbout(v)) + 1
    BY <2>1, FS_AddElement
  <2> HIDE DEF n, about
  <2>4. CASE about(v)
    BY <1>5, <2>2, <2>3, <2>4
  <2>5. CASE ~about(v)
    <3>1. CallsAbout(v)' = CallsAbout(v)
      BY <1>5, <2>5
    <3> QED
      BY <2>2, <2>5, <3>1
  <2> QED
    BY <2>4, <2>5
<1> HIDE DEF n, about
<1>7. ASSUME NEW q, Counted(q)
      PROVE  Counted(q)'
  <2>1. CASE q.kind = "review"
    <3>1. q.attempt \in Nat /\ q.attempt <= Cardinality(CallsAbout(q.of))
      BY <1>7, <2>1 DEF Counted
    <3>2. /\ Cardinality(CallsAbout(q.of)) \in Nat
          /\ Cardinality(CallsAbout(q.of))' \in Nat
          /\ Cardinality(CallsAbout(q.of)) <= Cardinality(CallsAbout(q.of))'
      BY <1>6
    <3>3. q.attempt <= Cardinality(CallsAbout(q.of))'
      BY <3>1, <3>2
    <3> QED
      BY <3>1, <3>3 DEF Counted
  <2> QED
    BY <2>1 DEF Counted
<1> QED
  BY <1>1, <1>2, <1>3, <1>4, <1>6, <1>7 DEF n, about

\* A request that was not made before, of a node where nothing else is unresolved
\* unless it was passed over, is made by one owner.
LEMMA OneAsks ==
  ASSUME Calls, NEW o \in Owners, NEW r, NEW g, Begin(r), Goes(o, g), UNCHANGED workflow,
         Earlier(r) = {},
         \A i \in DOMAIN call : SameNode(call[i], r) /\ Unresolved(call[i]) => call[i].acked,
         DOMAIN g = DOMAIN NoGen, Passed(g.ack), Asks(g) = {r}, g.step # "repair",
         r.kind = "review" => r.attempt \in Nat /\ r.attempt <= Cardinality(CallsAbout(r.of)) + 1,
         g.step = "reviewing" => g.trial = Cardinality(CallsAbout(g.text)) + 1,
         \A p \in Owners \ {o} : MayRepair(gen[p]) => r # ReviewRequest(gen[p], 1)
  PROVE  Calls'
<1> DEFINE n == Len(call) + 1
           about(v) == r.kind = "review" /\ r.of = v
           row == [kind |-> r.kind, of |-> r.of, pass |-> r.pass, attempt |-> r.attempt,
                   member |-> r.member, state |-> "working", acked |-> FALSE]
<1>0. RequestRows /\ DOMAIN call \subseteq Nat \ {0} /\ n \in Nat
  BY DEF Calls, RequestRows, CallRows
<1>1. /\ CallRows' /\ DOMAIN call' = DOMAIN call \cup {n} /\ \A i \in DOMAIN call : i < n
      /\ \A i \in DOMAIN call : call'[i] = call[i]
      /\ call'[n] = row
      /\ \A q : Earlier(q)' = Earlier(q) \cup (IF SameRequest(r, q) THEN {n} ELSE {})
      /\ \A v : /\ Cardinality(CallsAbout(v)) \in Nat
                /\ Cardinality(CallsAbout(v))' =
                     IF about(v) THEN Cardinality(CallsAbout(v)) + 1 ELSE Cardinality(CallsAbout(v))
      /\ \A q : Counted(q) => Counted(q)'
  BY <1>0, BegunRow
<1> HIDE DEF n, about
<1>2. /\ SameRequest(row, r) /\ row.state = "working"
      /\ {"kind", "of", "pass", "attempt", "member", "state", "acked"} \subseteq DOMAIN row
  BY DEF SameRequest, SameNode
<1> HIDE DEF row
<1>3. RequestRows'
  <2>1. ASSUME NEW i \in DOMAIN call'
        PROVE  /\ {"kind", "of", "pass", "attempt", "member", "state", "acked"} \subseteq DOMAIN call'[i]
               /\ call'[i].state # "none" /\ Counted(call[i])'
    <3>1. CASE i \in DOMAIN call
      <4>1. call'[i] = call[i] /\ Counted(call[i])
        BY <1>0, <1>1, <3>1 DEF RequestRows
      <4>2. PICK q : q = call[i]
        OBVIOUS
      <4>3. Counted(q)'
        BY <1>1, <4>1, <4>2
      <4>4. Counted(call[i])'
        BY <4>1, <4>2, <4>3 DEF Counted
      <4> QED
        BY <1>0, <3>1, <4>1, <4>4 DEF RequestRows
    <3>2. CASE i = n
      <4>1. call'[i] = row
        BY <1>1, <3>2
      <4>2. Counted(call[i])'
        <5>1. row.kind = r.kind /\ row.of = r.of /\ row.attempt = r.attempt
          BY DEF row
        <5>2. r.kind = "review" => r.attempt \in Nat /\ r.attempt <= Cardinality(CallsAbout(r.of))'
          BY <1>1 DEF about
        <5> QED
          BY <4>1, <5>1, <5>2 DEF Counted, CallsAbout
      <4> QED
        BY <1>2, <4>1, <4>2
    <3> QED
      BY <1>1, <3>1, <3>2
  <2> QED
    BY <1>1, <2>1 DEF RequestRows
<1>4. NothingIsOrderedTwice'
  <2> SUFFICES ASSUME NEW i \in DOMAIN call', NEW j \in DOMAIN call', i < j,
                      SameNode(call'[i], call'[j]), Unresolved(call'[i])
               PROVE  call'[i].acked
    BY DEF NothingIsOrderedTwice
  <2>1. i \in DOMAIN call /\ call'[i] = call[i]
    BY <1>0, <1>1
  <2>2. CASE j = n
    BY <1>1, <1>2, <2>1, <2>2 DEF SameRequest, SameNode
  <2>3. CASE j # n
    BY <1>1, <2>1, <2>3 DEF Calls, NothingIsOrderedTwice
  <2> QED
    BY <2>2, <2>3
<1>5. DOMAIN gen' = Owners /\ gen'[o] = g /\ \A p \in Owners \ {o} : gen'[p] = gen[p]
  BY DEF Calls, Goes
<1>6. (\A a : Passed(a) => Passed(a)') /\ Passed(workflow.ack)'
  <2>1. \A a : Passed(a) => Passed(a)'
    BY <1>1 DEF Passed
  <2>2. Passed(workflow.ack)
    BY DEF Calls
  <2> QED
    BY <2>1, <2>2 DEF Passed
<1>7. \A p \in Owners \ {o} : r \notin Asks(gen[p])
  BY DEF Calls, OwnCalls
<1>8. MayRepair(g) => /\ g.step = "reviewing" /\ r = ReviewRequest(g, 0)
                      /\ r.of = g.text /\ r.attempt = g.trial /\ r.kind = "review" /\ r.pass = 0
  BY DEF MayRepair, Asks, ReviewRequest, Request
<1>9. ASSUME MayRepair(g)
      PROVE  /\ Counted(ReviewRequest(g, 1))' /\ Earlier(ReviewRequest(g, 1))' = {}
             /\ \A p \in Owners \ {o} : MayRepair(gen[p]) => ReviewRequest(g, 1) # ReviewRequest(gen[p], 1)
  <2> DEFINE q == ReviewRequest(g, 1)
             k == Cardinality(CallsAbout(g.text))
  <2>1. /\ q.kind = "review" /\ q.of = g.text /\ q.attempt = g.trial /\ q.pass = 1
        /\ g.trial = k + 1 /\ k \in Nat
    BY <1>1, <1>8, <1>9 DEF ReviewRequest, Request
  <2>2. Cardinality(CallsAbout(g.text))' = k + 1
    BY <1>1, <1>8, <1>9 DEF about
  <2>3. Counted(ReviewRequest(g, 1))'
    BY <2>1, <2>2 DEF Counted
  <2>4. Earlier(q) = {}
    <3> SUFFICES ASSUME NEW i \in Earlier(q) PROVE FALSE
      OBVIOUS
    <3>1. i \in DOMAIN call /\ call[i].kind = "review" /\ call[i].of = g.text /\ call[i].attempt = k + 1
      BY <2>1 DEF Earlier, SameRequest, SameNode
    <3>2. Counted(call[i])
      BY <1>0, <3>1 DEF RequestRows
    <3> QED
      BY <2>1, <3>1, <3>2 DEF Counted
  <2>5. ~SameRequest(r, q)
    BY <1>8, <1>9, <2>1 DEF SameRequest, SameNode
  <2>6. ASSUME NEW p \in Owners \ {o}, MayRepair(gen[p])
        PROVE  q # ReviewRequest(gen[p], 1)
    <3>1. Counted(ReviewRequest(gen[p], 1))
      BY <2>6 DEF Calls, OwnCalls
    <3> QED
      BY <2>1, <3>1 DEF Counted
  <2>7. Earlier(ReviewRequest(g, 1))' = {}
    BY <1>1, <2>4, <2>5
  <2> QED
    BY <2>3, <2>6, <2>7
<1>10. OwnCalls(o)'
  <2>1. Passed(gen[o].ack)'
    BY <1>5, <1>6 DEF Passed
  <2>2. ASSUME NEW q \in Asks(gen'[o])
        PROVE  Earlier(q)' # {} /\ \A i \in Earlier(q)' : Unresolved(call'[i])
    <3>1. q = r /\ SameRequest(r, q)
      BY <1>5, <2>2 DEF SameRequest, SameNode
    <3>2. Earlier(q)' = {n}
      BY <1>1, <3>1
    <3> QED
      BY <1>1, <1>2, <3>2 DEF Unresolved
  <2>3. ASSUME MayRepair(gen'[o])
        PROVE  Counted(ReviewRequest(gen[o], 1))' /\ Earlier(ReviewRequest(gen[o], 1))' = {}
    <3>1. Counted(ReviewRequest(g, 1))' /\ Earlier(ReviewRequest(g, 1))' = {}
      BY <1>5, <1>9, <2>3
    <3>2. Counted(ReviewRequest(gen[o], 1))'
      BY <1>5, <3>1 DEF Counted, CallsAbout
    <3>3. Earlier(ReviewRequest(gen[o], 1))' = {}
      BY <1>5, <3>1 DEF Earlier
    <3> QED
      BY <3>2, <3>3
  <2>4. \A p \in Owners \ {o} :
          /\ Asks(gen'[o]) \cap Asks(gen'[p]) = {}
          /\ MayRepair(gen'[o]) /\ MayRepair(gen'[p]) => ReviewRequest(gen'[o], 1) # ReviewRequest(gen'[p], 1)
    BY <1>5, <1>7, <1>9
  <2> QED
    BY <1>5, <2>1, <2>2, <2>3, <2>4 DEF OwnCalls
<1>11. ASSUME NEW p \in Owners \ {o}
       PROVE  OwnCalls(p)'
  <2>1. OwnCalls(p) /\ gen'[p] = gen[p]
    BY <1>5 DEF Calls
  <2>2. Passed(gen[p].ack)'
    BY <1>6, <2>1 DEF OwnCalls, Passed
  <2>3. ASSUME NEW q \in Asks(gen'[p])
        PROVE  Earlier(q)' # {} /\ \A i \in Earlier(q)' : Unresolved(call'[i])
    <3>1. Earlier(q) # {} /\ \A i \in Earlier(q) : Unresolved(call[i])
      BY <2>1, <2>3 DEF OwnCalls
    <3> QED
      BY <1>1, <1>2, <3>1 DEF Unresolved, Earlier
  <2>4. ASSUME MayRepair(gen'[p])
        PROVE  Counted(ReviewRequest(gen[p], 1))' /\ Earlier(ReviewRequest(gen[p], 1))' = {}
    <3> DEFINE q == ReviewRequest(gen[p], 1)
    <3>1. Counted(q) /\ Earlier(q) = {} /\ r # q
      BY <2>1, <2>4 DEF OwnCalls
    <3>2. ~SameRequest(r, q)
      BY <3>1, RequestsAreEqual DEF Asks, WriteRequest, ReviewRequest
    <3>3. Counted(ReviewRequest(gen[p], 1))'
      BY <1>1, <2>1, <3>1 DEF Counted, CallsAbout
    <3>4. Earlier(ReviewRequest(gen[p], 1))' = {}
      BY <1>1, <2>1, <3>1, <3>2 DEF Earlier
    <3> QED
      BY <3>3, <3>4
  <2>5. \A w \in Owners \ {p} :
          /\ Asks(gen'[p]) \cap Asks(gen'[w]) = {}
          /\ MayRepair(gen'[p]) /\ MayRepair(gen'[w]) => ReviewRequest(gen'[p], 1) # ReviewRequest(gen'[w], 1)
    BY <1>5, <1>7, <1>9, <2>1 DEF OwnCalls
  <2> QED
    BY <2>1, <2>2, <2>3, <2>4, <2>5 DEF OwnCalls
<1> QED
  BY <1>3, <1>4, <1>5, <1>6, <1>10, <1>11 DEF Calls

\* What was passed over is, after a step that keeps the acknowledgement of the workflow.
LEMMA StillPassed ==
  ASSUME Calls, NEW S, CallsFade(S), workflow'.ack \in {0, workflow.ack}
  PROVE  Passed(workflow.ack)'
<1>1. \A a : Passed(a) => Passed(a)'
  BY FadeKeepsRequests DEF Calls
<1>2. Passed(workflow.ack)
  BY DEF Calls
<1> QED
  BY <1>1, <1>2 DEF Passed

\* A generation fails, and waits for nothing.
LEMMA FailRests ==
  ASSUME Making, Calls, NEW o \in Owners, CallsFade({o}), NEW status, Fail(o, status)
  PROVE  Calls'
<1>1. Goes(o, NoGen)
  BY DEF Fail, Goes
<1>2. Rests(gen[o], NoGen)
  BY DEF Rests, NoGen, Passed, Asks
<1>3. workflow'.ack = workflow.ack
  BY DEF Fail, Making, WorkflowRow
<1> QED
  BY <1>1, <1>2, <1>3, StillPassed, OneRests

\* A generation goes on to ask, or with a text.
LEMMA GoesRests ==
  ASSUME Calls, NEW o \in Owners, CallsFade({o}), NEW g, Goes(o, g), workflow' = workflow,
         DOMAIN g = DOMAIN NoGen, g.ack = gen[o].ack, g.step \in {"write", "draft"}
  PROVE  Calls'
<1>1. Rests(gen[o], g)
  BY DEF Rests, Calls, OwnCalls, Asks
<1> QED
  BY <1>1, StillPassed, OneRests

\* The columns of a generation.
LEMMA GenerationColumns ==
  ASSUME Calls, NEW o \in Owners
  PROVE  /\ DOMAIN gen[o] = DOMAIN NoGen /\ Passed(gen[o].ack)
         /\ DOMAIN NoGen = {"step", "chapter", "attempt", "pass", "text", "first", "member", "trial", "ack"}
BY DEF Calls, OwnCalls, NoGen

\* A generation resumes from a draft.
LEMMA PickDraftAsks ==
  ASSUME Making, Calls, NEW o \in Owners, PickDraft(o)
  PROVE  Calls'
<1> DEFINE c == gen[o].chapter
           v == Latest(Unreviewed(c))
           g == [gen[o] EXCEPT !.step = "draft", !.text = v, !.attempt = Attempt(c)]
<1>1. CallsFade({o})
  BY NothingFades DEF Calls, PickDraft
<1>2. \/ Fail(o, "partially_failed")
      \/ Goes(o, g) /\ UNCHANGED <<workflow, driving>>
  BY DEF PickDraft
<1> HIDE DEF v
<1>3. DOMAIN g = DOMAIN NoGen /\ g.ack = gen[o].ack /\ g.step = "draft"
  BY GenerationColumns
<1> HIDE DEF g
<1> QED
  BY <1>1, <1>2, <1>3, FailRests, GoesRests

\* A member did not deliver.
LEMMA NextWriterAsks ==
  ASSUME Making, Calls, NEW o \in Owners, CallsFade({o}), NEW g, NextWriter(o, g),
         DOMAIN g = DOMAIN NoGen, g.ack = gen[o].ack
  PROVE  Calls'
<1> DEFINE m == After(g.first, g.member)
           h == [g EXCEPT !.step = "write", !.member = m]
<1>1. \/ Fail(o, "partially_failed")
      \/ Goes(o, h) /\ UNCHANGED <<workflow, driving>>
  BY DEF NextWriter
<1> HIDE DEF m
<1>2. DOMAIN h = DOMAIN NoGen /\ h.ack = gen[o].ack /\ h.step = "write"
  BY GenerationColumns
<1> HIDE DEF h
<1> QED
  BY <1>1, <1>2, FailRests, GoesRests

\* An answer is saved.
LEMMA WrittenAsks ==
  ASSUME Making, Calls, NEW o \in Owners, CallsFade({o}), NEW g, NEW r, Written(o, g, r),
         DOMAIN g = DOMAIN NoGen, g.ack = gen[o].ack
  PROVE  Calls'
<1> DEFINE saved == {v \in DOMAIN text : text[v].request = r}
           id == IF saved = {} THEN Len(text) + 1 ELSE Max(saved)
           h == [g EXCEPT !.step = "draft", !.text = id]
<1>1. Goes(o, h) /\ UNCHANGED <<workflow, driving>>
  BY DEF Written
<1> HIDE DEF id
<1>2. DOMAIN h = DOMAIN NoGen /\ h.ack = gen[o].ack /\ h.step = "draft"
  BY GenerationColumns
<1> HIDE DEF h
<1> QED
  BY <1>1, <1>2, GoesRests

\* A request nobody made is one that generate knows nothing of.
LEMMA RecalledIsMade ==
  ASSUME RequestRows, NEW r, Recall(r) = "none"
  PROVE  Earlier(r) = {}
<1> SUFFICES ASSUME Earlier(r) # {} PROVE FALSE
  OBVIOUS
<1>1. (CHOOSE i \in Earlier(r) : TRUE) \in Earlier(r)
  OBVIOUS
<1>2. (CHOOSE i \in Earlier(r) : TRUE) \in DOMAIN call
  BY <1>1 DEF Earlier
<1> QED
  BY <1>2 DEF Recall, RequestRows

\* A writer is asked, or the generation goes on without.
LEMMA AskWriterAsks ==
  ASSUME Making, Calls, NEW o \in Owners, AskWriter(o)
  PROVE  Calls'
<1> DEFINE g == IF gen[o].member # 0 THEN gen[o]
                ELSE [gen[o] EXCEPT !.first = managed.writer, !.member = managed.writer,
                                    !.attempt = IF gen[o].pass = 1 THEN Attempt(gen[o].chapter) ELSE @]
           r == WriteRequest(g)
           h == [g EXCEPT !.step = "writing"]
<1>1. DOMAIN g = DOMAIN NoGen /\ g.ack = gen[o].ack /\ Passed(g.ack)
  BY GenerationColumns
<1>2. \/ /\ \E status \in {"partially_failed", "unknown"} : Fail(o, status)
         /\ UNCHANGED <<text, call>>
      \/ NextWriter(o, g) /\ UNCHANGED <<text, call>>
      \/ Written(o, g, r) /\ UNCHANGED call
      \/ /\ Recall(r) = "none" /\ Blocking(r, g.ack) = {}
         /\ Begin(r) /\ Goes(o, h) /\ UNCHANGED <<written, driving>>
  BY DEF AskWriter
<1> HIDE DEF g
<1>3. call' = call => CallsFade({o})
  BY NothingFades DEF Calls
<1>4. CASE /\ Recall(r) = "none" /\ Blocking(r, g.ack) = {}
           /\ Begin(r) /\ Goes(o, h) /\ UNCHANGED <<written, driving>>
  <2>1. Earlier(r) = {}
    BY <1>4, RecalledIsMade DEF Calls
  <2>2. \A i \in DOMAIN call : SameNode(call[i], r) /\ Unresolved(call[i]) => call[i].acked
    BY <1>1, <1>4, <2>1, UnblockedIsPassed DEF Calls
  <2>3. DOMAIN h = DOMAIN NoGen /\ Passed(h.ack) /\ Asks(h) = {r} /\ h.step = "writing"
    BY <1>1, GenerationColumns DEF Asks, WriteRequest
  <2>4. r.kind = "write" /\ \A p \in Owners : r # ReviewRequest(gen[p], 1)
    BY DEF WriteRequest, ReviewRequest, Request
  <2>5. workflow' = workflow
    BY <1>4 DEF written
  <2> HIDE DEF h, r
  <2> QED
    BY <1>4, <2>1, <2>2, <2>3, <2>4, <2>5, OneAsks
<1> HIDE DEF h, r
<1> QED
  BY <1>1, <1>2, <1>3, <1>4, FailRests, NextWriterAsks, WrittenAsks

\* A writer answers.
LEMMA WriterAnswersAsks ==
  ASSUME Making, Calls, NEW o \in Owners, WriterAnswers(o)
  PROVE  Calls'
<1> DEFINE r == WriteRequest(gen[o])
<1>1. PICK out \in CallOutcomes :
        /\ EndCall(r, out)
        /\ \/ /\ \E status \in {"partially_failed", "unknown"} : Fail(o, status)
              /\ UNCHANGED text
           \/ NextWriter(o, gen[o]) /\ UNCHANGED text
           \/ Written(o, gen[o], r)
  BY DEF WriterAnswers
<1>2. r \in Asks(gen[o]) /\ out # "none"
  BY DEF WriterAnswers, Step, Asks, CallOutcomes
<1> HIDE DEF r
<1>3. CallsFade({o})
  BY <1>1, <1>2, AnswerFades
<1> QED
  BY <1>1, <1>3, GenerationColumns, FailRests, NextWriterAsks, WrittenAsks

\* The calls about a text have a number.
LEMMA CountIsNumber ==
  ASSUME RequestRows, NEW v
  PROVE  Cardinality(CallsAbout(v)) \in Nat
<1>1. IsFiniteSet(1 .. Len(call)) /\ CallsAbout(v) \subseteq 1 .. Len(call)
  BY FS_Interval DEF RequestRows, CallRows, CallsAbout
<1> QED
  BY <1>1, FS_Subset, FS_CardinalityType

\* The number of a review is above those of the calls about its text.
LEMMA TrialIsNew ==
  ASSUME RequestRows, NEW r, r.kind = "review", r.attempt = Cardinality(CallsAbout(r.of)) + 1
  PROVE  Earlier(r) = {} /\ Cardinality(CallsAbout(r.of)) \in Nat
<1>1. Cardinality(CallsAbout(r.of)) \in Nat
  BY CountIsNumber
<1>2. ASSUME NEW i \in Earlier(r)
      PROVE  FALSE
  <2>1. i \in DOMAIN call /\ call[i].kind = "review" /\ call[i].of = r.of /\ call[i].attempt = r.attempt
    BY DEF Earlier, SameRequest, SameNode
  <2>2. Counted(call[i])
    BY <2>1 DEF RequestRows
  <2> QED
    BY <1>1, <2>1, <2>2 DEF Counted
<1> QED
  BY <1>1, <1>2

\* The reviewer is asked about a draft, under a number of its own.
LEMMA AskReviewAsks ==
  ASSUME Making, Calls, NEW o \in Owners, gen[o].step = "draft", NEW g,
         g = [gen[o] EXCEPT !.trial = Cardinality(CallsAbout(gen[o].text)) + 1],
         Begin(ReviewRequest(g, 0)), Blocking(ReviewRequest(g, 0), 0) = {},
         Goes(o, [g EXCEPT !.step = "reviewing"]), UNCHANGED workflow
  PROVE  Calls'
<1> DEFINE r == ReviewRequest(g, 0)
           h == [g EXCEPT !.step = "reviewing"]
<1>1. /\ DOMAIN g = DOMAIN NoGen /\ g.ack = gen[o].ack /\ g.text = gen[o].text
      /\ g.trial = Cardinality(CallsAbout(g.text)) + 1 /\ Passed(gen[o].ack)
  BY GenerationColumns
<1>2. r.kind = "review" /\ r.of = g.text /\ r.attempt = g.trial /\ r.pass = 0
  BY DEF ReviewRequest, Request
<1>3. /\ DOMAIN h = DOMAIN NoGen /\ Passed(h.ack) /\ Asks(h) = {r} /\ h.step = "reviewing"
      /\ h.trial = g.trial /\ h.text = g.text
  BY <1>1, GenerationColumns DEF Asks, ReviewRequest
<1>4. \A p \in Owners \ {o} : r # ReviewRequest(gen[p], 1)
  BY DEF ReviewRequest, Request
<1>5. Begin(r) /\ Goes(o, h) /\ Blocking(r, 0) = {} /\ Passed(0)
  BY DEF Passed
<1> HIDE DEF r, h
<1>6. Earlier(r) = {} /\ Cardinality(CallsAbout(r.of)) \in Nat
  BY <1>1, <1>2, TrialIsNew DEF Calls
<1>7. \A i \in DOMAIN call : SameNode(call[i], r) /\ Unresolved(call[i]) => call[i].acked
  BY <1>5, <1>6, UnblockedIsPassed DEF Calls
<1> QED
  BY <1>1, <1>2, <1>3, <1>4, <1>5, <1>6, <1>7, OneAsks

\* The reviewer is asked to repair an answer, under the number of its review.
LEMMA AskRepairAsks ==
  ASSUME Making, Calls, NEW o \in Owners, gen[o].step = "repair",
         Begin(ReviewRequest(gen[o], 1)), Blocking(ReviewRequest(gen[o], 1), 0) = {},
         Goes(o, [gen[o] EXCEPT !.step = "repairing"]), UNCHANGED workflow
  PROVE  Calls'
<1> DEFINE r == ReviewRequest(gen[o], 1)
           h == [gen[o] EXCEPT !.step = "repairing"]
<1>1. OwnCalls(o) /\ MayRepair(gen[o])
  BY DEF Calls, MayRepair
<1>2. /\ r.kind = "review" /\ Counted(r) /\ Earlier(r) = {}
      /\ \A p \in Owners \ {o} : MayRepair(gen[p]) => r # ReviewRequest(gen[p], 1)
  BY <1>1 DEF OwnCalls, ReviewRequest, Request
<1>3. DOMAIN h = DOMAIN NoGen /\ Passed(h.ack) /\ Asks(h) = {r} /\ h.step = "repairing"
  BY GenerationColumns DEF Asks, ReviewRequest
<1>4. Begin(r) /\ Goes(o, h) /\ Blocking(r, 0) = {} /\ Passed(0)
  BY DEF Passed
<1> HIDE DEF r, h
<1>5. \A i \in DOMAIN call : SameNode(call[i], r) /\ Unresolved(call[i]) => call[i].acked
  BY <1>2, <1>4, UnblockedIsPassed DEF Calls
<1>6. r.attempt \in Nat /\ r.attempt <= Cardinality(CallsAbout(r.of)) + 1
  <2>1. Cardinality(CallsAbout(r.of)) \in Nat
    BY CountIsNumber DEF Calls
  <2> QED
    BY <1>2, <2>1 DEF Counted
<1> QED
  BY <1>2, <1>3, <1>4, <1>5, <1>6, OneAsks

\* The reviewer is asked, or the generation fails.
LEMMA AskReviewerAsks ==
  ASSUME Making, Calls, NEW o \in Owners, AskReviewer(o)
  PROVE  Calls'
<1>1. CASE /\ \E status \in {"partially_failed", "unknown"} : Fail(o, status)
           /\ UNCHANGED call
  BY <1>1, NothingFades, FailRests DEF Calls
<1>2. CASE gen[o].step = "repair"
  <2>1. \/ /\ \E status \in {"partially_failed", "unknown"} : Fail(o, status)
           /\ UNCHANGED call
        \/ /\ Blocking(ReviewRequest(gen[o], 1), 0) = {} /\ Begin(ReviewRequest(gen[o], 1))
           /\ Goes(o, [gen[o] EXCEPT !.step = "repairing"]) /\ UNCHANGED <<workflow, driving>>
    BY <1>2 DEF AskReviewer, Step
  <2> QED
    BY <1>1, <1>2, <2>1, AskRepairAsks
<1>3. CASE gen[o].step = "draft"
  <2> DEFINE g == [gen[o] EXCEPT !.trial = Cardinality(CallsAbout(gen[o].text)) + 1]
  <2>1. \/ /\ \E status \in {"partially_failed", "unknown"} : Fail(o, status)
           /\ UNCHANGED call
        \/ /\ Blocking(ReviewRequest(g, 0), 0) = {} /\ Begin(ReviewRequest(g, 0))
           /\ Goes(o, [g EXCEPT !.step = "reviewing"]) /\ UNCHANGED <<workflow, driving>>
    BY <1>3 DEF AskReviewer, Step
  <2> QED
    BY <1>1, <1>3, <2>1, AskReviewAsks
<1> QED
  BY <1>2, <1>3 DEF AskReviewer

\* The reviewer answers: the generation writes again, asks for a repair, or ends.
LEMMA ReviewerAnswersAsks ==
  ASSUME Making, Calls, NEW o \in Owners, ReviewerAnswers(o)
  PROVE  Calls'
<1> DEFINE r == ReviewRequest(gen[o], IF Step(o, "repairing") THEN 1 ELSE 0)
           again == [gen[o] EXCEPT !.step = "write", !.pass = 2, !.member = 0]
           repair == [gen[o] EXCEPT !.step = "repair"]
<1>1. PICK out \in (CallOutcomes \ {"good"}) \cup Verdicts :
        /\ EndCall(r, out)
        /\ \/ /\ \E status \in {"partially_failed", "unknown"} : Fail(o, status)
              /\ UNCHANGED text
           \/ Reviewed(o, out)
           \/ /\ gen[o].step = "reviewing" /\ Goes(o, repair) /\ UNCHANGED <<written, driving>>
  BY DEF ReviewerAnswers, Step
<1>2. r \in Asks(gen[o]) /\ out # "none"
  BY DEF ReviewerAnswers, Step, Asks, CallOutcomes, Verdicts
<1>3. /\ DOMAIN again = DOMAIN NoGen /\ again.ack = gen[o].ack /\ again.step = "write"
      /\ Rests(gen[o], NoGen)
  BY GenerationColumns DEF Rests, NoGen, Passed, Asks
<1>4. gen[o].step = "reviewing" => Rests(gen[o], repair)
  BY GenerationColumns DEF Rests, Asks, MayRepair
<1> HIDE DEF r, again, repair
<1>5. CallsFade({o})
  BY <1>1, <1>2, AnswerFades
<1>6. CASE \E status \in {"partially_failed", "unknown"} : Fail(o, status)
  BY <1>5, <1>6, FailRests
<1>7. CASE gen[o].step = "reviewing" /\ Goes(o, repair) /\ UNCHANGED <<written, driving>>
  BY <1>4, <1>5, <1>7, StillPassed, OneRests DEF written
<1>8. CASE Reviewed(o, out)
  <2>1. CASE Goes(o, again) /\ UNCHANGED <<workflow, driving>>
    BY <1>3, <1>5, <2>1, GoesRests
  <2>2. CASE Finish(o, out = "passed")
    <3>1. Goes(o, NoGen) /\ workflow'.ack = 0
      BY <2>2 DEF Finish, Goes
    <3> QED
      BY <1>3, <1>5, <3>1, StillPassed, OneRests
  <2> QED
    BY <1>8, <2>1, <2>2 DEF Reviewed, again
<1> QED
  BY <1>1, <1>6, <1>7, <1>8

\* A generation begins, with the acknowledgement of the workflow.
LEMMA StartAsks ==
  ASSUME Making, Calls, UNCHANGED call, NEW o \in Owners, NEW c,
         NEW step \in {"write", "resume"}, Start(o, c, step)
  PROVE  Calls'
<1> DEFINE g == [NoGen EXCEPT !.step = step, !.chapter = c, !.pass = 1, !.ack = workflow.ack]
<1>1. Goes(o, g) /\ workflow'.ack = workflow.ack
  BY DEF Start, Making, WorkflowRow
<1>2. Rests(gen[o], g)
  BY DEF Rests, NoGen, Asks, Calls
<1>3. CallsFade({o})
  BY NothingFades DEF Calls
<1> HIDE DEF g
<1> QED
  BY <1>1, <1>2, <1>3, StillPassed, OneRests

\* The author passes over the latest unknown call, or nothing.
LEMMA ActivateAsks ==
  ASSUME Making, Calls, NEW m, Activate(m)
  PROVE  Calls'
<1> DEFINE last == LastUnknown
           unknown == workflow.status = "unknown"
<1>1. /\ unknown => last # 0
      /\ workflow' = [workflow EXCEPT !.status = "working", !.ack = IF unknown THEN last ELSE @]
      /\ call' = IF unknown THEN [call EXCEPT ![last].acked = TRUE] ELSE call
      /\ UNCHANGED gen
  BY DEF Activate
<1>2. "ack" \in DOMAIN workflow /\ RequestRows /\ CallRows
  BY DEF Making, WorkflowRow, Calls, RequestRows
<1>3. CASE ~unknown
  BY <1>1, <1>2, <1>3, NobodyAsks DEF making
<1>4. CASE unknown
  <2>1. last \in DOMAIN call
    <3> DEFINE S == {i \in DOMAIN call : call[i].state = "unknown"}
    <3>1. S \subseteq 1 .. Len(call) /\ Len(call) \in Nat /\ last = Latest(S)
      BY <1>2 DEF CallRows, LastUnknown
    <3> HIDE DEF S, last
    <3>2. last \in S
      BY <1>1, <1>4, <3>1, LatestIsOne
    <3> QED
      BY <3>2 DEF S
  <2> HIDE DEF last
  <2> DEFINE row == [call[last] EXCEPT !.acked = TRUE]
  <2>2. call' = [call EXCEPT ![last] = row]
    BY <1>1, <1>4
  <2>3. /\ {"kind", "of", "pass", "attempt", "member", "state", "acked"} \subseteq DOMAIN row
        /\ SameRequest(row, call[last]) /\ row.state = call[last].state /\ row.acked
    BY <1>2, <2>1 DEF RequestRows, SameRequest, SameNode
  <2> HIDE DEF row
  <2>4. DOMAIN call' = DOMAIN call /\ \A i \in DOMAIN call : call'[i] = IF i = last THEN row ELSE call[i]
    BY <2>2
  <2>5. CallRows'
    <3>1. Len(call) \in Nat /\ DOMAIN call = 1 .. Len(call)
      BY <1>2 DEF CallRows
    <3>2. call' = [i \in 1 .. Len(call) |-> IF i = last THEN row ELSE call[i]]
      BY <2>2, <3>1
    <3>3. Len(call') = Len(call)
      BY <3>1, <3>2
    <3> QED
      BY <3>1, <3>2, <3>3 DEF CallRows
  <2>6. CallsFade({})
    <3>1. ASSUME NEW i \in DOMAIN call
          PROVE  /\ {"kind", "of", "pass", "attempt", "member", "state", "acked"} \subseteq DOMAIN call'[i]
                 /\ SameRequest(call'[i], call[i]) /\ call'[i].state = call[i].state
                 /\ call[i].acked => call'[i].acked
      BY <1>2, <2>3, <2>4 DEF RequestRows, SameRequest, SameNode
    <3>2. \A r : Earlier(r) \subseteq DOMAIN call
      BY DEF Earlier
    <3> QED
      BY <1>2, <2>4, <2>5, <3>1, <3>2 DEF CallsFade, RequestRows, Unresolved
  <2>7. Passed(workflow.ack)'
    <3>1. workflow'.ack = last
      BY <1>1, <1>2, <1>4
    <3> QED
      BY <2>1, <2>3, <2>4, <3>1 DEF Passed
  <2> QED
    BY <1>1, <2>6, <2>7, FadeStep DEF Calls
<1> QED
  BY <1>3, <1>4

\* A crash: nobody waits any more, and the calls stay unresolved.
LEMMA CrashAsks ==
  ASSUME Calls, Crash
  PROVE  Calls'
<1>1. /\ DOMAIN gen' = Owners /\ \A o \in Owners : gen'[o] = NoGen
      /\ UNCHANGED <<workflow, call>>
  BY DEF Crash, written
<1>2. CallsFade(Owners)
  BY <1>1, NothingFades DEF Calls
<1>3. \A o \in Owners : Rests(gen[o], NoGen)
  BY DEF Rests, NoGen, Passed, Asks
<1> QED
  BY <1>1, <1>2, <1>3, StillPassed, FadeStep

\* The chain begins without a call.
LEMMA CallsInit ==
  ASSUME Init PROVE Calls
<1>1. call = <<>> /\ gen = [o \in Owners |-> NoGen] /\ workflow.ack = 0
  BY DEF Init
<1>2. RequestRows /\ NothingIsOrderedTwice
  BY <1>1 DEF RequestRows, CallRows, NothingIsOrderedTwice
<1>3. \A o \in Owners : OwnCalls(o)
  BY <1>1 DEF OwnCalls, NoGen, Passed, Asks, MayRepair
<1> QED
  BY <1>1, <1>2, <1>3 DEF Calls, Passed

\* The steps of the drain.
LEMMA DrainAsks ==
  ASSUME Making, Calls, DrainStep
  PROVE  Calls'
<1>0. {"status", "ack"} \subseteq DOMAIN workflow
  BY DEF Making, WorkflowRow
<1>1. CASE DrainWrites
  BY <1>1, StartAsks DEF DrainWrites, Owners
<1>2. CASE DrainEnds \/ DrainStops \/ DrainSettles
  BY <1>2, NobodyAsks DEF DrainEnds, DrainStops, DrainSettles, written
<1>3. CASE DrainFinalizes
  <2>1. UNCHANGED making /\ (workflow' = workflow \/ workflow' = [workflow EXCEPT !.status = "failed"])
    BY <1>3 DEF DrainFinalizes
  <2> QED
    BY <1>0, <2>1, NobodyAsks
<1>4. CASE SettlingEnds
  <2>1. UNCHANGED making /\ (workflow' = workflow \/ workflow' = [workflow EXCEPT !.status = "working"])
    BY <1>4 DEF SettlingEnds
  <2> QED
    BY <1>0, <2>1, NobodyAsks
<1> QED
  BY <1>1, <1>2, <1>3, <1>4 DEF DrainStep

\* The steps of the author.
LEMMA AuthorAsks ==
  ASSUME Making, Calls, Author
  PROVE  Calls'
<1>1. CASE \E m \in 1 .. NumWriters : Activate(m)
  BY <1>1, ActivateAsks
<1>2. CASE Cancel
  <2>1. UNCHANGED making /\ workflow'.ack = workflow.ack
    BY <1>2 DEF Cancel, Making, WorkflowRow
  <2> QED
    BY <2>1, NobodyAsks
<1>3. CASE AuthorWrites
  BY <1>3, StartAsks DEF AuthorWrites, Owners
<1>4. CASE AuthorFinalizes
  BY <1>4, NobodyAsks DEF AuthorFinalizes
<1> QED
  BY <1>1, <1>2, <1>3, <1>4 DEF Author

\* The steps of a generation.
LEMMA GenStepAsks ==
  ASSUME Making, Calls, NEW o \in Owners, GenStep(o)
  PROVE  Calls'
BY PickDraftAsks, AskWriterAsks, WriterAnswersAsks, AskReviewerAsks, ReviewerAnswersAsks DEF GenStep

\* Every step keeps the second invariant.
LEMMA CallsStep ==
  ASSUME Inductive, Calls, [Next]_vars
  PROVE  Calls'
<1>1. Texts /\ Making /\ WriteBackRows /\ BatchRow
  BY DEF Inductive
<1>2. CASE Turns
  <2>1. UNCHANGED making /\ workflow'.ack \in {0, workflow.ack}
    <3>1. CASE RefreshTurn /\ UNCHANGED making
      BY <3>1 DEF RefreshTurn, Refreshed
    <3>2. CASE JobTurn /\ UNCHANGED making
      BY <3>2 DEF JobTurn, written
    <3>3. CASE SettlementTurn
      BY <3>3 DEF SettlementTurn
    <3> QED
      BY <1>2, <3>1, <3>2, <3>3 DEF Turns, TurnStep
  <2> QED
    BY <2>1, NobodyAsks
<1>3. CASE Batches \/ Children \/ Worker \/ Alone(Kick) \/ \E c \in Chapters : Alone(LookAtRun(c))
  <2>1. /\ turn = "none" /\ UNCHANGED <<making, driving, scenario>>
        /\ BatchStep \/ (\E c \in Chapters : ChildEnds(c) \/ LookAtRun(c)) \/ WorkerAsks \/ Kick
    BY <1>3 DEF Batches, Children, Worker, Alone
  <2>2. WriteBackGoals
    BY <1>1, <2>1, BatchStepKeeps, RunStep, AsksStep DEF Idle
  <2>3. workflow' = workflow
    BY <2>2 DEF WriteBackGoals, written
  <2> QED
    BY <2>1, <2>3, NobodyAsks
<1>4. CASE Drains
  BY <1>1, <1>4, DrainAsks DEF Drains
<1>5. CASE \E o \in Owners : GenStep(o)
  BY <1>1, <1>5, GenStepAsks
<1>6. CASE Author
  BY <1>1, <1>6, AuthorAsks
<1>7. CASE Crash
  BY <1>7, CrashAsks
<1>8. CASE UNCHANGED vars
  BY <1>8, NobodyAsks DEF vars, written
<1> QED
  BY <1>2, <1>3, <1>4, <1>5, <1>6, <1>7, <1>8 DEF Next

\* The gateway's check of earlier calls keeps managed run and author from ordering a
\* text or a review twice while its outcome is open: through failures, unknown results,
\* cancellations, crashes and activations, only a result the author passed over by
\* naming another writer has a second request beside it.
THEOREM NothingTwice == Spec => []NothingIsOrderedTwice
<1>1. Init => Inductive /\ Calls
  BY InductiveInit, CallsInit
<1>2. Inductive /\ Calls /\ [Next]_vars => (Inductive /\ Calls)'
  BY InductiveStep, CallsStep
<1>3. Calls => NothingIsOrderedTwice
  BY DEF Calls
<1> QED
  BY <1>1, <1>2, <1>3, PTL DEF Spec
-----------------------------------------------------------------------------
(* The order of the chapters.                                              *)

\* The author writes no chapter alone.  The generations of the author set the stage of
\* the chain, whatever chapter they are about, and with them it goes astray.
AuthorRests == gen["author"].step = "none"

\* A chain that writes has completed the write-back of all its finals; a chapter of the
\* managed run has finals before it; a finalization is recorded before the chain settles.
InOrder ==
  /\ scenario.chapters \in Nat
  /\ workflow.stage = "manuscript" =>
       \A c \in Final(text), k \in Kinds : event[c][k].status = "completed"
  /\ gen["managed"].step # "none" =>
       /\ workflow.stage = "manuscript"
       /\ \A b \in 1 .. gen["managed"].chapter - 1 : b \in Final(text)
  /\ turn = "settlement" => workflow.stage = "manuscript_confirmation"

\* The managed run asks for no other chapter than the one it is about, and only while
\* the workflow stays what it is.
GoesOn ==
  gen'["managed"].step # "none" =>
    /\ gen["managed"].step # "none" /\ gen'["managed"].chapter = gen["managed"].chapter
    /\ workflow'.stage = workflow.stage

\* What a step keeps that neither begins a generation nor lets the chain write again.
OrderGoals ==
  /\ Final(text') = Final(text) \/ workflow'.stage # "manuscript"
  /\ Final(text) \subseteq Final(text') /\ GoesOn
  /\ workflow'.stage = "manuscript" => workflow.stage = "manuscript"
  /\ turn' = "settlement" => workflow'.stage = "manuscript_confirmation"

\* Such a step keeps the order.
LEMMA OrderKept ==
  ASSUME Inductive, InOrder, EventsStay, UNCHANGED scenario, OrderGoals
  PROVE  InOrder'
<1>1. Final(text) \subseteq Chapters
  BY DEF Inductive, Texts, Final
<1>2. workflow'.stage = "manuscript" =>
        \A c \in Final(text'), k \in Kinds : event'[c][k].status = "completed"
  BY <1>1 DEF InOrder, EventsStay, OrderGoals
<1>3. gen'["managed"].step # "none" =>
        /\ workflow'.stage = "manuscript"
        /\ \A b \in 1 .. gen'["managed"].chapter - 1 : b \in Final(text')
  BY DEF InOrder, OrderGoals, GoesOn
<1> QED
  BY <1>2, <1>3 DEF InOrder, OrderGoals

\* No step of the write-back writes text or workflow, or leaves a finalization to record.
LEMMA WriteBackOrder ==
  ASSUME turn = "none", UNCHANGED making,
         BatchStep \/ (\E c \in Chapters : ChildEnds(c) \/ LookAtRun(c)) \/ WorkerAsks \/ Kick
  PROVE  OrderGoals
<1>1. UNCHANGED <<workflow, text>>
  BY DEF BatchStep, LeaseSettle, SettleThrows, AskEditor, EditorAnswers, StageSettle, LeaseMaintenance,
         Maintain, LeaseJob, ChildEnds, LookAtRun, WorkerAsks, Kick, written
<1>2. turn' # "settlement"
  <2>1. CASE LeaseSettle \/ LeaseMaintenance \/ LeaseJob
    BY <2>1 DEF LeaseSettle, LeaseMaintenance, LeaseJob
  <2>2. CASE SettleThrows \/ StageSettle \/ Maintain
    BY <2>2 DEF SettleThrows, StageSettle, Maintain, EndEvent
  <2>3. CASE AskEditor \/ EditorAnswers
    BY <2>3 DEF AskEditor, EditorAnswers, EndEvent, SaveSettlement, NextEditor, Unparsable
  <2>4. CASE (\E c \in Chapters : ChildEnds(c) \/ LookAtRun(c)) \/ WorkerAsks \/ Kick
    BY <2>4 DEF ChildEnds, LookAtRun, WorkerAsks, Kick
  <2> QED
    BY <2>1, <2>2, <2>3, <2>4 DEF BatchStep
<1> QED
  BY <1>1, <1>2 DEF OrderGoals, GoesOn, making

\* A generation that goes on is about its chapter still, one that ends leaves none.
LEMMA GenStepGoesOn ==
  ASSUME Making, Calls, GenStep("managed")
  PROVE  GoesOn /\ gen["managed"].step # "none"
<1> DEFINE o == "managed"
           h == gen[o]
<1>1. /\ o \in Owners /\ DOMAIN gen = Owners
      /\ {"step", "chapter", "text", "attempt", "first", "member", "trial", "pass"} \subseteq DOMAIN h
  BY GenerationColumns DEF Owners, Calls
<1>2. h.step # "none"
  BY DEF GenStep, PickDraft, AskWriter, WriterAnswers, AskReviewer, ReviewerAnswers, Step
<1>3. \A g : Goes(o, g) /\ UNCHANGED workflow /\ g.chapter = h.chapter => GoesOn
  BY <1>1, <1>2 DEF Goes, GoesOn
<1>4. \A status : Fail(o, status) => GoesOn
  BY <1>1 DEF Fail, GoesOn, NoGen
<1>5. \A passed : Finish(o, passed) => GoesOn
  BY <1>1 DEF Finish, GoesOn, NoGen
<1>6. ASSUME NEW g, DOMAIN g = DOMAIN h, g.chapter = h.chapter, NextWriter(o, g)
      PROVE  GoesOn
  <2> DEFINE m == After(g.first, g.member)
             f == [g EXCEPT !.step = "write", !.member = m]
  <2>1. Fail(o, "partially_failed") \/ (Goes(o, f) /\ UNCHANGED <<workflow, driving>>)
    BY <1>6 DEF NextWriter
  <2> HIDE DEF m
  <2>2. f.chapter = h.chapter
    BY <1>1, <1>6
  <2> HIDE DEF f
  <2> QED
    BY <1>3, <1>4, <2>1, <2>2
<1>7. ASSUME NEW g, NEW r, DOMAIN g = DOMAIN h, g.chapter = h.chapter, Written(o, g, r)
      PROVE  GoesOn
  <2> DEFINE saved == {v \in DOMAIN text : text[v].request = r}
             id == IF saved = {} THEN Len(text) + 1 ELSE Max(saved)
             f == [g EXCEPT !.step = "draft", !.text = id]
  <2>1. Goes(o, f) /\ UNCHANGED <<workflow, driving>>
    BY <1>7 DEF Written
  <2> HIDE DEF id
  <2>2. f.chapter = h.chapter
    BY <1>1, <1>7
  <2> HIDE DEF f
  <2> QED
    BY <1>3, <2>1, <2>2
<1>8. CASE PickDraft(o)
  <2> DEFINE v == Latest(Unreviewed(h.chapter))
             g == [h EXCEPT !.step = "draft", !.text = v, !.attempt = Attempt(h.chapter)]
  <2>1. Fail(o, "partially_failed") \/ (Goes(o, g) /\ UNCHANGED <<workflow, driving>>)
    BY <1>8 DEF PickDraft
  <2> HIDE DEF v
  <2>2. g.chapter = h.chapter
    BY <1>1
  <2> HIDE DEF g
  <2> QED
    BY <1>2, <1>3, <1>4, <2>1, <2>2
<1>9. CASE AskWriter(o)
  <2> DEFINE g == IF h.member # 0 THEN h
                  ELSE [h EXCEPT !.first = managed.writer, !.member = managed.writer,
                                 !.attempt = IF h.pass = 1 THEN Attempt(h.chapter) ELSE @]
             f == [g EXCEPT !.step = "writing"]
  <2>1. \/ \E status : Fail(o, status)
        \/ NextWriter(o, g)
        \/ \E r : Written(o, g, r)
        \/ Goes(o, f) /\ UNCHANGED <<written, driving>>
    BY <1>9 DEF AskWriter
  <2>2. DOMAIN g = DOMAIN h /\ g.chapter = h.chapter /\ f.chapter = h.chapter
    BY <1>1
  <2> HIDE DEF g, f
  <2> QED
    BY <1>2, <1>3, <1>4, <1>6, <1>7, <2>1, <2>2 DEF written
<1>10. CASE WriterAnswers(o)
  <2>1. \/ \E status : Fail(o, status)
        \/ NextWriter(o, h)
        \/ \E r : Written(o, h, r)
    BY <1>10 DEF WriterAnswers
  <2> QED
    BY <1>2, <1>4, <1>6, <1>7, <2>1
<1>11. CASE AskReviewer(o)
  <2> DEFINE repair == IF Step(o, "repair") THEN 1 ELSE 0
             g == IF repair = 1 THEN h ELSE [h EXCEPT !.trial = Cardinality(CallsAbout(h.text)) + 1]
             f == [g EXCEPT !.step = IF repair = 1 THEN "repairing" ELSE "reviewing"]
  <2>1. (\E status : Fail(o, status)) \/ (Goes(o, f) /\ UNCHANGED <<workflow, driving>>)
    BY <1>11 DEF AskReviewer
  <2>2. f.chapter = h.chapter
    BY <1>1
  <2> HIDE DEF f
  <2> QED
    BY <1>2, <1>3, <1>4, <2>1, <2>2
<1>12. CASE ReviewerAnswers(o)
  <2> DEFINE again == [h EXCEPT !.step = "write", !.pass = 2, !.member = 0]
             repair == [h EXCEPT !.step = "repair"]
  <2>1. \/ \E status : Fail(o, status)
        \/ \E out : Reviewed(o, out)
        \/ Goes(o, repair) /\ UNCHANGED <<written, driving>>
    BY <1>12 DEF ReviewerAnswers
  <2>2. \A out : Reviewed(o, out) =>
          (Goes(o, again) /\ UNCHANGED <<workflow, driving>>) \/ (\E passed : Finish(o, passed))
    BY DEF Reviewed
  <2>3. again.chapter = h.chapter /\ repair.chapter = h.chapter
    BY <1>1
  <2> HIDE DEF again, repair
  <2> QED
    BY <1>2, <1>3, <1>4, <1>5, <2>1, <2>2, <2>3 DEF written
<1> QED
  BY <1>2, <1>8, <1>9, <1>10, <1>11, <1>12 DEF GenStep

\* A generation of the managed run ends, or goes on in the stage it began in.
LEMMA GenStepOrder ==
  ASSUME Inductive, Calls, InOrder, turn = "none", UNCHANGED scenario, GenStep("managed")
  PROVE  OrderGoals
<1>1. GoesOn /\ gen["managed"].step # "none"
  BY GenStepGoesOn DEF Inductive
<1>2. Final(text') = Final(text) /\ turn' = "none"
  BY GenStepKeeps DEF Inductive, Goals, Owners
<1> QED
  BY <1>1, <1>2 DEF InOrder, OrderGoals

\* A final text, the managed run's or the author's: no chapter is being written.
LEMMA FinalizesOrder ==
  ASSUME Inductive, InOrder, turn = "none", UNCHANGED <<gen, workflow, scenario>>,
         NEW v \in DOMAIN text, MayFinalize(v), NEW key, Finalize(v, key)
  PROVE  OrderGoals
<1>1. Final(text) \subseteq Final(text')
  BY FinalizedStep DEF Inductive
<1>2. workflow.stage = "manuscript_confirmation"
  BY DEF MayFinalize
<1> QED
  BY <1>1, <1>2 DEF OrderGoals, GoesOn

\* A step that leaves texts and generations alone, and the stage.
LEMMA StageStays ==
  ASSUME turn' # "settlement", UNCHANGED <<text, gen>>, workflow'.stage = workflow.stage
  PROVE  OrderGoals
BY DEF OrderGoals, GoesOn

\* The steps of the drain, but the one that begins a chapter.
LEMMA DrainOrder ==
  ASSUME Inductive, InOrder, turn = "none", UNCHANGED scenario, DrainStep, ~DrainWrites
  PROVE  OrderGoals
<1>1. Texts /\ Making /\ {"stage", "status"} \subseteq DOMAIN workflow
  BY DEF Inductive, Making, WorkflowRow
<1>2. CASE DrainEnds \/ DrainStops \/ DrainSettles
  BY <1>2, StageStays DEF DrainEnds, DrainStops, DrainSettles, written, making
<1>3. CASE SettlingEnds
  <2>1. /\ UNCHANGED <<text, gen, turn>>
        /\ workflow' = workflow \/ workflow' = [workflow EXCEPT !.status = "working"]
    BY <1>3 DEF SettlingEnds, making
  <2> QED
    BY <1>1, <2>1, StageStays
<1>4. CASE DrainFinalizes
  <2> DEFINE v == workflow.text
  <2>1. v # 0 /\ UNCHANGED gen
    BY <1>4 DEF DrainFinalizes, making
  <2>2. v \in DOMAIN text
    BY <1>1, <2>1, NamedText
  <2>3. CASE MayFinalize(v) /\ Finalize(v, "managed") /\ UNCHANGED <<workflow, managed, drain>>
    BY <2>1, <2>2, <2>3, FinalizesOrder
  <2>4. CASE /\ workflow' = workflow \/ workflow' = [workflow EXCEPT !.status = "failed"]
             /\ UNCHANGED <<text, event, turn>>
    BY <1>1, <2>1, <2>4, StageStays
  <2> QED
    BY <1>4, <2>3, <2>4 DEF DrainFinalizes
<1> QED
  BY <1>2, <1>3, <1>4 DEF DrainStep

\* The managed run begins the first chapter without a final text.
LEMMA BeginsInOrder ==
  ASSUME Inductive, Calls, InOrder, EventsStay, turn = "none", UNCHANGED scenario, DrainWrites
  PROVE  InOrder' /\ gen'["managed"].step = "write"
<1> DEFINE c == NextChapter
           g == [NoGen EXCEPT !.step = "write", !.chapter = c, !.pass = 1, !.ack = workflow.ack]
<1>1. /\ workflow.stage = "manuscript" /\ c # 0 /\ Goes("managed", g)
      /\ workflow' = [workflow EXCEPT !.stage = "manuscript", !.status = "working"]
      /\ UNCHANGED <<text, turn>>
  BY DEF DrainWrites, Start
<1>2. c = Min(Unwritten(text)) /\ Unwritten(text) # {}
  BY <1>1 DEF NextChapter
<1>3. c \in Chapters /\ \A b \in Chapters : b < c => b \in Final(text)
  <2>1. Unwritten(text) \subseteq Nat /\ Unwritten(text) = Chapters \ Final(text)
    BY DEF Unwritten, Chapters
  <2>2. c \in Unwritten(text) /\ \A n \in Unwritten(text) : c <= n
    BY <1>2, <2>1, LeastNat
  <2> HIDE DEF c
  <2>3. ASSUME NEW b \in Chapters, b < c, b \notin Final(text)
        PROVE  FALSE
    BY <2>1, <2>2, <2>3 DEF Chapters
  <2> QED
    BY <2>1, <2>2, <2>3
<1> HIDE DEF c
<1>4. \A b \in 1 .. c - 1 : b \in Final(text)
  BY <1>3 DEF Chapters, InOrder
<1>5. gen'["managed"] = g /\ g.step = "write" /\ g.chapter = c
  BY <1>1 DEF Goes, NoGen, Calls, Owners
<1>6. workflow'.stage = "manuscript"
  BY <1>1 DEF Inductive, Making, WorkflowRow
<1>7. \A b \in Final(text), k \in Kinds : event'[b][k].status = "completed"
  BY <1>1 DEF InOrder, EventsStay, Inductive, Texts, Final
<1> HIDE DEF g
<1> QED
  BY <1>1, <1>4, <1>5, <1>6, <1>7 DEF InOrder

\* The steps of the author that write no chapter.
LEMMA AuthorOrder ==
  ASSUME Inductive, Calls, InOrder, turn = "none", UNCHANGED scenario, Author, AuthorRests'
  PROVE  OrderGoals
<1>1. Texts /\ Making /\ {"stage", "status", "ack"} \subseteq DOMAIN workflow
  BY DEF Inductive, Making, WorkflowRow
<1>2. CASE \E m \in 1 .. NumWriters : Activate(m)
  <2> DEFINE last == LastUnknown
             ack == IF workflow.status = "unknown" THEN last ELSE workflow.ack
             worked == [workflow EXCEPT !.status = "working"]
  <2>1. /\ workflow' = [workflow EXCEPT !.status = "working",
                                        !.ack = IF workflow.status = "unknown" THEN last ELSE @]
        /\ UNCHANGED <<text, gen>> /\ turn' # "settlement"
    BY <1>2 DEF Activate
  <2>2. workflow'.stage = workflow.stage
    <3> HIDE DEF last
    <3> QED
      BY <1>1, <2>1
  <2> QED
    BY <2>1, <2>2, StageStays
<1>3. CASE Cancel
  BY <1>1, <1>3, StageStays DEF Cancel, making
<1>4. CASE AuthorWrites
  <2>1. PICK c \in Chapters, step \in {"write", "resume"} : Start("author", c, step)
    BY <1>4 DEF AuthorWrites
  <2>2. gen'["author"].step = step
    BY <2>1 DEF Start, Goes, NoGen, Calls, Owners
  <2> QED
    BY <2>2 DEF AuthorRests
<1>5. CASE AuthorFinalizes
  BY <1>5, FinalizesOrder DEF AuthorFinalizes, making
<1> QED
  BY <1>2, <1>3, <1>4, <1>5 DEF Author

\* refreshWorkflow lets the chain write again when everything final is written back.
LEMMA RefreshOrder ==
  ASSUME Inductive, InOrder, UNCHANGED <<scenario, gen>>, RefreshTurn
  PROVE  InOrder'
<1>1. UNCHANGED <<text, event>> /\ turn' = "none"
  BY DEF RefreshTurn, outbox
<1>2. CASE workflow' = workflow
  BY <1>1, <1>2 DEF InOrder, Final
<1>3. CASE workflow' # workflow
  <2>1. workflow.stage = "settlement" /\ (workflow'.stage = "manuscript" => AllCompleted(event))
    BY <1>3 DEF RefreshTurn, Refreshed
  <2>2. ASSUME AllCompleted(event), NEW c \in Final(text), NEW k \in Kinds
        PROVE  event[c][k].status = "completed"
    <3>1. c \in Chapters /\ WriteBackRows
      BY DEF Inductive, Texts, Final
    <3>2. \A l \in Kinds : event[c][l].status # "none" => event[c][l].status = "completed"
      <4> TAKE l \in Kinds
      <4> HAVE event[c][l].status # "none"
      <4>1. <<c, l>> \in Rows(event)
        BY <3>1 DEF Rows
      <4> QED
        BY <2>2, <4>1 DEF AllCompleted
    <3>3. event[c]["settle"].status # "none"
      BY <3>1 DEF WriteBackRows, WriteBackIsQueued
    <3>4. c \in settled
      BY <3>1, <3>2, <3>3 DEF WriteBackRows, Kinds
    <3> QED
      BY <3>1, <3>2, <3>3, <3>4 DEF WriteBackRows, WriteBackIsQueued, Kinds
  <2>3. gen["managed"].step = "none"
    BY <2>1 DEF InOrder
  <2> QED
    BY <1>1, <2>1, <2>2, <2>3 DEF InOrder, Final
<1> QED
  BY <1>2, <1>3

\* The chain begins with nothing written.
LEMMA OrderInit ==
  ASSUME Init PROVE InOrder
<1>1. scenario \in Scenarios /\ text = <<>> /\ turn = "none" /\ gen["managed"] = NoGen
  BY DEF Init, InitWriteBack, Owners
<1>2. scenario.chapters \in Nat
  BY <1>1, ChainAssumption
<1>3. Final(text) = {}
  BY <1>1 DEF Final
<1> QED
  BY <1>1, <1>2, <1>3 DEF InOrder, NoGen

\* As long as the author writes no chapter alone, every step keeps the order, and a
\* writer is asked about a chapter only when those before it are written back.
LEMMA OrderStep ==
  ASSUME Inductive, Calls, InOrder, AuthorRests, AuthorRests', [Next]_vars
  PROVE  /\ InOrder'
         /\ gen["managed"].step # "writing" /\ gen'["managed"].step = "writing" => GoesOn
<1>1. Texts /\ Making /\ WriteBackRows /\ BatchRow /\ EventsStay
  BY InductiveStep DEF Inductive
<1>2. UNCHANGED scenario
  BY DEF Next, Turns, Batches, Children, Worker, Alone, Drains, Crash, vars
<1>3. OrderGoals => InOrder' /\ GoesOn
  BY <1>1, <1>2, OrderKept DEF OrderGoals
<1>4. CASE Turns
  <2>1. CASE RefreshTurn /\ UNCHANGED making
    BY <1>2, <2>1, RefreshOrder DEF making
  <2>2. CASE JobTurn /\ UNCHANGED making
    BY <1>3, <2>2, StageStays DEF JobTurn, written, making
  <2>3. CASE SettlementTurn
    <3>1. /\ UNCHANGED <<text, gen>> /\ turn' = "none" /\ workflow'.stage = "settlement"
          /\ workflow.stage = "manuscript_confirmation" /\ gen["managed"].step = "none"
      BY <2>3 DEF SettlementTurn, making, InOrder
    <3> QED
      BY <1>3, <3>1 DEF OrderGoals, GoesOn
  <2> QED
    BY <1>4, <2>1, <2>2, <2>3 DEF Turns, TurnStep
<1>5. CASE Batches \/ Children \/ Worker \/ Alone(Kick) \/ \E c \in Chapters : Alone(LookAtRun(c))
  <2>1. /\ turn = "none" /\ UNCHANGED making
        /\ BatchStep \/ (\E c \in Chapters : ChildEnds(c) \/ LookAtRun(c)) \/ WorkerAsks \/ Kick
    BY <1>5 DEF Batches, Children, Worker, Alone
  <2> QED
    BY <1>3, <2>1, WriteBackOrder
<1>6. CASE Drains
  <2>1. CASE DrainWrites
    BY <1>1, <1>2, <1>6, <2>1, BeginsInOrder DEF Drains
  <2>2. CASE ~DrainWrites
    BY <1>2, <1>3, <1>6, <2>2, DrainOrder DEF Drains
  <2> QED
    BY <2>1, <2>2
<1>7. CASE turn = "none" /\ \E o \in Owners : GenStep(o)
  <2>1. ~GenStep("author")
    BY DEF AuthorRests, GenStep, PickDraft, AskWriter, WriterAnswers, AskReviewer, ReviewerAnswers, Step
  <2>2. GenStep("managed")
    BY <1>7, <2>1 DEF Owners
  <2> QED
    BY <1>2, <1>3, <1>7, <2>2, GenStepOrder
<1>8. CASE turn = "none" /\ Author
  BY <1>2, <1>3, <1>8, AuthorOrder
<1>9. CASE Crash
  <2>1. /\ UNCHANGED <<text, workflow>> /\ turn' = "none" /\ gen'["managed"].step = "none"
    BY <1>9 DEF Crash, BatchDies, written, NoGen, Owners
  <2> QED
    BY <1>3, <2>1 DEF OrderGoals, GoesOn
<1>10. CASE UNCHANGED vars
  <2>1. UNCHANGED <<text, workflow, gen, turn, event>>
    BY <1>10 DEF vars, written, making, writeBack, outbox
  <2> QED
    BY <1>2, <2>1 DEF InOrder, Final
<1> QED
  BY <1>4, <1>5, <1>6, <1>7, <1>8, <1>9, <1>10 DEF Next

\* advance of the managed run takes the first chapter without a final text, and only in
\* the stage that refreshWorkflow gives when everything final is written back: a text of
\* a chapter is asked for when those before it are final and their write-back is
\* complete, through failures, crashes, cancellations, activations and finalizations of
\* the author, as long as the author writes no chapter alone beside it.
THEOREM ChaptersFollow == Spec /\ []AuthorRests => ChaptersInOrder
<1>1. Init => Inductive /\ Calls /\ InOrder
  BY InductiveInit, CallsInit, OrderInit
<1>2. Inductive /\ Calls /\ InOrder /\ AuthorRests /\ AuthorRests' /\ [Next]_vars
        => (Inductive /\ Calls /\ InOrder)'
  BY InductiveStep, CallsStep, OrderStep
<1> DEFINE Ordered ==
             \A c \in Chapters :
               gen["managed"].step # "writing" /\ gen'["managed"].step = "writing" /\ gen'["managed"].chapter = c
               => \A b \in 1 .. c - 1 : \A k \in Kinds : event[b][k].status = "completed"
<1>3. Inductive /\ Calls /\ InOrder /\ AuthorRests /\ AuthorRests' /\ [Next]_vars => Ordered
  BY OrderStep DEF GoesOn, InOrder
<1>4. Spec /\ []AuthorRests => [][Ordered]_vars
  <2> HIDE DEF Ordered
  <2> QED
    BY <1>1, <1>2, <1>3, PTL DEF Spec
<1> QED
  BY <1>4 DEF ChaptersInOrder
=============================================================================
