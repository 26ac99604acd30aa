----------------------- MODULE ChapterDecisionProofs -----------------------
(***************************************************************************)
(* What the author is asked to decide, as long as no task takes the run of *)
(* the chapter back while a gate of that task still awaits the author:     *)
(* every gate shows a finished review of its own text, at most one text    *)
(* can become canon, and every rewrite has a cause on record.  A failed    *)
(* run is taken over by the next task, and a retry of the first one takes  *)
(* it back: then the older gate comes to life beside the new texts of the  *)
(* run.  When only the newest task is executed this never happens, and     *)
(* what is asked is also what is shown.                                    *)
(***************************************************************************)
EXTENDS ChapterPipelineProofs

\* The run is not handed back to a task one of whose gates still awaits the author.
NotReturned == run'.task # run.task => \A v \in Awaiting : gate[v].task # run'.task

-----------------------------------------------------------------------------
(* The invariant.                                                          *)

\* A gate that awaits the author is of a task of the chapter, and shows a finished review
\* of its text; the gate of the run's task is where the run stands.
Offered ==
  \A v \in Awaiting :
    /\ gate[v].task \in DOMAIN task /\ gate[v].panel \in DOMAIN panel
    /\ panel[gate[v].panel].text = v /\ panel[gate[v].panel].full /\ panel[gate[v].panel].merged
    /\ gate[v].task = run.task => /\ run.text = v /\ run.panel = gate[v].panel
                                  /\ run.phase \in {"settlement", "completed"}

\* What an execution waits for belongs to the phase of the run.
InPhase ==
  /\ exec.step = "draft" => run.phase = "draft"
  /\ exec.step \in {"rewrite", "candidate"} => run.phase = "rewrite"
  /\ exec.step \in {"seats", "synthesis"} => run.phase = "review"

\* A text comes to its gate, or back to the writer after a check that passed, with its
\* own panel.
Merited ==
  /\ run.text # 0 /\ run.panel # 0
  /\ run.phase = "facts" \/ (run.phase = "rewrite" /\ LatestPassed(run.text))
  => panel[run.panel].text = run.text /\ panel[run.panel].full /\ panel[run.panel].merged

\* An order is written for a text that passed: the one that failed a check since has that
\* failure on record even when a restoration that was cut off has cancelled its order.
Caused ==
  run.phase = "rewrite" /\ run.epoch = "held" /\ run.task \in DOMAIN task =>
    /\ run.text # 0
    /\ \/ run.text \in orders /\ Passed(run.text)
       \/ FailedCheck(run.text)
       \/ task[run.task].op = "rewrite_existing"

Decided == Offered /\ InPhase /\ Merited /\ Caused

LEMMA DecidedInit == Init => Decided
BY DEF Init, FreshRun, Idle, NoGate, Decided, Offered, Awaiting, InPhase, Merited, Caused

\* A step of the program from a state where all of this holds.
Stepping ==
  Inductive /\ Inductive' /\ RecordsStand /\ scenario' = scenario /\ Decided /\ NotReturned

\* No gate is new, and the run moves on to another task or stays at its gate.
LEMMA OffersKept ==
  ASSUME Stepping,
         \A v \in Awaiting' : /\ v \in Awaiting /\ gate'[v].task = gate[v].task
                              /\ gate'[v].panel = gate[v].panel,
         \A v \in Awaiting' :
           gate[v].task = run.task /\ run'.task = run.task /\ run.phase \in {"settlement", "completed"}
           => run'.text = run.text /\ run'.panel = run.panel /\ run'.phase \in {"settlement", "completed"}
  PROVE  Offered'
<1>1. NotReturned /\ \A t \in DOMAIN task : t \in DOMAIN task'
  BY DEF Stepping, RecordsStand, TasksStand
<1> SUFFICES ASSUME NEW v \in Awaiting'
             PROVE  /\ gate'[v].task \in DOMAIN task' /\ gate'[v].panel \in DOMAIN panel'
                    /\ panel'[gate'[v].panel].text = v /\ panel'[gate'[v].panel].full
                    /\ panel'[gate'[v].panel].merged
                    /\ gate'[v].task = run'.task => /\ run'.text = v /\ run'.panel = gate'[v].panel
                                                    /\ run'.phase \in {"settlement", "completed"}
  BY DEF Offered
<1>2. v \in Awaiting /\ gate'[v].task = gate[v].task /\ gate'[v].panel = gate[v].panel
  OBVIOUS
<1>3. /\ gate[v].task \in DOMAIN task /\ gate[v].panel \in DOMAIN panel
      /\ panel[gate[v].panel].text = v /\ panel[gate[v].panel].full /\ panel[gate[v].panel].merged
      /\ gate[v].task = run.task => /\ run.text = v /\ run.panel = gate[v].panel
                                    /\ run.phase \in {"settlement", "completed"}
  BY <1>2 DEF Stepping, Decided, Offered
<1>4. /\ gate[v].panel \in DOMAIN panel'
      /\ panel'[gate[v].panel].text = v /\ panel'[gate[v].panel].full /\ panel'[gate[v].panel].merged
  BY <1>3 DEF Stepping, RecordsStand
<1>5. gate[v].task = run'.task => run'.task = run.task
  BY <1>1, <1>2 DEF NotReturned
<1> QED
  BY <1>1, <1>2, <1>3, <1>4, <1>5

\* The text that is rewritten passes no check meanwhile.
SameChecks ==
  run.phase = "rewrite" /\ run.text # 0 /\ version'[run.text].latest => version[run.text].latest

\* The run stays where it is, and so do its orders unless it lost its writer.
LEMMA PlaceKept ==
  ASSUME Stepping,
         \A v \in Awaiting' : /\ v \in Awaiting /\ gate'[v].task = gate[v].task
                              /\ gate'[v].panel = gate[v].panel,
         run'.task = run.task, run'.text = run.text, run'.panel = run.panel, run'.phase = run.phase,
         run'.epoch = "held" =>
           run.epoch = "held" /\ (orders \subseteq orders' \/ run.phase # "rewrite"),
         SameChecks, InPhase'
  PROVE  Decided'
<1>1. Offered'
  BY OffersKept
<1>2. /\ run.text # 0 => run.text \in Texts
      /\ run.panel # 0 => run.panel \in DOMAIN panel
  BY Tables DEF Stepping, Inductive, Rows, References, RunRow, Texts
<1>3. Merited'
  <2> SUFFICES ASSUME run'.text # 0, run'.panel # 0,
                      run'.phase = "facts" \/ (run'.phase = "rewrite" /\ LatestPassed(run.text)')
               PROVE  /\ panel'[run'.panel].text = run'.text
                      /\ panel'[run'.panel].full /\ panel'[run'.panel].merged
    BY DEF Merited, LatestPassed
  <2>1. run.phase = "facts" \/ (run.phase = "rewrite" /\ LatestPassed(run.text))
    BY DEF LatestPassed, SameChecks
  <2>2. panel[run.panel].text = run.text /\ panel[run.panel].full /\ panel[run.panel].merged
    BY <2>1 DEF Stepping, Decided, Merited
  <2> QED
    BY <1>2, <2>2 DEF Stepping, RecordsStand
<1>4. Caused'
  <2> SUFFICES ASSUME run'.phase = "rewrite", run'.epoch = "held", run'.task \in DOMAIN task'
               PROVE  /\ run'.text # 0
                      /\ \/ run'.text \in orders' /\ version'[run.text].passed
                         \/ FailedCheck(run.text)'
                         \/ task'[run'.task].op = "rewrite_existing"
    BY DEF Caused, FailedCheck, Passed
  <2>1. run.task \in DOMAIN task
    <3>1. run.task <= Len(task) /\ run'.task \in 1 .. Len(task') /\ run.task \in Nat
      BY Tables DEF Stepping, Inductive, Rows, References, RunRow
    <3> QED
      BY <3>1, Tables DEF Stepping, Inductive
  <2>2. /\ run.text # 0
        /\ \/ run.text \in orders /\ Passed(run.text)
           \/ FailedCheck(run.text)
           \/ task[run.task].op = "rewrite_existing"
    BY <2>1 DEF Stepping, Decided, Caused
  <2>3. CASE run.text \in orders /\ Passed(run.text)
    BY <1>2, <2>2, <2>3 DEF Passed, Stepping, RecordsStand
  <2>4. CASE FailedCheck(run.text)
    BY <1>2, <2>2, <2>4 DEF FailedCheck, Stepping, RecordsStand
  <2>5. CASE task[run.task].op = "rewrite_existing"
    BY <2>1, <2>2, <2>5 DEF Stepping, RecordsStand, TasksStand
  <2> QED
    BY <2>2, <2>3, <2>4, <2>5
<1> QED
  BY <1>1, <1>3, <1>4 DEF Decided

\* The run moves on, and it stood at no gate.
LEMMA RunMoves ==
  ASSUME Stepping, gate' = gate, run'.task = run.task,
         run.phase \notin {"settlement", "completed"}, InPhase', Merited', Caused'
  PROVE  Decided'
<1>1. Offered'
  BY OffersKept DEF Awaiting
<1> QED
  BY <1>1 DEF Decided
-----------------------------------------------------------------------------
(* Steps that leave the run where it is.                                   *)

\* An execution that fails, with what its phase had stored.
LEMMA FailuresDecide ==
  ASSUME Stepping,
         \/ PreflightBlocked \/ ExecutionThrows \/ WriterBlocked \/ SynthesisBlocked
         \/ SynthesisFails \/ SeatsFail \/ ReviewsExhausted \/ MergeRefused \/ MergedOnly
         \/ CopyrightBlocked
  PROVE  Decided'
<1>1. /\ run' = [run EXCEPT !.status = "failed"] /\ exec' = Idle /\ gate' = gate
      /\ version' = version \/ run.phase = "hard_check"
      /\ orders' = orders \/ exec.step = "synthesis"
  <2>1. CASE PreflightBlocked
    BY <2>1 DEF PreflightBlocked, Throw, texts
  <2>2. CASE ExecutionThrows
    BY <2>2 DEF ExecutionThrows, Throw, texts
  <2>3. CASE WriterBlocked
    BY <2>3 DEF WriterBlocked, Throw, texts
  <2>4. CASE SynthesisBlocked
    BY <2>4 DEF SynthesisBlocked, Throw, texts
  <2>5. CASE SynthesisFails
    BY <2>5 DEF SynthesisFails, Throw, texts
  <2>6. CASE SeatsFail
    BY <2>6 DEF SeatsFail, Throw, texts
  <2>7. CASE ReviewsExhausted
    BY <2>7 DEF ReviewsExhausted, Throw, texts
  <2>8. CASE MergeRefused
    BY <2>8 DEF MergeRefused, Throw, texts
  <2>9. CASE MergedOnly
    BY <2>9 DEF MergedOnly, Throw, Step
  <2>10. CASE CopyrightBlocked
    BY <2>10 DEF CopyrightBlocked, Throw, Phase
  <2> QED
    BY <2>1, <2>2, <2>3, <2>4, <2>5, <2>6, <2>7, <2>8, <2>9, <2>10
<1>2. /\ run'.task = run.task /\ run'.text = run.text /\ run'.panel = run.panel
      /\ run'.phase = run.phase /\ run'.epoch = run.epoch
  BY <1>1 DEF Stepping, Inductive, Rows, RunRow
<1>3. InPhase'
  BY <1>1 DEF InPhase, Idle
<1>4. exec.step = "synthesis" => run.phase # "rewrite"
  BY DEF Stepping, Decided, InPhase
<1> QED
  BY <1>1, <1>2, <1>3, <1>4, PlaceKept DEF Awaiting, SameChecks

\* Steps around a call, and what others do that touches neither the run nor a gate.
LEMMA QuietDecide ==
  ASSUME Stepping,
         \/ SendDraft \/ SendRewrite \/ RewriteReceived \/ OtherChapterSettles \/ RequestSynthesis
         \/ \E op \in Operations : ScheduleNew(op) \/ ScheduleRevision(op)
         \/ \E t \in DOMAIN task : RetryFailed(t) \/ Resume(t) \/ Cancel(t)
         \/ UNCHANGED vars
  PROVE  Decided'
<1>1. UNCHANGED <<run, orders, gate>> /\ InPhase' /\ (version' = version \/ OtherChapterSettles)
  <2>1. CASE SendDraft
    BY <2>1 DEF SendDraft, Wait, Phase, texts, InPhase, Stepping, Inductive, Rows, ExecRow
  <2>2. CASE SendRewrite
    BY <2>2 DEF SendRewrite, Wait, Phase, texts, InPhase, Stepping, Inductive, Rows, ExecRow
  <2>3. CASE RewriteReceived
    BY <2>3 DEF RewriteReceived, Step, texts, Decided, InPhase, Stepping, Inductive, Rows, ExecRow
  <2>4. CASE OtherChapterSettles
    BY <2>4 DEF OtherChapterSettles, Decided, InPhase, Stepping
  <2>5. CASE RequestSynthesis
    BY <2>5 DEF RequestSynthesis, texts, Decided, InPhase, Stepping
  <2>6. CASE \E op \in Operations : ScheduleNew(op) \/ ScheduleRevision(op)
    BY <2>6 DEF ScheduleNew, ScheduleRevision, texts, Decided, InPhase, Stepping
  <2>7. CASE \E t \in DOMAIN task : RetryFailed(t) \/ Resume(t) \/ Cancel(t)
    BY <2>7 DEF RetryFailed, Resume, Cancel, texts, Decided, InPhase, Stepping
  <2>8. CASE UNCHANGED vars
    BY <2>8 DEF vars, Decided, InPhase, Stepping
  <2> QED
    BY <2>1, <2>2, <2>3, <2>4, <2>5, <2>6, <2>7, <2>8
<1>2. SameChecks
  <2>1. CASE version' = version
    BY <2>1 DEF SameChecks
  <2>2. CASE OtherChapterSettles
    <3>1. PICK S \in SUBSET Texts : version' = [v \in Texts |-> [version[v] EXCEPT !.clash = v \in S]]
      BY <2>2 DEF OtherChapterSettles
    <3>2. run.text # 0 => run.text \in Texts /\ version[run.text] \in TextFields
      <4>1. run.text # 0 => run.text \in Texts
        BY Tables DEF Stepping, Inductive, Rows, References, RunRow, Texts
      <4> QED
        BY <4>1, Tables DEF Stepping, Inductive, Texts, TextRow
    <3>3. \A text \in TextFields, b \in BOOLEAN : [text EXCEPT !.clash = b].latest = text.latest
      BY DEF TextFields
    <3> QED
      BY <3>1, <3>2, <3>3 DEF SameChecks
  <2> QED
    BY <1>1, <2>1, <2>2
<1> QED
  BY <1>1, <1>2, PlaceKept DEF Awaiting

\* A task ends, loses its lease, or its writer.
LEMMA EndsDecide ==
  ASSUME Stepping, Close \/ Recover \/ StaleThrows \/ OtherChapterRuns
  PROVE  Decided'
<1>1. /\ UNCHANGED <<version, gate>> /\ InPhase'
      /\ run' = run \/ (\E st : run' = [run EXCEPT !.status = st]) \/ run' = [run EXCEPT !.epoch = "lost"]
      /\ orders' = orders \/ run' = [run EXCEPT !.epoch = "lost"]
  <2>1. CASE Close
    BY <2>1 DEF Close, texts, InPhase, Idle
  <2>2. CASE Recover
    BY <2>2 DEF Recover, texts, InPhase, Idle
  <2>3. CASE StaleThrows
    <3>1. run' = [run EXCEPT !.status = "failed"] /\ exec' = exec /\ UNCHANGED <<version, gate, orders>>
      BY <2>3 DEF StaleThrows, texts
    <3>2. run'.phase = run.phase
      BY <3>1 DEF Stepping, Inductive, Rows, RunRow
    <3> QED
      BY <3>1, <3>2 DEF Stepping, Decided, InPhase
  <2>4. CASE OtherChapterRuns
    BY <2>4 DEF OtherChapterRuns, InPhase, Idle
  <2> QED
    BY <2>1, <2>2, <2>3, <2>4
<1>2. /\ run'.task = run.task /\ run'.text = run.text /\ run'.panel = run.panel
      /\ run'.phase = run.phase
      /\ run'.epoch = "held" => run.epoch = "held" /\ orders' = orders
  BY <1>1 DEF Stepping, Inductive, Rows, RunRow
<1> QED
  BY <1>1, <1>2, PlaceKept DEF Awaiting, SameChecks

\* The process dies between two writes of a merge or of a restoration: the run is where it
\* was, and what it stands for is on record still.
LEMMA CutsDecide ==
  ASSUME Stepping, OrderOnly \/ RestoreOnly
  PROVE  Decided'
<1>1. Dies /\ exec # Idle
  BY DEF OrderOnly, RestoreOnly, Phase, Step, Idle
<1>2. /\ run' = run /\ gate' = gate /\ exec' = Idle
      /\ run.text # 0 => run.text \in Texts
  BY <1>1, ExecutingFacts DEF Dies, Stepping
<1>3. InPhase'
  BY <1>2 DEF InPhase, Idle
<1>4. CASE OrderOnly
  <2>1. run.phase = "review"
    BY <1>4 DEF OrderOnly, Step, Stepping, Decided, InPhase
  <2> QED
    BY <1>2, <1>3, <2>1, PlaceKept DEF Awaiting, SameChecks
<1>5. CASE RestoreOnly /\ Phase("hard_check")
  BY <1>2, <1>3, <1>5, PlaceKept DEF Phase, Awaiting, SameChecks
<1>6. CASE RestoreOnly /\ Step("candidate")
  <2>1. /\ run.phase = "rewrite" /\ run.text # 0 /\ ~LatestPassed(run.text)
        /\ version' = [version EXCEPT ![run.text].status = "rejected"]
    BY <1>6, ExecutingFacts DEF RestoreOnly, Phase, Step, Stepping, Decided, InPhase, Inductive, Executing
  <2>2. /\ run.text \in DOMAIN version /\ version[run.text] \in TextRow
        /\ version'[run.text].latest = version[run.text].latest
    BY <1>2, <2>1, Tables DEF Stepping, Inductive, Texts, TextRow, TextFields
  <2>3. Offered'
    BY <1>2, <2>1, OffersKept DEF Awaiting
  <2>4. Merited'
    BY <1>2, <2>1, <2>2 DEF Merited, LatestPassed
  <2>5. Caused'
    <3> SUFFICES ASSUME run.epoch = "held", run.task \in DOMAIN task'
                 PROVE  FailedCheck(run.text)' \/ task'[run.task].op = "rewrite_existing"
      BY <1>2, <2>1 DEF Caused, FailedCheck
    <3>1. run.task \in DOMAIN task
      BY <1>1, ExecutingFacts DEF Stepping
    <3>2. \/ Passed(run.text) \/ FailedCheck(run.text)
          \/ task[run.task].op = "rewrite_existing"
      BY <2>1, <3>1 DEF Stepping, Decided, Caused
    <3>3. Passed(run.text) => FailedCheck(run.text)
      BY <2>1, <2>2, TextFacts DEF Passed, FailedCheck, LatestPassed
    <3> QED
      BY <1>2, <2>1, <3>1, <3>2, <3>3 DEF FailedCheck, Stepping, RecordsStand, TasksStand
  <2> QED
    BY <1>3, <2>3, <2>4, <2>5 DEF Decided
<1> QED
  BY <1>4, <1>5, <1>6 DEF RestoreOnly

\* The author accepts, edits, withdraws, or aligns the outline: gates are closed at most.
LEMMA AuthorDecide ==
  ASSUME Stepping,
         SaveDraft \/ Withdraw \/ \E v \in Texts : Accept(v) \/ AlignOutline(v)
  PROVE  Decided'
<1>1. UNCHANGED <<run, exec, orders>>
  BY DEF SaveDraft, Withdraw, Accept, AlignOutline, texts
<1>2. /\ gate \in [1 .. MaxTexts -> GateRow] /\ version \in Seq(TextRow)
      /\ run.text \in Nat /\ run.text <= Len(version)
  BY DEF Stepping, Inductive, Rows, References, RunRow
<1>3. \A v \in Awaiting' : v \in Awaiting /\ gate'[v].task = gate[v].task /\ gate'[v].panel = gate[v].panel
  <2>1. CASE SaveDraft \/ Withdraw
    <3>1. gate' = [v \in DOMAIN gate |-> IF v \notin Awaiting THEN gate[v]
                     ELSE [gate[v] EXCEPT !.status = "superseded", !.open = FALSE]]
      BY <2>1 DEF SaveDraft, Withdraw, Superseded
    <3> QED
      BY <1>2, <3>1 DEF Awaiting, GateRow
  <2>2. CASE \E v \in Texts : Accept(v)
    <3>1. PICK v \in Texts : gate' = [gate EXCEPT ![v].status = "settled", ![v].open = FALSE]
      BY <2>2 DEF Accept
    <3> QED
      BY <1>2, <3>1 DEF Awaiting, GateRow
  <2>3. CASE \E v \in Texts : AlignOutline(v)
    <3>1. PICK v \in Texts : gate' = [gate EXCEPT ![v].open = FALSE]
      BY <2>3 DEF AlignOutline
    <3> QED
      BY <1>2, <3>1 DEF Awaiting, GateRow
  <2> QED
    BY <2>1, <2>2, <2>3
<1>4. SameChecks
  <2>1. CASE SaveDraft
    <3>1. PICK row : version' = Append(version, row)
      BY <2>1 DEF SaveDraft, Register
    <3> QED
      BY <1>2, <3>1 DEF SameChecks
  <2>2. CASE version' = version
    BY <2>2 DEF SameChecks
  <2>3. CASE \E v \in Texts : version' = [version EXCEPT ![v].status = "canon"]
    <3>1. PICK v \in Texts : version' = [version EXCEPT ![v].status = "canon"]
      BY <2>3
    <3>2. version[v] \in TextFields
      BY Tables DEF Stepping, Inductive, Texts, TextRow
    <3>3. [version[v] EXCEPT !.status = "canon"].latest = version[v].latest
      BY <3>2 DEF TextFields
    <3> QED
      BY <3>1, <3>3 DEF SameChecks, Texts
  <2> QED
    BY <2>1, <2>2, <2>3 DEF Withdraw, Accept, AlignOutline, texts
<1>5. InPhase'
  BY <1>1 DEF Stepping, Decided, InPhase
<1> QED
  BY <1>1, <1>3, <1>4, <1>5, PlaceKept
-----------------------------------------------------------------------------
(* The phases.                                                             *)

\* The run goes to a phase that neither decides nor rewrites.
LEMMA PlainPhase ==
  ASSUME Stepping, gate' = gate, run'.task = run.task,
         run.phase \notin {"settlement", "completed"}, run'.phase \notin {"facts", "rewrite"}, InPhase'
  PROVE  Decided'
BY RunMoves DEF Merited, Caused

LEMMA RowsHere ==
  ASSUME Stepping
  PROVE  /\ run \in RunRow /\ exec \in ExecRow /\ InPhase
         /\ \A v \in Texts : version[v] \in TextRow
         /\ \A p \in DOMAIN panel : panel[p] \in PanelRow
BY Tables DEF Stepping, Inductive, Rows, Decided, Texts

LEMMA PhasesDecide ==
  ASSUME Stepping, Preflight \/ Context \/ DraftAnswered \/ OpenPanel \/ SeatsReport
  PROVE  Decided'
<1> USE RowsHere
<1>1. CASE Preflight
  <2>1. /\ run.phase = "preflight" /\ gate' = gate /\ exec' = [exec EXCEPT !.step = "loop", !.panel = 0]
        /\ \/ run' = [run EXCEPT !.phase = "completed"]
           \/ \E v, writer : run' = [run EXCEPT !.text = v, !.epoch = "held", !.writer = writer,
                                       !.phase = "hard_check"]
           \/ \E v, writer : run' = [run EXCEPT !.text = v, !.epoch = "held", !.writer = writer,
                                       !.phase = "context"]
    <3>1. run.phase = "preflight" /\ gate' = gate
      BY <1>1 DEF Preflight, Phase
    <3>2. CASE chapter.settle = "settled" /\ Op \notin Explicit
      BY <1>1, <3>1, <3>2 DEF Preflight, Continue
    <3>3. CASE ~(chapter.settle = "settled" /\ Op \notin Explicit) /\ Op = "review_existing"
      <4>1. Continue([run EXCEPT !.text = Bound, !.epoch = "held",
                        !.writer = version[NearestByModel(Bound)].author, !.phase = "hard_check"])
        BY <1>1, <3>3, Zenon DEF Preflight
      <4> QED
        BY <3>1, <4>1 DEF Continue
    <3>4. CASE ~(chapter.settle = "settled" /\ Op \notin Explicit) /\ Op # "review_existing"
      <4>1. Continue([run EXCEPT !.text = Bound, !.epoch = "held", !.writer = run.writer, !.phase = "context"])
        BY <1>1, <3>4 DEF Preflight
      <4> QED
        BY <3>1, <4>1 DEF Continue
    <3> QED
      BY <3>2, <3>3, <3>4
  <2> QED
    BY <2>1, PlainPhase DEF RunRow, ExecRow, InPhase
<1>2. CASE Context
  BY <1>2, PlainPhase DEF Context, Phase, Continue, RunRow, ExecRow, InPhase
<1>3. CASE DraftAnswered
  <2>1. /\ run.phase = "draft" /\ gate' = gate /\ exec' = [exec EXCEPT !.step = "loop", !.panel = 0]
        /\ \E v : run' = [run EXCEPT !.text = v, !.phase = "hard_check"]
    BY <1>3 DEF DraftAnswered, Step, Continue, InPhase
  <2> QED
    BY <2>1, PlainPhase DEF RunRow, ExecRow, InPhase
<1>4. CASE OpenPanel
  <2>1. /\ run.phase = "review" /\ gate' = gate /\ exec' = [exec EXCEPT !.step = "seats", !.panel = run.panel]
        /\ \E p : run' = [run EXCEPT !.panel = p]
    BY <1>4 DEF OpenPanel, Phase, Wait
  <2> QED
    BY <2>1, PlainPhase DEF RunRow, ExecRow, InPhase
<1>5. CASE SeatsReport
  <2>1. /\ exec.step = "seats" /\ gate' = gate
        /\ \/ exec' = [exec EXCEPT !.step = "synthesis", !.panel = exec.panel] /\ run' = run
           \/ exec' = Idle /\ run' = [run EXCEPT !.status = "paused"]
    BY <1>5 DEF SeatsReport, Step, Wait
  <2>2. run.phase = "review"
    BY <2>1 DEF InPhase
  <2>3. run'.task = run.task /\ run'.phase = run.phase
    BY <2>1 DEF RunRow
  <2>4. exec'.step \in {"synthesis", "none"}
    <3>1. CASE exec' = [exec EXCEPT !.step = "synthesis", !.panel = exec.panel]
      BY <3>1 DEF ExecRow
    <3>2. CASE exec' = Idle
      BY <3>2 DEF Idle
    <3> QED
      BY <2>1, <3>1, <3>2
  <2> QED
    BY <2>1, <2>2, <2>3, <2>4, PlainPhase DEF InPhase
<1> QED
  BY <1>1, <1>2, <1>3, <1>4, <1>5

\* The backup writer takes the rewrite over with its order, and without a panel.
LEMMA TakeoverDecides ==
  ASSUME Stepping, WriterTakenOver
  PROVE  Decided'
<1> USE RowsHere
<1>1. /\ exec.step \in {"draft", "rewrite"} /\ gate' = gate /\ version' = version /\ orders' = orders
      /\ exec' = [exec EXCEPT !.step = "loop", !.panel = 0]
      /\ run' = [run EXCEPT !.writer = "backup", !.taken = 1, !.panel = 0,
                   !.phase = IF Step("draft") THEN "context" ELSE "rewrite"]
  BY DEF WriterTakenOver, Continue, texts
<1>2. /\ run'.task = run.task /\ run'.text = run.text /\ run'.panel = 0 /\ run'.epoch = run.epoch
      /\ run'.phase = IF Step("draft") THEN "context" ELSE "rewrite"
  BY <1>1 DEF RunRow
<1>3. run.phase \in {"draft", "rewrite"} /\ (run'.phase = "rewrite" => run.phase = "rewrite")
  BY <1>1, <1>2 DEF InPhase, Step
<1>4. InPhase'
  BY <1>1 DEF ExecRow, InPhase
<1>5. Merited'
  BY <1>2 DEF Merited
<1>6. Caused'
  <2> SUFFICES ASSUME run'.phase = "rewrite", run'.epoch = "held", run'.task \in DOMAIN task'
               PROVE  /\ run.text # 0
                      /\ \/ run.text \in orders /\ Passed(run.text)
                         \/ FailedCheck(run.text)
                         \/ task'[run.task].op = "rewrite_existing"
    BY <1>1, <1>2 DEF Caused, FailedCheck, Passed
  <2>1. exec # Idle
    BY <1>1 DEF Idle
  <2>2. run.task \in DOMAIN task
    BY <2>1, ExecutingFacts DEF Stepping
  <2> QED
    BY <1>2, <1>3, <2>2 DEF Stepping, Decided, Caused, RecordsStand, TasksStand
<1> QED
  BY <1>1, <1>2, <1>3, <1>4, <1>5, <1>6, RunMoves

\* A text that fails its hard checks is rewritten because it failed.
LEMMA HardCheckDecides ==
  ASSUME Stepping, HardCheck
  PROVE  Decided'
<1> USE RowsHere
<1>1. /\ run.phase = "hard_check" /\ run.text # 0 /\ exec # Idle
      /\ IF ~Sound(run.text) /\ RepairIsOver
         THEN RestoreAncestor([version EXCEPT ![run.text] = WithCheck(@)])
         ELSE /\ version' = [version EXCEPT ![run.text] = WithCheck(@)]
              /\ Continue([run EXCEPT !.phase = IF ~Sound(run.text) THEN "rewrite"
                             ELSE IF Op = "trial" THEN "completed" ELSE "review"])
              /\ gate' = gate
  BY DEF HardCheck, Phase, Step, Idle
<1>2. run.text \in Texts /\ version[run.text] \in TextRow
  BY <1>1, ExecutingFacts DEF Stepping
<1>3. CASE ~Sound(run.text) /\ RepairIsOver
  <2>1. \/ gate' = gate /\ exec' = Idle /\ run' = [run EXCEPT !.status = "failed"]
        \/ /\ gate' = gate /\ exec' = [exec EXCEPT !.step = "loop", !.panel = 0]
           /\ \E a : run' = [run EXCEPT !.text = a, !.panel = 0, !.phase = "review"]
    BY <1>1, <1>3 DEF RestoreAncestor, Throw, Continue
  <2>2. run'.task = run.task /\ run'.phase \in {"hard_check", "review"}
    BY <1>1, <2>1 DEF RunRow
  <2>3. exec'.step \in {"loop", "none"}
    <3>1. CASE exec' = [exec EXCEPT !.step = "loop", !.panel = 0]
      BY <3>1 DEF ExecRow
    <3>2. CASE exec' = Idle
      BY <3>2 DEF Idle
    <3> QED
      BY <2>1, <3>1, <3>2
  <2> QED
    BY <1>1, <2>1, <2>2, <2>3, PlainPhase DEF InPhase
<1>4. CASE Sound(run.text)
  <2>1. /\ gate' = gate /\ exec' = [exec EXCEPT !.step = "loop", !.panel = 0]
        /\ \E phase \in {"completed", "review"} : run' = [run EXCEPT !.phase = phase]
    BY <1>1, <1>4 DEF Continue
  <2> QED
    BY <1>1, <2>1, PlainPhase DEF RunRow, ExecRow, InPhase
<1>5. CASE ~Sound(run.text) /\ ~RepairIsOver
  <2>1. /\ gate' = gate /\ exec' = [exec EXCEPT !.step = "loop", !.panel = 0]
        /\ run' = [run EXCEPT !.phase = "rewrite"] /\ version' = [version EXCEPT ![run.text] = WithCheck(@)]
    BY <1>1, <1>5 DEF Continue
  <2>2. run'.task = run.task /\ run'.text = run.text /\ run'.phase = "rewrite"
    BY <2>1 DEF RunRow
  <2>3. version'[run.text].failed /\ ~version'[run.text].latest
    <3>1. version'[run.text] = WithCheck(version[run.text])
      BY <1>2, <2>1 DEF Texts
    <3> QED
      BY <1>2, <1>5, <3>1, TextChecked DEF Sound
  <2>4. Merited' /\ Caused'
    BY <1>1, <2>2, <2>3 DEF Merited, Caused, LatestPassed, FailedCheck
  <2>5. InPhase'
    BY <2>1 DEF ExecRow, InPhase
  <2> QED
    BY <1>1, <2>1, <2>2, <2>4, <2>5, RunMoves
<1> QED
  BY <1>3, <1>4, <1>5

\* What a merge sends to the gate, or back to the writer, is shown with the panel that
\* was merged; a best text that is restored, with a recorded panel of its own.
LEMMA MergeDecides ==
  ASSUME Stepping, Merge
  PROVE  Decided'
<1> USE RowsHere
<1>1. PICK o \in Outcomes :
        IF RetainsBest(o) /\ Op # "review_existing" THEN RestoreBest(o) ELSE FollowVerdict(o)
  BY DEF Merge
<1>2. exec # Idle /\ Step("synthesis") /\ run.phase = "review"
  BY DEF Merge, Step, Idle, InPhase
<1>3. /\ run.text \in Texts /\ run.text # 0 /\ run.panel \in DOMAIN panel /\ panel[run.panel].text = run.text
      /\ Recorded(o)[run.panel].full /\ Recorded(o)[run.panel].merged /\ version'[run.text].passed
  <2>1. /\ run.text \in Texts /\ Passed(run.text) /\ run.panel \in DOMAIN panel
        /\ panel[run.panel].text = run.text
        /\ Recorded(o)[run.panel].full /\ Recorded(o)[run.panel].merged
    BY <1>2, SynthesizedKept DEF Stepping
  <2> QED
    BY <2>1, Tables DEF Stepping, Inductive, RecordsStand, Texts, Passed
<1>4. CASE \E v : /\ run' = [run EXCEPT !.text = v, !.status = "failed"] \/ run' = [run EXCEPT !.status = "failed"]
                  /\ exec' = Idle /\ gate' = gate
  <2>1. run'.task = run.task /\ run'.phase = "review"
    BY <1>2, <1>4 DEF RunRow
  <2>2. InPhase'
    BY <1>4 DEF InPhase, Idle
  <2> QED
    BY <1>2, <1>4, <2>1, <2>2, PlainPhase
<1>5. CASE /\ run' = [run EXCEPT !.text = best, !.panel = SnapshotOf(best), !.phase = "facts"]
           /\ exec' = [exec EXCEPT !.step = "loop", !.panel = 0] /\ gate' = gate
  <2>1. /\ run'.task = run.task /\ run'.text = best /\ run'.panel = SnapshotOf(best) /\ run'.phase = "facts"
    BY <1>5 DEF RunRow
  <2>2. SnapshotOf(best) # 0 =>
          /\ SnapshotOf(best) \in DOMAIN panel /\ panel[SnapshotOf(best)].text = best
          /\ panel[SnapshotOf(best)].recorded
    <3> DEFINE S == {p \in PanelsOf(best) : panel[p].recorded}
    <3>1. Len(panel) \in Nat /\ S \subseteq 1 .. Len(panel)
      BY Tables DEF PanelsOf, Stepping, Inductive
    <3>2. SnapshotOf(best) = Nearest(S)
      BY DEF SnapshotOf
    <3> HIDE DEF S
    <3>3. SnapshotOf(best) # 0 => SnapshotOf(best) \in S
      BY <3>1, <3>2, NearestIsOne
    <3> QED
      BY <3>3 DEF S, PanelsOf
  <2>3. Merited'
    BY <2>1, <2>2 DEF Merited, Stepping, Inductive, Checked, RecordsStand
  <2>4. Caused'
    BY <2>1 DEF Caused
  <2>5. InPhase'
    BY <1>5 DEF InPhase, ExecRow
  <2> QED
    BY <1>2, <1>5, <2>1, <2>3, <2>4, <2>5, RunMoves
<1>6. CASE \E phase \in {"rewrite", "facts"} :
             /\ run' = [run EXCEPT !.phase = phase] /\ (phase = "rewrite" => run.text \in orders')
             /\ exec' = [exec EXCEPT !.step = "loop", !.panel = 0] /\ gate' = gate
             /\ panel' = Recorded(o)
  <2>1. /\ run'.task = run.task /\ run'.text = run.text /\ run'.panel = run.panel
        /\ run'.phase = "rewrite" => run.text \in orders'
    <3>1. PICK phase \in {"rewrite", "facts"} :
            run' = [run EXCEPT !.phase = phase] /\ (phase = "rewrite" => run.text \in orders')
      BY <1>6
    <3> QED
      BY <3>1 DEF RunRow
  <2>2. Merited'
    BY <1>3, <1>6, <2>1 DEF Merited, Stepping, RecordsStand
  <2>3. Caused'
    BY <1>3, <2>1 DEF Caused, Passed
  <2>4. InPhase'
    BY <1>6 DEF InPhase, ExecRow
  <2> QED
    BY <1>2, <1>6, <2>1, <2>2, <2>3, <2>4, RunMoves
<1>7. CASE RestoreBest(o)
  <2>1. CASE o.hard
    BY <1>4, <1>7, <2>1 DEF RestoreBest, Throw
  <2>2. CASE ~o.hard
    BY <1>5, <1>7, <2>2 DEF RestoreBest, Continue
  <2> QED
    BY <2>1, <2>2
<1>8. CASE FollowVerdict(o)
  <2>1. CASE o.verdict = "blocked" /\ o.hard
    BY <1>4, <1>8, <2>1 DEF FollowVerdict, Throw
  <2>2. CASE ~(o.verdict = "blocked" /\ o.hard)
    <3> DEFINE phase == IF o.verdict = "rewrite" /\ Op # "review_existing" /\ run.rewrites < 2
                        THEN "rewrite" ELSE "facts"
    <3>1. /\ run' = [run EXCEPT !.phase = phase] /\ orders' = MergedOrders(o)
          /\ exec' = [exec EXCEPT !.step = "loop", !.panel = 0] /\ gate' = gate /\ panel' = Recorded(o)
      BY <1>8, <2>2 DEF FollowVerdict, Continue
    <3>2. phase \in {"rewrite", "facts"}
      OBVIOUS
    <3>3. phase = "rewrite" => run.text \in orders'
      BY <3>1 DEF MergedOrders, RunRow
    <3> HIDE DEF phase
    <3> QED
      BY <1>6, <3>1, <3>2, <3>3
  <2> QED
    BY <2>1, <2>2
<1> QED
  BY <1>1, <1>7, <1>8

\* A gate is opened for a text that passed, with its own panel.
LEMMA FactsDecide ==
  ASSUME Stepping, Facts
  PROVE  Decided'
<1> USE RowsHere
<1> DEFINE v == run.text
<1>1. /\ exec # Idle /\ run.phase = "facts" /\ v # 0 /\ run.panel # 0
      /\ gate' = [gate EXCEPT ![v] = [status |-> "awaiting", panel |-> run.panel,
                    task |-> exec.task, canon |-> run.canon, open |-> TRUE]]
      /\ run' = [run EXCEPT !.gated = TRUE, !.phase = "settlement"]
      /\ exec' = [exec EXCEPT !.step = "loop", !.panel = 0]
  BY DEF Facts, Phase, Step, Reviewed, Continue, Idle
<1>2. /\ run'.task = run.task /\ run'.text = v /\ run'.panel = run.panel /\ run'.phase = "settlement"
      /\ run.task \in DOMAIN task /\ exec.task = run.task /\ run.panel \in DOMAIN panel /\ v \in DOMAIN gate
  <2>1. run.task \in DOMAIN task /\ exec.task = run.task
    BY <1>1, ExecutingFacts DEF Stepping
  <2>2. /\ run.panel \in Nat /\ run.panel <= Len(panel) /\ v \in Nat /\ v <= Len(version)
        /\ Len(version) <= MaxTexts /\ DOMAIN gate = 1 .. MaxTexts
    BY DEF Stepping, Inductive, Rows, References, RunRow
  <2>3. run.panel \in DOMAIN panel /\ v \in DOMAIN gate
    BY <1>1, <2>1, <2>2, Tables DEF Stepping, Inductive
  <2> QED
    BY <1>1, <2>1, <2>3 DEF RunRow
<1>3. panel[run.panel].text = v /\ panel[run.panel].full /\ panel[run.panel].merged
  BY <1>1 DEF Stepping, Inductive, Checked, Decided, Merited
<1>4. /\ run.panel \in DOMAIN panel' /\ panel'[run.panel].text = v
      /\ panel'[run.panel].full /\ panel'[run.panel].merged
  BY <1>2, <1>3 DEF Stepping, RecordsStand
<1>5. \A t \in DOMAIN task : t \in DOMAIN task'
  BY DEF Stepping, RecordsStand, TasksStand
<1>6. Offered'
  <2> SUFFICES ASSUME NEW w \in Awaiting'
               PROVE  /\ gate'[w].task \in DOMAIN task' /\ gate'[w].panel \in DOMAIN panel'
                      /\ panel'[gate'[w].panel].text = w /\ panel'[gate'[w].panel].full
                      /\ panel'[gate'[w].panel].merged
                      /\ gate'[w].task = run'.task => /\ run'.text = w /\ run'.panel = gate'[w].panel
                                                      /\ run'.phase \in {"settlement", "completed"}
    BY DEF Offered
  <2>1. CASE w = v
    <3>1. gate'[v].task = run.task /\ gate'[v].panel = run.panel
      BY <1>1, <1>2
    <3> QED
      BY <1>2, <1>4, <1>5, <2>1, <3>1
  <2>2. CASE w # v
    <3>1. gate'[w] = gate[w] /\ w \in Awaiting
      BY <1>1, <2>2 DEF Awaiting
    <3>2. /\ gate[w].task \in DOMAIN task /\ gate[w].task # run.task /\ gate[w].panel \in DOMAIN panel
          /\ panel[gate[w].panel].text = w /\ panel[gate[w].panel].full /\ panel[gate[w].panel].merged
      BY <1>1, <3>1 DEF Stepping, Decided, Offered
    <3> QED
      BY <1>2, <1>5, <3>1, <3>2 DEF Stepping, RecordsStand
  <2> QED
    BY <2>1, <2>2
<1>7. Merited' /\ Caused'
  BY <1>2 DEF Merited, Caused
<1>8. InPhase'
  BY <1>1 DEF InPhase, ExecRow
<1> QED
  BY <1>6, <1>7, <1>8 DEF Decided

LEMMA SettleDecides ==
  ASSUME Stepping, Settle
  PROVE  Decided'
<1> USE RowsHere
<1>1. /\ gate' = gate /\ run' = [run EXCEPT !.phase = "completed"]
      /\ exec' = [exec EXCEPT !.step = "loop", !.panel = 0]
  BY DEF Settle, Continue
<1>2. /\ run'.task = run.task /\ run'.text = run.text /\ run'.panel = run.panel /\ run'.phase = "completed"
  BY <1>1 DEF RunRow
<1>3. Offered'
  BY <1>1, <1>2, OffersKept DEF Awaiting
<1>4. Merited' /\ Caused'
  BY <1>2 DEF Merited, Caused
<1>5. InPhase'
  BY <1>1 DEF InPhase, ExecRow
<1> QED
  BY <1>3, <1>4, <1>5 DEF Decided

\* A rewrite that changes nothing, and one that is refused.
LEMMA UnchangedDecides ==
  ASSUME Stepping, exec.step = "candidate", Unchanged
  PROVE  Decided'
<1> USE RowsHere
<1>1. exec # Idle /\ run.phase = "rewrite" /\ run.text # 0
  BY DEF Idle, InPhase, Stepping, Inductive, Executing
<1>2. CASE ~LatestPassed(run.text)
  <2>1. RestoreAncestor(version)
    BY <1>2 DEF Unchanged
  <2>2. CASE NearestPassed(run.text) = 0
    <3>1. /\ run' = [run EXCEPT !.status = "failed"] /\ exec' = Idle
          /\ UNCHANGED <<gate, version, orders>>
      BY <2>1, <2>2 DEF RestoreAncestor, Throw
    <3>2. /\ run'.task = run.task /\ run'.text = run.text /\ run'.panel = run.panel
          /\ run'.phase = run.phase /\ run'.epoch = run.epoch
      BY <3>1 DEF RunRow
    <3>3. InPhase' /\ SameChecks
      BY <3>1 DEF InPhase, Idle, SameChecks
    <3> QED
      BY <3>1, <3>2, <3>3, PlaceKept DEF Awaiting
  <2>3. CASE NearestPassed(run.text) # 0
    <3>1. /\ \E a : run' = [run EXCEPT !.text = a, !.panel = 0, !.phase = "review"]
          /\ exec' = [exec EXCEPT !.step = "loop", !.panel = 0] /\ gate' = gate
      BY <2>1, <2>3 DEF RestoreAncestor, Continue
    <3>2. run'.task = run.task /\ run'.phase = "review"
      BY <3>1 DEF RunRow
    <3>3. InPhase'
      BY <3>1 DEF InPhase, ExecRow
    <3> QED
      BY <1>1, <3>1, <3>2, <3>3, PlainPhase
  <2> QED
    BY <2>2, <2>3
<1>3. CASE LatestPassed(run.text)
  <2> DEFINE phase == IF run.rewrites = 0 THEN "rewrite" ELSE "facts"
  <2>1. /\ run' = [run EXCEPT !.rewrites = Spent, !.phase = phase]
        /\ orders' = IF run.rewrites = 0 THEN orders ELSE orders \ {run.text}
        /\ exec' = [exec EXCEPT !.step = "loop", !.panel = 0]
        /\ UNCHANGED <<version, gate>>
    BY <1>3 DEF Unchanged, Continue
  <2>2. phase \in {"rewrite", "facts"} /\ (phase = "rewrite" => run.rewrites = 0)
    OBVIOUS
  <2> HIDE DEF phase
  <2>3. /\ run'.task = run.task /\ run'.text = run.text /\ run'.panel = run.panel
        /\ run'.phase = phase /\ run'.epoch = run.epoch
    BY <2>1 DEF RunRow
  <2>4. InPhase' /\ SameChecks
    BY <2>1 DEF InPhase, ExecRow, SameChecks
  <2>5. CASE phase = "rewrite"
    BY <1>1, <2>1, <2>2, <2>3, <2>4, <2>5, PlaceKept DEF Awaiting
  <2>6. CASE phase = "facts"
    <3>1. run.panel # 0 => run.panel \in DOMAIN panel
      BY Tables DEF Stepping, Inductive, References, RunRow
    <3>2. Merited' /\ Caused'
      BY <1>1, <1>3, <2>1, <2>3, <2>6, <3>1 DEF Merited, Caused, Stepping, Decided, RecordsStand
    <3> QED
      BY <1>1, <2>1, <2>3, <2>4, <3>2, RunMoves
  <2> QED
    BY <2>2, <2>5, <2>6
<1> QED
  BY <1>2, <1>3

LEMMA CandidateDecides ==
  ASSUME Stepping, exec.step = "candidate", NEW vs \in Seq(TextRow),
         NEW c \in 1 .. Len(vs), c # run.text, \A u \in Texts : vs[u] = version[u],
         Len(version) <= Len(vs), Candidate(vs, c)
  PROVE  Decided'
<1> USE RowsHere
<1> DEFINE v == run.text
           accept == ~LatestPassed(v) \/ Verdict(vs[c]) = "sound"
           repair == run.rewrites = 1 /\ Verdict(vs[c]) = "near"
<1>1. exec # Idle /\ run.phase = "rewrite" /\ v # 0
  BY DEF Idle, InPhase, Stepping, Inductive, Executing
<1>2. /\ v \in Texts /\ c \in DOMAIN vs /\ vs[c] \in TextRow /\ v \in DOMAIN vs
  <2>1. v \in Texts /\ Texts = 1 .. Len(version) /\ Len(version) \in Nat
    BY <1>1, ExecutingFacts, Tables DEF Stepping, Inductive, Texts
  <2>2. Len(vs) \in Nat /\ DOMAIN vs = 1 .. Len(vs) /\ \A u \in 1 .. Len(vs) : vs[u] \in TextRow
    OBVIOUS
  <2> QED
    BY <2>1, <2>2
<1>3. gate' = gate /\ exec' = [exec EXCEPT !.step = "loop", !.panel = 0]
  BY DEF Candidate, Continue
<1>4. InPhase'
  BY <1>3 DEF InPhase, ExecRow
<1>5. CASE accept
  <2>1. run' = [run EXCEPT !.text = c, !.rewrites = Spent, !.phase = "hard_check"]
    BY <1>5 DEF Candidate, Continue
  <2>2. run'.task = run.task /\ run'.phase = "hard_check"
    BY <2>1 DEF RunRow
  <2> QED
    BY <1>1, <1>3, <1>4, <2>2, PlainPhase
<1>6. CASE ~accept /\ repair
  <2>1. /\ run' = [run EXCEPT !.text = c, !.rewrites = Spent, !.phase = "rewrite"]
        /\ version' = [vs EXCEPT ![c] = WithCheck(@)]
    BY <1>6 DEF Candidate, Continue
  <2>2. run'.task = run.task /\ run'.phase = "rewrite" /\ run'.text = c
    BY <2>1 DEF RunRow
  <2>3. version'[c].failed /\ ~version'[c].latest
    <3>1. version'[c] = WithCheck(vs[c])
      BY <1>2, <2>1
    <3> QED
      BY <1>2, <1>6, <3>1, TextChecked
  <2>4. Merited' /\ Caused'
    BY <2>2, <2>3, <1>2, Tables DEF Merited, Caused, LatestPassed, FailedCheck, Stepping, Inductive
  <2> QED
    BY <1>1, <1>3, <1>4, <2>2, <2>4, RunMoves
<1>7. CASE ~accept /\ ~repair
  <2> DEFINE phase == IF run.rewrites = 0 THEN "rewrite" ELSE "facts"
  <2>1. /\ run' = [run EXCEPT !.text = v, !.rewrites = Spent, !.phase = phase]
        /\ version' = [vs EXCEPT ![c] = WithCheck([@ EXCEPT !.status = "rejected"])]
        /\ run.rewrites = 0 => orders' = orders
    <3>1. orders' = IF run.rewrites > 0 THEN orders \ {v} ELSE orders
      BY <1>7 DEF Candidate
    <3>2. run' = [run EXCEPT !.text = v, !.rewrites = Spent,
                    !.phase = IF run.rewrites = 0 THEN "rewrite" ELSE "facts"]
      BY <1>7 DEF Candidate, Continue
    <3>3. version' = [vs EXCEPT ![c] = WithCheck([@ EXCEPT !.status = "rejected"])]
      BY <1>7 DEF Candidate
    <3> QED
      BY <3>1, <3>2, <3>3 DEF RunRow
  <2>2. phase \in {"rewrite", "facts"} /\ (phase = "rewrite" => run.rewrites = 0)
    OBVIOUS
  <2> HIDE DEF phase
  <2>3. /\ run'.task = run.task /\ run'.text = v /\ run'.panel = run.panel
        /\ run'.phase = phase /\ run'.epoch = run.epoch
    BY <2>1 DEF RunRow
  <2>4. version'[v] = version[v] /\ LatestPassed(v)
    BY <1>2, <1>7, <2>1
  <2>5. CASE phase = "rewrite"
    BY <1>1, <1>3, <1>4, <2>1, <2>2, <2>3, <2>4, <2>5, PlaceKept DEF Awaiting, SameChecks
  <2>6. CASE phase = "facts"
    <3>1. run.panel # 0 => run.panel \in DOMAIN panel
      BY Tables DEF Stepping, Inductive, References, RunRow
    <3>2. Merited' /\ Caused'
      BY <1>1, <2>3, <2>4, <2>6, <3>1 DEF Merited, Caused, Stepping, Decided, RecordsStand
    <3> QED
      BY <1>1, <1>3, <1>4, <2>3, <3>2, RunMoves
  <2> QED
    BY <2>2, <2>5, <2>6
<1> QED
  BY <1>5, <1>6, <1>7

LEMMA RewriteDecides ==
  ASSUME Stepping, RewritePromoted
  PROVE  Decided'
<1>1. exec.step = "candidate" /\ exec # Idle
  BY DEF RewritePromoted, Step, Idle
<1>2. run.text \in Nat
  BY DEF Stepping, Inductive, Rows, RunRow
<1>3. PICK promoted \in Promoted(run.text) :
        IF promoted[2] = run.text THEN Unchanged ELSE Candidate(promoted[1], promoted[2])
  BY DEF RewritePromoted
<1>4. /\ promoted[1] \in Seq(TextRow) /\ Len(version) <= Len(promoted[1])
      /\ promoted[2] \in 1 .. Len(promoted[1]) /\ \A v \in Texts : promoted[1][v] = version[v]
  BY <1>1, <1>2, PromotedKept DEF Stepping
<1>5. CASE promoted[2] = run.text
  BY <1>1, <1>3, <1>5, UnchangedDecides
<1>6. CASE promoted[2] # run.text
  BY <1>1, <1>3, <1>4, <1>6, CandidateDecides
<1> QED
  BY <1>5, <1>6
-----------------------------------------------------------------------------
(* Claims and refusals.                                                    *)

\* A fresh run is of a task without a gate; a resumed one stays where it failed.
LEMMA ClaimDecides ==
  ASSUME Stepping, NEW t \in DOMAIN task, Claim(t) \/ ClaimRefused(t)
  PROVE  Decided'
<1> USE RowsHere
<1>1. /\ gate' = gate /\ version' = version /\ orders' = orders /\ exec'.step \in {"loop", "none"}
  <2>1. exec = Idle
    BY DEF Claim, ClaimRefused, Claimable
  <2>2. UNCHANGED <<gate, version, orders>> /\ exec' \in {exec, [Idle EXCEPT !.task = t, !.step = "loop"]}
    BY DEF Claim, ClaimRefused, texts
  <2>3. exec.step = "none" /\ [Idle EXCEPT !.task = t, !.step = "loop"].step = "loop"
    BY <2>1 DEF Idle
  <2> QED
    BY <2>2, <2>3
<1>2. InPhase' /\ SameChecks
  BY <1>1 DEF InPhase, SameChecks
<1>3. t \in Nat \ {0}
  BY Tables DEF Stepping, Inductive
<1>4. CASE run.task # t /\ \E n : run' = FreshRun(t, n)
  <2>1. run'.task = t /\ run'.phase = "preflight"
    BY <1>4 DEF FreshRun
  <2>2. Offered'
    BY <1>1, <1>4, <2>1, OffersKept DEF Awaiting
  <2> QED
    BY <1>2, <2>1, <2>2 DEF Decided, Merited, Caused
<1>5. CASE \E st : run' = [run EXCEPT !.status = st]
  <2>1. /\ run'.task = run.task /\ run'.text = run.text /\ run'.panel = run.panel
        /\ run'.phase = run.phase /\ run'.epoch = run.epoch
    BY <1>5 DEF RunRow
  <2> QED
    BY <1>1, <1>2, <2>1, PlaceKept DEF Awaiting
<1>6. CASE /\ run.phase = "facts"
           /\ run' = [run EXCEPT !.phase = "review"] \/ run' = [run EXCEPT !.phase = "review", !.status = "working"]
  <2>1. run'.task = run.task /\ run'.phase = "review"
    BY <1>6 DEF RunRow
  <2> QED
    BY <1>1, <1>2, <1>6, <2>1, PlainPhase
<1>7. \/ run.task # t /\ \E n : run' = FreshRun(t, n)
      \/ run' = run
      \/ \E r \in {Converted, [Converted EXCEPT !.status = "working"]} : run' = r
  BY <1>3 DEF Claim, ClaimRefused, Replaces
<1>8. run = [run EXCEPT !.status = run.status]
  BY DEF RunRow
<1>9. CASE Converted = run
  BY <1>4, <1>5, <1>7, <1>8, <1>9
<1>10. CASE Converted = [run EXCEPT !.phase = "review"] /\ run.phase = "facts"
  <2>1. [Converted EXCEPT !.status = "working"] = [run EXCEPT !.phase = "review", !.status = "working"]
    BY <1>10
  <2> QED
    BY <1>4, <1>5, <1>6, <1>7, <1>8, <1>10, <2>1
<1> QED
  BY <1>9, <1>10 DEF Converted

\* The author refuses the text the run stands at, and orders its rewrite.
LEMMA RejectDecides ==
  ASSUME Stepping, NEW v \in Texts, Reject(v)
  PROVE  Decided'
<1> USE RowsHere
<1>1. /\ gate \in [1 .. MaxTexts -> GateRow] /\ v \in DOMAIN gate /\ v # 0
  <2>1. gate \in [1 .. MaxTexts -> GateRow] /\ Len(version) <= MaxTexts /\ Texts = 1 .. Len(version)
    BY Tables DEF Stepping, Inductive, Rows, References, Texts
  <2> QED
    BY <2>1, Tables DEF Stepping, Inductive
<1>2. /\ v \in Awaiting /\ run.task = gate[v].task /\ Served
      /\ gate' = [gate EXCEPT ![v].status = "rejected", ![v].open = FALSE]
      /\ UNCHANGED <<version, panel, exec>>
  BY <1>1 DEF Reject, Refused, Awaiting
<1>3. /\ run.text = v /\ run.panel = gate[v].panel /\ run.phase \in {"settlement", "completed"}
      /\ panel[run.panel].text = v /\ panel[run.panel].full /\ panel[run.panel].merged
  BY <1>2 DEF Stepping, Decided, Offered
<1>4. exec = Idle
  BY <1>2, <1>3 DEF Served, Waiting, InPhase
<1>5. InPhase'
  BY <1>2, <1>4 DEF InPhase, Idle
<1>6. \A w \in Awaiting' : w \in Awaiting /\ w # v /\ gate'[w] = gate[w]
  BY <1>1, <1>2 DEF Awaiting, GateRow
<1>7. CASE run' = [run EXCEPT !.phase = "rewrite", !.status = "paused", !.gated = FALSE] /\ orders' = {v}
  <2>1. /\ run'.task = run.task /\ run'.text = run.text /\ run'.panel = run.panel
        /\ run'.phase = "rewrite"
    BY <1>7 DEF RunRow
  <2>2. \A w \in Awaiting' : gate[w].task # run.task
    BY <1>3, <1>6 DEF Stepping, Decided, Offered
  <2>3. Offered'
    BY <1>6, <2>2, OffersKept
  <2>4. Merited'
    BY <1>2, <1>3, <2>1 DEF Merited
  <2>5. Caused'
    <3>1. Passed(v)
      BY <1>2 DEF Stepping, Inductive, Checked
    <3> QED
      BY <1>1, <1>2, <1>3, <1>7, <2>1, <3>1 DEF Caused, Passed
  <2> QED
    BY <1>5, <2>3, <2>4, <2>5 DEF Decided
<1>8. CASE run' = run /\ orders' = orders
  BY <1>2, <1>5, <1>6, <1>8, PlaceKept DEF SameChecks
<1> QED
  BY <1>7, <1>8 DEF Reject
-----------------------------------------------------------------------------
(* The theorems.                                                           *)

LEMMA DecidedKept ==
  Inductive /\ Decided /\ Inductive' /\ RecordsStand /\ [Next]_vars /\ NotReturned => Decided'
<1> SUFFICES ASSUME Inductive, Decided, Inductive', RecordsStand, [Next]_vars, NotReturned PROVE Decided'
  OBVIOUS
<1>1. Stepping
  BY DEF Stepping, Next, vars
<1>2. CASE UNCHANGED vars
  BY <1>1, <1>2, QuietDecide
<1>3. CASE Proceed
  BY <1>1, <1>3, PhasesDecide, FailuresDecide, QuietDecide, HardCheckDecides, MergeDecides,
     RewriteDecides, FactsDecide, SettleDecides, EndsDecide DEF Proceed
<1>4. CASE Fail
  BY <1>1, <1>4, FailuresDecide, TakeoverDecides DEF Fail
<1>5. CASE Runtime
  BY <1>1, <1>5, ClaimDecides, EndsDecide, CutsDecide, QuietDecide DEF Runtime
<1>6. CASE Author
  BY <1>1, <1>6, QuietDecide, AuthorDecide, RejectDecides DEF Author
<1> QED
  BY <1>2, <1>3, <1>4, <1>5, <1>6 DEF Next, Execute

LEMMA DecidedHolds == Spec /\ [][NotReturned]_vars => []Decided
<1>1. UNCHANGED vars => NotReturned
  BY DEF vars, NotReturned
<1>2. Inductive /\ [Next]_vars => Inductive' /\ RecordsStand
  BY NextKeeps, KeptStands
<1>3. Inductive /\ Decided /\ Inductive' /\ [Next]_vars /\ [NotReturned]_vars => Decided'
  BY <1>1, <1>2, DecidedKept
<1> QED
  BY <1>3, DecidedInit, InductiveHolds, PTL DEF Spec

\* As long as no task with a gate takes the run back, what the author is asked to accept
\* once passed its hard checks and comes with a finished review of that text: no best text
\* or ancestor a recovery restored is shown under the panel of the text it replaced.
THEOREM GatesReviewed == Spec /\ [][NotReturned]_vars => []GatesAreReviewed
<1>1. Inductive /\ Decided => GatesAreReviewed
  BY DEF Inductive, Checked, Decided, Offered, GatesAreReviewed
<1> QED
  BY <1>1, InductiveHolds, DecidedHolds, PTL

\* As long as no task with a gate takes the run back, at most one text can become canon
\* at any moment.
THEOREM OneIsAcceptable == Spec /\ [][NotReturned]_vars => []OneAcceptable
<1>1. Inductive /\ Decided => OneAcceptable
  <2> SUFFICES ASSUME Inductive, Decided, NEW v \in Texts, NEW w \in Texts, Acceptable(v), Acceptable(w)
               PROVE  v = w
    BY DEF OneAcceptable
  <2>1. Texts \subseteq DOMAIN gate
    <3>1. /\ Texts = 1 .. Len(version) /\ Len(version) <= MaxTexts /\ Len(version) \in Nat /\ MaxTexts \in Nat
          /\ DOMAIN gate = 1 .. MaxTexts
      BY Tables DEF Inductive, Rows, References, Texts
    <3> QED
      BY <3>1
  <2>2. v \in Awaiting /\ w \in Awaiting /\ gate[v].task = run.task /\ gate[w].task = run.task
    BY <2>1 DEF Acceptable, Awaiting
  <2> QED
    BY <2>2 DEF Decided, Offered
<1> QED
  BY <1>1, InductiveHolds, DecidedHolds, PTL

\* As long as no task with a gate takes the run back, every rewrite that begins has a cause
\* on record: an order, a failed check of the text, or the instruction of the author.
THEOREM RewritesCaused == Spec /\ [][NotReturned]_vars => []RewritesHaveACause
<1>1. Inductive /\ Decided => RewritesHaveACause
  <2> SUFFICES ASSUME Inductive, Decided, Phase("rewrite"), run.epoch = "held"
               PROVE  run.text \in orders \/ FailedCheck(run.text) \/ Op = "rewrite_existing"
    BY DEF RewritesHaveACause
  <2>1. exec # Idle /\ run.phase = "rewrite"
    BY DEF Phase, Step, Idle
  <2>2. run.task \in DOMAIN task /\ exec.task = run.task
    BY <2>1, ExecutingFacts
  <2> QED
    BY <2>1, <2>2 DEF Decided, Caused, Op
<1> QED
  BY <1>1, InductiveHolds, DecidedHolds, PTL
-----------------------------------------------------------------------------
(* What is asked is what is shown.                                         *)

\* Only the newest task of the chapter is executed: no older one is retried.
NewestFirst == exec = Idle /\ exec' # Idle => exec'.task = Len(task)

Newest == Len(task)
Matches(v) == chapter.current \in {0, v} \/ version[chapter.current].author = "owner"

\* The newest task is the only one at work or awaiting the author; the run is about the
\* text the chapter shows, or revises canon, and so will the one that is still to begin.
\* A restoration that was cut off shows the ancestor while the run is about the text it
\* rejected.
Alone ==
  /\ exec # Idle => exec.task = Newest
  /\ \A t \in DOMAIN task : t # Newest => task[t].status # "waiting_confirmation"
ShownText ==
  run.text # 0 /\ run.text # chapter.canon /\ version[run.text].status # "rejected" =>
    Matches(run.text)
ShownNext ==
  Newest # 0 /\ (run.task # Newest \/ run.phase = "preflight") =>
    task[Newest].bound \in {0, chapter.canon} \/ Matches(task[Newest].bound)

Agreed == Alone /\ ShownText /\ ShownNext

LEMMA AgreedInit == Init => Agreed
BY DEF Init, FreshRun, Idle, Agreed, Alone, ShownText, ShownNext, Newest

\* A step of the program where only the newest task is executed.
Ordered == Stepping /\ Agreed /\ NewestFirst

LEMMA SizesHere ==
  ASSUME Ordered
  PROVE  /\ Newest \in Nat /\ Newest' \in Nat /\ DOMAIN task = 1 .. Newest /\ DOMAIN task' = 1 .. Newest'
         /\ Texts = 1 .. Len(version) /\ Len(version) \in Nat
         /\ chapter.current \in Nat /\ chapter.current <= Len(version)
         /\ run.task \in Nat /\ run.task <= Newest /\ run \in RunRow /\ chapter \in ChapterRow
         /\ exec.task # 0 => exec # Idle
<1>1. /\ Len(task) \in Nat /\ Len(task') \in Nat /\ DOMAIN task = 1 .. Len(task)
      /\ DOMAIN task' = 1 .. Len(task') /\ Texts = 1 .. Len(version) /\ Len(version) \in Nat
  <2>1. task \in Seq(TaskRow) /\ task' \in Seq(TaskRow) /\ version \in Seq(TextRow)
    BY DEF Ordered, Stepping, Inductive, Rows
  <2> QED
    BY <2>1 DEF Texts
<1>2. /\ chapter.current \in Nat /\ chapter.current <= Len(version) /\ run.task \in Nat
      /\ run.task <= Len(task) /\ run \in RunRow /\ chapter \in ChapterRow
  BY DEF Ordered, Stepping, Inductive, Rows, References, RunRow, ChapterRow
<1>3. exec.task # 0 => exec # Idle
  BY DEF Idle
<1> QED
  BY <1>1, <1>2, <1>3 DEF Newest

\* No task is new: the newest one stays the only one to work or to await the author.
LEMMA AloneKept ==
  ASSUME Ordered, DOMAIN task' = DOMAIN task, exec' # Idle => exec = Idle \/ exec'.task = exec.task
  PROVE  Newest' = Newest /\ Alone'
<1>1. Newest' = Newest
  BY SizesHere
<1>2. exec' # Idle => exec'.task = Newest
  BY DEF Ordered, NewestFirst, Agreed, Alone, Newest
<1>3. ASSUME NEW t \in DOMAIN task, t # Newest, task'[t].status = "waiting_confirmation" PROVE FALSE
  <2>1. t # exec.task
    BY <1>3, SizesHere DEF Ordered, Agreed, Alone
  <2> QED
    BY <1>3, <2>1 DEF Ordered, Stepping, RecordsStand, TasksStand, Agreed, Alone
<1> QED
  BY <1>1, <1>2, <1>3 DEF Alone

\* Texts keep their authors, so what the chapter shows agrees as before.
LEMMA MatchesKept ==
  ASSUME Ordered, chapter'.current = chapter.current, NEW v, Matches(v)
  PROVE  chapter'.current \in {0, v} \/ version'[chapter'.current].author = "owner"
<1>1. chapter.current # 0 => version'[chapter.current].author = version[chapter.current].author
  BY SizesHere DEF Ordered, Stepping, RecordsStand
<1> QED
  BY <1>1 DEF Matches

\* The chapter shows what it showed, and the run is about the text it was about.
LEMMA StillAgreed ==
  ASSUME Ordered, DOMAIN task' = DOMAIN task, exec' # Idle => exec = Idle \/ exec'.task = exec.task,
         chapter'.current = chapter.current, chapter'.canon = chapter.canon, run'.text \in {0, run.text},
         \/ run'.task = run.task /\ (run'.phase = "preflight" => run.phase = "preflight")
         \/ run'.task # run.task /\ run'.phase = "preflight"
  PROVE  Agreed'
<1>1. Newest' = Newest /\ Alone'
  BY AloneKept
<1>2. \A v : Matches(v) =>
        chapter'.current \in {0, v} \/ version'[chapter'.current].author = "owner"
  BY MatchesKept
<1>3. ShownText'
  <2>1. run.text # 0 => run.text \in Texts
    BY Tables DEF Ordered, Stepping, Inductive, Rows, References, RunRow, Texts
  <2>2. run.text # 0 /\ version'[run.text].status # "rejected" => version[run.text].status # "rejected"
    BY <2>1 DEF Ordered, Stepping, RecordsStand
  <2> QED
    BY <1>2, <2>2 DEF ShownText, Matches, Ordered, Agreed
<1>4. ShownNext'
  <2> SUFFICES ASSUME Newest # 0, run'.task # Newest \/ run'.phase = "preflight"
               PROVE  \/ task'[Newest].bound \in {0, chapter.canon}
                      \/ chapter'.current \in {0, task'[Newest].bound}
                      \/ version'[chapter'.current].author = "owner"
    BY <1>1 DEF ShownNext, Matches, Newest
  <2>1. run.task # Newest \/ run.phase = "preflight"
    <3>1. CASE run'.task = run.task
      BY <3>1
    <3>2. CASE run'.task # run.task
      <4>1. exec = Idle /\ exec' # Idle /\ run'.task = exec'.task
        BY <3>2 DEF Ordered, Stepping, RecordsStand, RunStands
      <4>2. run'.task = Newest
        BY <4>1 DEF Ordered, NewestFirst, Newest
      <4> QED
        BY <3>2, <4>2
    <3> QED
      BY <3>1, <3>2
  <2>2. task[Newest].bound \in {0, chapter.canon} \/ Matches(task[Newest].bound)
    BY <2>1 DEF Ordered, Agreed, ShownNext
  <2>3. task'[Newest].bound = task[Newest].bound
    <3>1. Newest \in DOMAIN task
      BY SizesHere
    <3>2. ~(Newest = run.task /\ run'.phase = "rewrite")
      BY <2>1 
    <3> QED
      BY <3>1, <3>2 DEF Ordered, Stepping, RecordsStand, TasksStand
  <2> QED
    BY <1>2, <2>2, <2>3
<1> QED
  BY <1>1, <1>3, <1>4 DEF Agreed

\* The run comes to be about the text that is shown, or is about canon.
LEMMA ShownAgrees ==
  ASSUME Ordered, DOMAIN task' = DOMAIN task, exec' # Idle => exec = Idle \/ exec'.task = exec.task,
         run'.task = Newest, run'.phase # "preflight",
         run'.text \in {0, chapter'.current, chapter'.canon}
  PROVE  Agreed'
<1>1. Newest' = Newest /\ Alone'
  BY AloneKept
<1>2. ShownText'
  BY DEF ShownText, Matches
<1>3. ShownNext'
  BY <1>1 DEF ShownNext
<1> QED
  BY <1>1, <1>2, <1>3 DEF Agreed

\* The author shows a text of the author's own, or none.
LEMMA OwnAgrees ==
  ASSUME Ordered, DOMAIN task' = DOMAIN task, UNCHANGED <<exec, run>>,
         chapter'.current = 0 \/ version'[chapter'.current].author = "owner"
  PROVE  Agreed'
<1>1. Newest' = Newest /\ Alone'
  BY AloneKept
<1>2. ShownText' /\ ShownNext'
  BY DEF ShownText, ShownNext, Matches
<1> QED
  BY <1>1, <1>2 DEF Agreed

\* What an execution that fails, ends a phase, or waits leaves as it was.
LEMMA ThrowAgrees ==
  ASSUME Ordered, exec # Idle, NEW quality, NEW ps, Throw(quality, run, ps, chapter)
  PROVE  Agreed'
<1>1. DOMAIN task' = DOMAIN task /\ exec' = Idle /\ run' = [run EXCEPT !.status = "failed"]
  BY DEF Throw
<1>2. /\ run'.task = run.task /\ run'.phase = run.phase /\ run'.text = run.text
      /\ chapter'.current = chapter.current /\ chapter'.canon = chapter.canon
  BY <1>1, SizesHere DEF Throw, RunRow, ChapterRow
<1> QED
  BY <1>1, <1>2, StillAgreed

LEMMA ContinueAgrees ==
  ASSUME Ordered, exec # Idle, NEW r, Continue(r), r.task = run.task, r.phase # "preflight",
         \/ /\ r.text = run.text /\ chapter'.current = chapter.current /\ chapter'.canon = chapter.canon
         \/ r.text = chapter'.current
  PROVE  Agreed'
<1>1. DOMAIN task' = DOMAIN task /\ exec'.task = exec.task /\ run' = r
  <2>1. task \in Seq(TaskRow) /\ exec \in ExecRow
    BY DEF Ordered, Stepping, Inductive, Rows
  <2> QED
    BY <2>1 DEF Continue, ExecRow
<1>2. run.task = Newest
  BY ExecutingFacts DEF Ordered, Stepping, Agreed, Alone
<1> QED
  BY <1>1, <1>2, StillAgreed, ShownAgrees

LEMMA WaitAgrees ==
  ASSUME Ordered, exec # Idle, NEW step, NEW pre, Wait(step, pre), UNCHANGED chapter,
         run'.text = run.text, run'.task = run.task, run'.phase = run.phase
  PROVE  Agreed'
<1>1. exec \in ExecRow
  BY DEF Ordered, Stepping, Inductive, Rows
<1>2. UNCHANGED task /\ exec'.task = exec.task
  BY <1>1 DEF Wait, ExecRow
<1> QED
  BY <1>2, StillAgreed

LEMMA FailuresAgree ==
  ASSUME Ordered,
         \/ PreflightBlocked \/ ExecutionThrows \/ WriterBlocked \/ SynthesisBlocked
         \/ SynthesisFails \/ SeatsFail \/ ReviewsExhausted \/ MergeRefused \/ MergedOnly
         \/ CopyrightBlocked
  PROVE  Agreed'
<1>1. exec # Idle
  <2>0. exec = Idle => exec.step = "none"
    BY DEF Idle
  <2>1. CASE PreflightBlocked
    BY <2>0, <2>1 DEF PreflightBlocked, Phase, Step
  <2>2. CASE ExecutionThrows
    BY <2>0, <2>2 DEF ExecutionThrows, Phase, Step
  <2>3. CASE WriterBlocked
    BY <2>0, <2>3 DEF WriterBlocked, Phase, Step
  <2>4. CASE SynthesisBlocked
    BY <2>0, <2>4 DEF SynthesisBlocked, Phase, Step
  <2>5. CASE SynthesisFails
    BY <2>0, <2>5 DEF SynthesisFails, Phase, Step
  <2>6. CASE SeatsFail
    BY <2>0, <2>6 DEF SeatsFail, Phase, Step
  <2>7. CASE ReviewsExhausted
    BY <2>0, <2>7 DEF ReviewsExhausted, Phase, Step
  <2>8. CASE MergeRefused
    BY <2>0, <2>8 DEF MergeRefused, Phase, Step
  <2>9. CASE MergedOnly
    BY <2>0, <2>9 DEF MergedOnly, Phase, Step
  <2>10. CASE CopyrightBlocked
    BY <2>0, <2>10 DEF CopyrightBlocked, Phase, Step
  <2> QED
    BY <2>1, <2>2, <2>3, <2>4, <2>5, <2>6, <2>7, <2>8, <2>9, <2>10
<1>2. \E quality, ps : Throw(quality, run, ps, chapter)
  <2>1. CASE PreflightBlocked
    BY <2>1, Zenon DEF PreflightBlocked
  <2>2. CASE ExecutionThrows
    BY <2>2, Zenon DEF ExecutionThrows
  <2>3. CASE WriterBlocked
    BY <2>3, Zenon DEF WriterBlocked
  <2>4. CASE SynthesisBlocked
    BY <2>4, Zenon DEF SynthesisBlocked
  <2>5. CASE SynthesisFails
    BY <2>5, Zenon DEF SynthesisFails
  <2>6. CASE SeatsFail
    BY <2>6, Zenon DEF SeatsFail
  <2>7. CASE ReviewsExhausted
    BY <2>7, Zenon DEF ReviewsExhausted
  <2>8. CASE MergeRefused
    BY <2>8, Zenon DEF MergeRefused
  <2>9. CASE MergedOnly
    BY <2>9, Zenon DEF MergedOnly
  <2>10. CASE CopyrightBlocked
    BY <2>10, Zenon DEF CopyrightBlocked
  <2> QED
    BY <2>1, <2>2, <2>3, <2>4, <2>5, <2>6, <2>7, <2>8, <2>9, <2>10
<1> QED
  BY <1>1, <1>2, ThrowAgrees

\* Steps that touch neither texts nor what the chapter shows.
LEMMA QuietAgree ==
  ASSUME Ordered,
         \/ SendDraft \/ SendRewrite \/ RewriteReceived \/ OtherChapterSettles \/ RequestSynthesis
         \/ \E t \in DOMAIN task : RetryFailed(t) \/ Resume(t) \/ Cancel(t)
         \/ \E v \in Texts : AlignOutline(v)
         \/ UNCHANGED vars
  PROVE  Agreed'
<1>0. exec \in ExecRow
  BY DEF Ordered, Stepping, Inductive, Rows
<1>1. UNCHANGED <<run, chapter>> /\ DOMAIN task' = DOMAIN task /\ exec'.task = exec.task
  <2>1. CASE SendDraft \/ SendRewrite
    BY <1>0, <2>1 DEF SendDraft, SendRewrite, Wait, ExecRow
  <2>2. CASE RewriteReceived
    BY <1>0, <2>2 DEF RewriteReceived, ExecRow
  <2>3. CASE OtherChapterSettles \/ RequestSynthesis
    BY <2>3 DEF OtherChapterSettles, RequestSynthesis
  <2>4. CASE \E t \in DOMAIN task : RetryFailed(t) \/ Resume(t) \/ Cancel(t)
    BY <2>4 DEF RetryFailed, Resume, Cancel
  <2>5. CASE (\E v \in Texts : AlignOutline(v)) \/ UNCHANGED vars
    BY <2>5 DEF AlignOutline, vars
  <2> QED
    BY <2>1, <2>2, <2>3, <2>4, <2>5
<1> QED
  BY <1>1, StillAgreed

LEMMA EndsAgree ==
  ASSUME Ordered, Close \/ Recover \/ StaleThrows \/ OtherChapterRuns \/ OrderOnly
  PROVE  Agreed'
<1>1. DOMAIN task' = DOMAIN task /\ (exec' = exec \/ exec' = Idle)
  BY DEF Close, Recover, StaleThrows, OtherChapterRuns, OrderOnly, Dies
<1>2. run' = run \/ (\E st : run' = [run EXCEPT !.status = st]) \/ run' = [run EXCEPT !.epoch = "lost"]
  BY DEF Close, Recover, StaleThrows, OtherChapterRuns, OrderOnly, Dies
<1>3. run'.text = run.text /\ run'.task = run.task /\ run'.phase = run.phase
  BY <1>2, SizesHere DEF RunRow
<1>4. chapter' = chapter \/ chapter' = [chapter EXCEPT !.failed = TRUE]
  BY DEF Close, Recover, StaleThrows, OtherChapterRuns, OrderOnly
<1>5. chapter'.current = chapter.current /\ chapter'.canon = chapter.canon
  BY <1>4, SizesHere DEF ChapterRow
<1> QED
  BY <1>1, <1>3, <1>5, StillAgreed

\* A restoration that is cut off leaves the run of the newest task at a text it rejected.
LEMMA CutAgrees ==
  ASSUME Ordered, RestoreOnly
  PROVE  Agreed'
<1>1. Dies /\ exec # Idle /\ run.phase # "preflight" /\ run.text # 0
  BY ExecutingFacts DEF RestoreOnly, Phase, Step, Idle, Ordered, Stepping, Decided, InPhase,
     Inductive, Executing
<1>2. DOMAIN task' = DOMAIN task /\ exec' = Idle /\ run' = run
  BY <1>1 DEF Dies
<1>3. run.task = Newest /\ run.text \in DOMAIN version /\ version[run.text] \in TextRow
  BY <1>1, ExecutingFacts, Tables DEF Ordered, Stepping, Agreed, Alone, Inductive, Texts
<1>4. version'[run.text].status = "rejected"
  <2> DEFINE rejected == [version[run.text] EXCEPT !.status = "rejected"]
  <2>1. \/ version' = [version EXCEPT ![run.text] = WithCheck(rejected)]
        \/ version' = [version EXCEPT ![run.text] = rejected]
    BY <1>3 DEF RestoreOnly
  <2>2. rejected \in TextRow /\ rejected.status = "rejected"
    BY <1>3, TextPlaced
  <2> HIDE DEF rejected
  <2> QED
    BY <1>3, <2>1, <2>2, TextChecked
<1>5. Newest' = Newest /\ Alone'
  BY <1>2, AloneKept
<1>6. ShownText' /\ ShownNext'
  BY <1>1, <1>2, <1>3, <1>4, <1>5 DEF ShownText, ShownNext
<1> QED
  BY <1>5, <1>6 DEF Agreed

\* Phases that write no text.
LEMMA PlainAgree ==
  ASSUME Ordered, exec # Idle,
         Context \/ Settle \/ Facts \/ WriterTakenOver \/ (Unchanged /\ LatestPassed(run.text))
  PROVE  Agreed'
<1>0. run \in RunRow /\ chapter \in ChapterRow
  BY SizesHere
<1>1. /\ chapter'.current = chapter.current /\ chapter'.canon = chapter.canon
      /\ \E r : Continue(r) /\ r.task = run.task /\ r.text = run.text /\ r.phase # "preflight"
  <2>1. CASE Context
    <3> DEFINE r == [run EXCEPT !.phase = "draft"]
    <3>1. Continue(r) /\ chapter' = chapter
      BY <2>1 DEF Context
    <3>2. r.task = run.task /\ r.text = run.text /\ r.phase # "preflight"
      BY <1>0 DEF RunRow
    <3> QED
      BY <3>1, <3>2, Zenon
  <2>2. CASE Settle
    <3> DEFINE r == [run EXCEPT !.phase = "completed"]
    <3>1. Continue(r) /\ chapter' = chapter
      BY <2>2 DEF Settle
    <3>2. r.task = run.task /\ r.text = run.text /\ r.phase # "preflight"
      BY <1>0 DEF RunRow
    <3> QED
      BY <3>1, <3>2, Zenon
  <2>3. CASE Facts
    <3> DEFINE r == [run EXCEPT !.gated = TRUE, !.phase = "settlement"]
    <3>1. Continue(r)
      BY <2>3 DEF Facts
    <3>2. r.task = run.task /\ r.text = run.text /\ r.phase # "preflight"
      BY <1>0 DEF RunRow
    <3>3. chapter' = [chapter EXCEPT !.settle = IF Revising THEN @ ELSE "awaiting"]
      BY <2>3 DEF Facts
    <3>4. chapter'.current = chapter.current /\ chapter'.canon = chapter.canon
      BY <3>3, <1>0 DEF ChapterRow
    <3> QED
      BY <3>1, <3>2, <3>4, Zenon
  <2>4. CASE WriterTakenOver
    <3> DEFINE r == [run EXCEPT !.writer = "backup", !.taken = 1, !.panel = 0,
                       !.phase = IF Step("draft") THEN "context" ELSE "rewrite"]
    <3>1. Continue(r) /\ chapter' = chapter
      BY <2>4 DEF WriterTakenOver
    <3>2. r.task = run.task /\ r.text = run.text /\ r.phase # "preflight"
      BY <1>0 DEF RunRow
    <3> QED
      BY <3>1, <3>2, Zenon
  <2>5. CASE Unchanged /\ LatestPassed(run.text)
    <3> DEFINE r == [run EXCEPT !.rewrites = Spent,
                       !.phase = IF run.rewrites = 0 THEN "rewrite" ELSE "facts"]
    <3>1. Continue(r) /\ chapter' = chapter
      BY <2>5 DEF Unchanged
    <3>2. r.task = run.task /\ r.text = run.text /\ r.phase # "preflight"
      BY <1>0 DEF RunRow
    <3> QED
      BY <3>1, <3>2, Zenon
  <2> QED
    BY <2>1, <2>2, <2>3, <2>4, <2>5
<1> QED
  BY <1>1, ContinueAgrees

LEMMA ReviewsAgree ==
  ASSUME Ordered, OpenPanel \/ SeatsReport
  PROVE  Agreed'
<1>0. run \in RunRow
  BY SizesHere
<1>1. CASE OpenPanel
  <2>1. exec # Idle /\ Wait("seats", run.panel) /\ UNCHANGED chapter /\ \E p : run' = [run EXCEPT !.panel = p]
    BY <1>1 DEF OpenPanel, Phase, Step, Idle
  <2>2. run'.text = run.text /\ run'.task = run.task /\ run'.phase = run.phase
    BY <2>1, <1>0 DEF RunRow
  <2> QED
    BY <2>1, <2>2, WaitAgrees
<1>2. CASE SeatsReport /\ panel[run.panel].asked
  <2>1. exec # Idle /\ Wait("synthesis", exec.panel) /\ UNCHANGED chapter /\ UNCHANGED run
    BY <1>2 DEF SeatsReport, Step, Idle
  <2> QED
    BY <2>1, WaitAgrees
<1>3. CASE SeatsReport /\ ~panel[run.panel].asked
  <2>1. run' = [run EXCEPT !.status = "paused"] /\ exec' = Idle /\ UNCHANGED chapter /\ DOMAIN task' = DOMAIN task
    BY <1>3 DEF SeatsReport
  <2>2. run'.text = run.text /\ run'.task = run.task /\ run'.phase = run.phase
    BY <2>1, <1>0 DEF RunRow
  <2> QED
    BY <2>1, <2>2, StillAgreed
<1> QED
  BY <1>1, <1>2, <1>3

\* The first phase takes up the text of its task.
LEMMA PreflightAgrees ==
  ASSUME Ordered, Preflight
  PROVE  Agreed'
<1>0. run \in RunRow /\ chapter \in ChapterRow /\ exec # Idle /\ run.phase = "preflight"
  BY SizesHere DEF Preflight, Phase, Step, Idle
<1>1. run.task = Newest /\ exec.task = Newest
  BY <1>0, ExecutingFacts DEF Ordered, Stepping, Agreed, Alone
<1>2. CASE chapter.settle = "settled" /\ Op \notin Explicit
  <2> DEFINE r == [run EXCEPT !.phase = "completed"]
  <2>1. Continue(r) /\ chapter' = chapter
    BY <1>2 DEF Preflight
  <2>2. r.task = run.task /\ r.text = run.text /\ r.phase # "preflight"
    BY <1>0 DEF RunRow
  <2> QED
    BY <1>0, <2>1, <2>2, ContinueAgrees
<1>3. CASE ~(chapter.settle = "settled" /\ Op \notin Explicit)
  <2>1. PICK w, ph : /\ Continue([run EXCEPT !.text = Bound, !.epoch = "held", !.writer = w, !.phase = ph])
                     /\ ph \in {"hard_check", "context"}
    <3>1. CASE Op = "review_existing"
      <4>1. Continue([run EXCEPT !.text = Bound, !.epoch = "held",
                        !.writer = version[NearestByModel(Bound)].author, !.phase = "hard_check"])
        BY <1>3, <3>1, Zenon DEF Preflight
      <4> QED
        BY <4>1, Zenon
    <3>2. CASE Op # "review_existing"
      <4>1. Continue([run EXCEPT !.text = Bound, !.epoch = "held", !.writer = run.writer, !.phase = "context"])
        BY <1>3, <3>2 DEF Preflight
      <4> QED
        BY <4>1, Zenon
    <3> QED
      BY <3>1, <3>2
  <2>2. chapter' = [chapter EXCEPT !.failed = FALSE]
    BY <1>3 DEF Preflight
  <2>3. chapter'.current = chapter.current /\ chapter'.canon = chapter.canon
    BY <1>0, <2>2 DEF ChapterRow
  <2>4. DOMAIN task' = DOMAIN task /\ exec' = [exec EXCEPT !.step = "loop", !.panel = 0]
    BY <2>1 DEF Continue
  <2>5. run'.text = Bound /\ run'.task = run.task /\ run'.phase # "preflight"
    BY <2>1, <1>0 DEF Continue, RunRow
  <2>6. exec'.task = exec.task
    BY <1>0, <2>4, ExecutingFacts DEF Ordered, Stepping, ExecRow
  <2>7. Newest' = Newest /\ Alone'
    BY <2>4, <2>6, AloneKept
  <2>8. Bound = task[Newest].bound /\ Newest # 0
    <3>1. exec.task \in DOMAIN task
      BY <1>0, ExecutingFacts DEF Ordered, Stepping
    <3> QED
      BY <3>1, <1>1, SizesHere DEF Bound
  <2>9. Bound \in {0, chapter.canon} \/ Matches(Bound)
    BY <1>0, <2>8 DEF Ordered, Agreed, ShownNext
  <2>10. Matches(Bound) =>
           chapter'.current \in {0, Bound} \/ version'[chapter'.current].author = "owner"
    BY <2>3, MatchesKept
  <2>11. ShownText'
    BY <2>3, <2>5, <2>9, <2>10 DEF ShownText, Matches
  <2>12. ShownNext'
    BY <1>1, <2>5, <2>7 DEF ShownNext
  <2> QED
    BY <2>7, <2>11, <2>12 DEF Agreed
<1> QED
  BY <1>2, <1>3

\* A text that is written, or restored, is shown.
LEMMA DraftAgrees ==
  ASSUME Ordered, DraftAnswered
  PROVE  Agreed'
<1>0. run \in RunRow /\ chapter \in ChapterRow /\ exec # Idle
  BY SizesHere DEF DraftAnswered, Step, Idle
<1>1. PICK v : chapter' = Shown(v) /\ Continue([run EXCEPT !.text = v, !.phase = "hard_check"])
  BY Zenon DEF DraftAnswered
<1> DEFINE r == [run EXCEPT !.text = v, !.phase = "hard_check"]
<1>2. chapter'.current = v
  BY <1>0, <1>1 DEF Shown, ChapterRow
<1>3. r.task = run.task /\ r.text = v /\ r.phase # "preflight"
  BY <1>0 DEF RunRow
<1> QED
  BY <1>0, <1>1, <1>2, <1>3, ContinueAgrees

LEMMA AncestorAgrees ==
  ASSUME Ordered, exec # Idle, NEW vs, RestoreAncestor(vs)
  PROVE  Agreed'
<1>0. run \in RunRow /\ chapter \in ChapterRow
  BY SizesHere
<1>1. CASE NearestPassed(run.text) = 0
  <2>1. Throw(TRUE, run, panel, chapter)
    BY <1>1, Zenon DEF RestoreAncestor
  <2> QED
    BY <2>1, ThrowAgrees
<1>2. CASE NearestPassed(run.text) # 0
  <2> DEFINE a == NearestPassed(run.text)
             r == [run EXCEPT !.text = a, !.panel = 0, !.phase = "review"]
  <2>1. chapter' = Shown(a) /\ Continue(r)
    BY <1>2, Zenon DEF RestoreAncestor
  <2>2. chapter'.current = a
    BY <1>0, <2>1 DEF Shown, ChapterRow
  <2>3. r.task = run.task /\ r.text = a /\ r.phase # "preflight"
    BY <1>0 DEF RunRow
  <2> QED
    BY <2>1, <2>2, <2>3, ContinueAgrees
<1> QED
  BY <1>1, <1>2

LEMMA HardCheckAgrees ==
  ASSUME Ordered, HardCheck
  PROVE  Agreed'
<1>0. run \in RunRow /\ exec # Idle
  BY SizesHere DEF HardCheck, Phase, Step, Idle
<1>1. CASE ~Sound(run.text) /\ RepairIsOver
  <2>1. RestoreAncestor([version EXCEPT ![run.text] = WithCheck(@)])
    BY <1>1, Zenon DEF HardCheck
  <2> QED
    BY <1>0, <2>1, AncestorAgrees
<1>2. CASE ~(~Sound(run.text) /\ RepairIsOver)
  <2> DEFINE r == [run EXCEPT !.phase =
                     IF ~Sound(run.text) THEN "rewrite" ELSE IF Op = "trial" THEN "completed" ELSE "review"]
  <2>1. Continue(r) /\ chapter' = chapter
    BY <1>2 DEF HardCheck
  <2>2. r.task = run.task /\ r.text = run.text /\ r.phase # "preflight"
    BY <1>0 DEF RunRow
  <2> QED
    BY <1>0, <2>1, <2>2, ContinueAgrees
<1> QED
  BY <1>1, <1>2

LEMMA RewriteAgrees ==
  ASSUME Ordered, RewritePromoted
  PROVE  Agreed'
<1>0. run \in RunRow /\ chapter \in ChapterRow /\ exec # Idle
  BY SizesHere DEF RewritePromoted, Step, Idle
<1>1. Unchanged \/ \E vs, c : Candidate(vs, c)
  BY Zenon DEF RewritePromoted
<1>2. CASE Unchanged /\ LatestPassed(run.text)
  BY <1>0, <1>2, PlainAgree
<1>3. CASE Unchanged /\ ~LatestPassed(run.text)
  <2>1. RestoreAncestor(version)
    BY <1>3, Zenon DEF Unchanged
  <2> QED
    BY <1>0, <2>1, AncestorAgrees
<1>4. ASSUME NEW vs, NEW c, Candidate(vs, c) PROVE Agreed'
  <2>1. PICK u, spent, ph : /\ chapter' = Shown(u)
                            /\ Continue([run EXCEPT !.text = u, !.rewrites = spent, !.phase = ph])
                            /\ ph # "preflight"
    <3> DEFINE accept == ~LatestPassed(run.text) \/ Verdict(vs[c]) = "sound"
               repair == run.rewrites = 1 /\ Verdict(vs[c]) = "near"
               kept == accept \/ repair
               u == IF kept THEN c ELSE run.text
               ph == IF accept THEN "hard_check"
                     ELSE IF repair \/ run.rewrites = 0 THEN "rewrite" ELSE "facts"
    <3>1. chapter' = Shown(u) /\ Continue([run EXCEPT !.text = u, !.rewrites = Spent, !.phase = ph])
      BY <1>4, Zenon DEF Candidate
    <3>2. ph # "preflight"
      OBVIOUS
    <3> HIDE DEF u, ph
    <3> QED
      BY <3>1, <3>2, Zenon
  <2> DEFINE r == [run EXCEPT !.text = u, !.rewrites = spent, !.phase = ph]
  <2>2. chapter'.current = u
    BY <1>0, <2>1 DEF Shown, ChapterRow
  <2>3. r.task = run.task /\ r.text = u /\ r.phase # "preflight"
    BY <1>0, <2>1 DEF RunRow
  <2> QED
    BY <1>0, <2>1, <2>2, <2>3, ContinueAgrees
<1> QED
  BY <1>1, <1>2, <1>3, <1>4

\* A verdict is followed, or the best text restored and shown.
LEMMA MergeAgrees ==
  ASSUME Ordered, Merge
  PROVE  Agreed'
<1>0. run \in RunRow /\ chapter \in ChapterRow /\ exec # Idle /\ run.phase # "preflight"
  BY SizesHere DEF Merge, Step, Idle, Ordered, Stepping, Decided, InPhase
<1>1. PICK o \in Outcomes : RestoreBest(o) \/ FollowVerdict(o)
  BY Zenon DEF Merge
<1>2. CASE RestoreBest(o)
  <2> DEFINE r == [run EXCEPT !.text = best]
             s == [r EXCEPT !.panel = SnapshotOf(best), !.phase = "facts"]
  <2>1. CASE o.hard
    <3>1. Throw(TRUE, r, Recorded(o), Shown(best))
      BY <1>2, <2>1, Zenon DEF RestoreBest
    <3>2. DOMAIN task' = DOMAIN task /\ exec' = Idle /\ run' = [r EXCEPT !.status = "failed"]
      BY <3>1 DEF Throw
    <3>3. chapter'.current = best
      BY <3>1, <1>0 DEF Throw, Shown, ChapterRow
    <3>4. run'.text = best /\ run'.task = run.task /\ run'.phase # "preflight"
      BY <1>0, <3>2 DEF RunRow
    <3>5. run.task = Newest
      BY <1>0, ExecutingFacts DEF Ordered, Stepping, Agreed, Alone
    <3> QED
      BY <3>2, <3>3, <3>4, <3>5, ShownAgrees
  <2>2. CASE ~o.hard
    <3>1. Continue(s) /\ chapter' = Shown(best)
      BY <1>2, <2>2, Zenon DEF RestoreBest
    <3>2. chapter'.current = best
      BY <3>1, <1>0 DEF Shown, ChapterRow
    <3>3. s.task = run.task /\ s.text = best /\ s.phase # "preflight"
      BY <1>0 DEF RunRow
    <3> QED
      BY <1>0, <3>1, <3>2, <3>3, ContinueAgrees
  <2> QED
    BY <2>1, <2>2
<1>3. CASE FollowVerdict(o)
  <2>1. CASE o.verdict = "blocked" /\ o.hard
    <3>1. Throw(TRUE, run, Recorded(o), chapter)
      BY <1>3, <2>1, Zenon DEF FollowVerdict
    <3> QED
      BY <1>0, <3>1, ThrowAgrees
  <2>2. CASE ~(o.verdict = "blocked" /\ o.hard)
    <3>1. PICK ph \in {"rewrite", "facts"} : Continue([run EXCEPT !.phase = ph]) /\ chapter' = chapter
      BY <1>3, <2>2 DEF FollowVerdict
    <3> DEFINE r == [run EXCEPT !.phase = ph]
    <3>2. r.task = run.task /\ r.text = run.text /\ r.phase # "preflight"
      BY <1>0 DEF RunRow
    <3> QED
      BY <1>0, <3>1, <3>2, ContinueAgrees
  <2> QED
    BY <2>1, <2>2
<1> QED
  BY <1>1, <1>2, <1>3

\* A claim resumes the run of the newest task or begins one without a text.
LEMMA ClaimAgrees ==
  ASSUME Ordered, NEW t \in DOMAIN task, Claim(t) \/ ClaimRefused(t)
  PROVE  Agreed'
<1>0. run \in RunRow /\ exec = Idle /\ t # 0
  BY SizesHere DEF Claim, ClaimRefused, Claimable
<1>1. UNCHANGED chapter /\ DOMAIN task' = DOMAIN task
  BY DEF Claim, ClaimRefused
<1>2. \/ run' = run \/ run' = Converted \/ run' = [Converted EXCEPT !.status = "working"]
      \/ run.task # t /\ \E n : run' = FreshRun(t, n)
  <2>1. CASE Claim(t)
    BY <1>0, <2>1, Zenon DEF Claim, Replaces
  <2>2. CASE ClaimRefused(t)
    BY <2>2, Zenon DEF ClaimRefused
  <2> QED
    BY <2>1, <2>2
<1>3. CASE run' = run
  BY <1>0, <1>1, <1>3, StillAgreed
<1>4. CASE run' = Converted \/ run' = [Converted EXCEPT !.status = "working"]
  <2>1. run'.task = run.task /\ run'.text = run.text /\ (run'.phase = "preflight" => run.phase = "preflight")
    BY <1>0, <1>4 DEF Converted, RunRow
  <2> QED
    BY <1>0, <1>1, <2>1, StillAgreed
<1>5. CASE run.task # t /\ \E n : run' = FreshRun(t, n)
  <2>1. run'.task = t /\ run'.text = 0 /\ run'.phase = "preflight"
    BY <1>5 DEF FreshRun
  <2> QED
    BY <1>0, <1>1, <1>5, <2>1, StillAgreed
<1> QED
  BY <1>2, <1>3, <1>4, <1>5

LEMMA RejectAgrees ==
  ASSUME Ordered, NEW v \in Texts, Reject(v)
  PROVE  Agreed'
<1>0. run \in RunRow /\ chapter \in ChapterRow
  BY SizesHere
<1>1. DOMAIN task' = DOMAIN task /\ exec' = exec /\ chapter' = Unsettled
  BY DEF Reject
<1>2. run' = run \/ run' = [run EXCEPT !.phase = "rewrite", !.status = "paused", !.gated = FALSE]
  BY DEF Reject
<1>3. run'.task = run.task /\ run'.text = run.text /\ (run'.phase = "preflight" => run.phase = "preflight")
  BY <1>0, <1>2 DEF RunRow
<1>4. chapter'.current = chapter.current /\ chapter'.canon = chapter.canon
  BY <1>0, <1>1 DEF Unsettled, ChapterRow
<1> QED
  BY <1>1, <1>3, <1>4, StillAgreed

\* What may be accepted is the text of the run, which stands at its gate.
LEMMA RunAtGate ==
  ASSUME Inductive, Offered, Alone, NEW v \in Texts, Acceptable(v)
  PROVE  /\ run.task = Newest /\ run.text = v /\ run.phase \in {"settlement", "completed"}
         /\ v # 0 /\ v # chapter.canon
<1>1. v \in DOMAIN gate /\ v # 0
  <2>1. version \in Seq(TextRow) /\ Len(version) <= MaxTexts /\ DOMAIN gate = 1 .. MaxTexts
    BY DEF Inductive, Rows, References
  <2>2. MaxTexts \in Nat
    BY ScenariosAssumption DEF Inductive, Rows, MaxTexts
  <2> QED
    BY <2>1, <2>2 DEF Texts
<1>2. v \in Awaiting
  BY <1>1 DEF Awaiting, Acceptable
<1>3. run.task = gate[v].task /\ run.task \in DOMAIN task
  BY <1>2 DEF Offered, Acceptable
<1>4. run.text = v /\ run.phase \in {"settlement", "completed"}
  BY <1>2, <1>3 DEF Offered
<1>5. run.task = Newest
  BY <1>3 DEF Alone, Acceptable
<1>6. v # chapter.canon
  BY <1>1 DEF Inductive, Settled, Stands, Acceptable
<1> QED
  BY <1>1, <1>4, <1>5, <1>6

LEMMA AcceptAgrees ==
  ASSUME Ordered, NEW v \in Texts, Accept(v)
  PROVE  Agreed'
<1>1. run.task = Newest /\ run.text = v /\ run.phase \in {"settlement", "completed"}
  BY RunAtGate DEF Ordered, Stepping, Decided, Agreed, Accept
<1>2. DOMAIN task' = DOMAIN task /\ UNCHANGED <<run, exec>> /\ chapter'.current = v
  BY DEF Accept
<1> QED
  BY <1>1, <1>2, ShownAgrees

LEMMA EditsAgree ==
  ASSUME Ordered, SaveDraft \/ Withdraw
  PROVE  Agreed'
<1>0. chapter \in ChapterRow /\ version \in Seq(TextRow)
  BY SizesHere DEF Ordered, Stepping, Inductive, Rows
<1>1. DOMAIN task' = DOMAIN task /\ UNCHANGED <<exec, run>>
  BY DEF SaveDraft, Withdraw, Superseded
<1>2. chapter'.current = 0 \/ version'[chapter'.current].author = "owner"
  <2>1. CASE SaveDraft
    <3>1. PICK g \in Grades, c \in Clashes : version' = Register(chapter.current, "owner", g, c)
      BY <2>1 DEF SaveDraft
    <3>2. PICK row : version' = Append(version, row) /\ row.author = "owner"
      <4> DEFINE text == [parent |-> chapter.current, author |-> "owner", grade |-> g, clash |-> c,
                          status |-> "candidate", passed |-> FALSE, failed |-> FALSE, latest |-> FALSE]
      <4>1. version' = Append(version, text)
        BY <3>1 DEF Register
      <4>2. text.author = "owner"
        OBVIOUS
      <4> QED
        BY <4>1, <4>2, Zenon
    <3>3. Len(version') = Len(version) + 1 /\ version'[Len(version) + 1].author = "owner"
      BY <1>0, <3>2
    <3>4. chapter' = [chapter EXCEPT !.current = Len(version'), !.settle = "unsettled", !.failed = FALSE]
      BY <2>1 DEF SaveDraft
    <3>5. chapter'.current = Len(version')
      BY <1>0, <3>4 DEF ChapterRow
    <3> QED
      BY <3>3, <3>5
  <2>2. CASE Withdraw
    BY <1>0, <2>2 DEF Withdraw, ChapterRow
  <2> QED
    BY <2>1, <2>2
<1> QED
  BY <1>1, <1>2, OwnAgrees

\* A new task is to write a first text, or is about the text shown or canon; none is at work.
LEMMA ScheduleAgrees ==
  ASSUME Ordered, NEW op, ScheduleNew(op) \/ ScheduleRevision(op)
  PROVE  Agreed'
<1>0. task \in Seq(TaskRow) /\ chapter \in ChapterRow
  BY SizesHere DEF Ordered, Stepping, Inductive, Rows
<1>1. PICK v \in {0, chapter.canon, chapter.current} : Create(op, v)
  BY DEF ScheduleNew, ScheduleRevision
<1>2. /\ ~Busy(InProgress \cup {"waiting_confirmation"}) /\ UNCHANGED <<run, exec>>
      /\ chapter' = chapter \/ chapter' = [chapter EXCEPT !.failed = FALSE]
  BY DEF ScheduleNew, ScheduleRevision
<1>3. chapter'.current = chapter.current /\ chapter'.canon = chapter.canon
  BY <1>0, <1>2 DEF ChapterRow
<1>4. /\ Newest' = Newest + 1 /\ DOMAIN task' = 1 .. (Newest + 1) /\ task'[Newest + 1].bound = v
      /\ \A t \in 1 .. Newest : task'[t] = task[t]
  <2>1. PICK row : task' = Append(task, row) /\ row.bound = v
    <3> DEFINE row == [status |-> "queued", op |-> op, bound |-> v, third |-> FALSE,
                       attempts |-> 0, cancel |-> FALSE, reviewing |-> FALSE]
    <3>1. task' = Append(task, row)
      BY <1>1 DEF Create
    <3>2. row.bound = v
      OBVIOUS
    <3> QED
      BY <3>1, <3>2, Zenon
  <2>2. /\ Len(task') = Newest + 1 /\ DOMAIN task' = 1 .. (Newest + 1) /\ task'[Newest + 1] = row
        /\ \A t \in 1 .. Newest : task'[t] = task[t]
    BY <1>0, <2>1 DEF Newest
  <2> QED
    BY <2>1, <2>2 DEF Newest
<1>5. exec = Idle
  <2>1. exec # Idle => exec.task \in DOMAIN task /\ task[exec.task].status = "working"
    BY DEF Ordered, Stepping, Inductive, Executing
  <2> QED
    BY <1>2, <2>1 DEF Busy, InProgress
<1>6. \A t \in 1 .. Newest : task[t].status # "waiting_confirmation"
  BY <1>2, SizesHere DEF Busy
<1>7. Alone'
  BY <1>2, <1>4, <1>5, <1>6, SizesHere DEF Alone
<1>8. \A u : Matches(u) =>
        chapter'.current \in {0, u} \/ version'[chapter'.current].author = "owner"
  BY <1>3, MatchesKept
<1>9. ShownText'
  <2>1. version' = version
    BY DEF ScheduleNew, ScheduleRevision, texts
  <2> QED
    BY <1>2, <1>3, <1>8, <2>1 DEF ShownText, Matches, Ordered, Agreed
<1>10. ShownNext'
  BY <1>1, <1>3, <1>4 DEF ShownNext, Matches
<1> QED
  BY <1>7, <1>9, <1>10 DEF Agreed

LEMMA AgreedKept ==
  ASSUME Ordered, [Next]_vars
  PROVE  Agreed'
<1>1. CASE UNCHANGED vars
  BY <1>1, QuietAgree
<1>2. CASE Merge \/ RewritePromoted \/ DraftAnswered \/ HardCheck \/ Preflight \/ OpenPanel \/ SeatsReport
  BY <1>2, MergeAgrees, RewriteAgrees, DraftAgrees, HardCheckAgrees, PreflightAgrees, ReviewsAgree
<1>3. CASE \/ PreflightBlocked \/ ReviewsExhausted \/ SendDraft \/ SendRewrite \/ RewriteReceived \/ Close
  BY <1>3, FailuresAgree, QuietAgree, EndsAgree
<1>4. CASE Context \/ Facts \/ Settle \/ WriterTakenOver
  <2>1. exec # Idle
    <3>0. exec = Idle => exec.step = "none"
      BY DEF Idle
    <3>1. CASE Context
      BY <3>0, <3>1 DEF Context, Phase, Step
    <3>2. CASE Facts
      BY <3>0, <3>2 DEF Facts, Phase, Step
    <3>3. CASE Settle
      BY <3>0, <3>3 DEF Settle, Phase, Step
    <3>4. CASE WriterTakenOver
      BY <3>0, <3>4 DEF WriterTakenOver
    <3> QED
      BY <1>4, <3>1, <3>2, <3>3, <3>4
  <2> QED
    BY <1>4, <2>1, PlainAgree
<1>5. CASE Proceed
  BY <1>2, <1>3, <1>4, <1>5 DEF Proceed
<1>6. CASE Fail
  BY <1>4, <1>6, FailuresAgree DEF Fail
<1>7. CASE Runtime
  BY <1>7, ClaimAgrees, EndsAgree, CutAgrees, QuietAgree DEF Runtime
<1>8. CASE Author
  BY <1>8, ScheduleAgrees, QuietAgree, AcceptAgrees, RejectAgrees, EditsAgree DEF Author
<1> QED
  BY <1>1, <1>5, <1>6, <1>7, <1>8 DEF Next, Execute

\* A chapter whose newest task alone is executed never hands its run back: no gate is of
\* a task newer than the run's.
GatesBehind == \A v \in Awaiting : gate[v].task <= run.task

LEMMA GatesAreWritten ==
  ASSUME [Next]_vars
  PROVE  \/ gate' = gate
         \/ \E v : Facts \/ Accept(v) \/ Reject(v) \/ AlignOutline(v)
         \/ Superseded
<1>1. CASE UNCHANGED vars
  BY <1>1 DEF vars
<1>2. CASE Proceed
  <2>1. CASE Preflight \/ Context \/ SendDraft \/ DraftAnswered \/ OpenPanel \/ SeatsReport
    BY <2>1 DEF Preflight, Context, SendDraft, DraftAnswered, OpenPanel, SeatsReport
  <2>2. CASE PreflightBlocked
    BY <2>2 DEF PreflightBlocked, Throw
  <2>3. CASE ReviewsExhausted
    BY <2>3 DEF ReviewsExhausted, Throw
  <2>4. CASE HardCheck
    BY <2>4 DEF HardCheck, RestoreAncestor, Throw
  <2>5. CASE Merge
    <3>1. PICK o \in Outcomes : RestoreBest(o) \/ FollowVerdict(o)
      BY <2>5, Zenon DEF Merge
    <3> QED
      BY <3>1 DEF RestoreBest, FollowVerdict, Throw
  <2>6. CASE SendRewrite \/ RewriteReceived \/ Settle \/ Close
    BY <2>6 DEF SendRewrite, RewriteReceived, Settle, Close
  <2>7. CASE RewritePromoted
    <3>1. Unchanged \/ \E vs, c : Candidate(vs, c)
      BY <2>7, Zenon DEF RewritePromoted
    <3> QED
      BY <3>1 DEF Unchanged, RestoreAncestor, Candidate, Throw
  <2> QED
    BY <1>2, <2>1, <2>2, <2>3, <2>4, <2>5, <2>6, <2>7 DEF Proceed
<1>3. CASE Fail
  <2>1. CASE ExecutionThrows \/ WriterTakenOver \/ WriterBlocked \/ CopyrightBlocked
    BY <2>1 DEF ExecutionThrows, WriterTakenOver, WriterBlocked, CopyrightBlocked, Throw
  <2>2. CASE SeatsFail \/ SynthesisFails \/ SynthesisBlocked
    BY <2>2 DEF SeatsFail, SynthesisFails, SynthesisBlocked, Throw
  <2>3. CASE MergeRefused \/ MergedOnly
    BY <2>3 DEF MergeRefused, MergedOnly, Throw
  <2> QED
    BY <1>3, <2>1, <2>2, <2>3 DEF Fail
<1>4. CASE Runtime
  BY <1>4 DEF Runtime, Claim, ClaimRefused, Recover, StaleThrows, OtherChapterRuns, OtherChapterSettles,
     OrderOnly, RestoreOnly, Dies
<1>5. CASE Author
  BY <1>5 DEF Author, ScheduleNew, ScheduleRevision, RequestSynthesis, RetryFailed, Resume, Cancel,
     SaveDraft, Withdraw
<1> QED
  BY <1>1, <1>2, <1>3, <1>4, <1>5 DEF Next, Execute

LEMMA BehindKept ==
  ASSUME Inductive, Inductive', RecordsStand, GatesBehind, [Next]_vars, NewestFirst
  PROVE  GatesBehind'
<1>1. run.task \in Nat /\ run.task <= Len(task) /\ run'.task >= run.task
  <2>1. run.task \in Nat /\ run.task <= Len(task)
    BY DEF Inductive, Rows, References, RunRow
  <2> QED
    BY <2>1 DEF RecordsStand, RunStands, NewestFirst
<1>2. run'.task \in Nat /\ gate \in [1 .. MaxTexts -> GateRow]
  BY DEF Inductive, Rows, RunRow
<1>3. \A v \in Awaiting' : \/ v \in Awaiting /\ gate'[v].task = gate[v].task
                           \/ gate'[v].task = run.task
  <2>1. CASE gate' = gate
    BY <2>1 DEF Awaiting
  <2>2. CASE Facts
    <3>1. exec.task = run.task
      <4>1. exec # Idle
        BY <2>2 DEF Facts, Phase, Step, Idle
      <4> QED
        BY <4>1, ExecutingFacts
    <3> QED
      BY <1>2, <2>2, <3>1 DEF Facts, Awaiting
  <2>3. CASE \E v : Accept(v) \/ Reject(v) \/ AlignOutline(v)
    <3>1. PICK v : \/ gate' = [gate EXCEPT ![v].status = "settled", ![v].open = FALSE]
                   \/ gate' = [gate EXCEPT ![v].status = "rejected", ![v].open = FALSE]
                   \/ gate' = [gate EXCEPT ![v].open = FALSE]
      BY <2>3 DEF Accept, Reject, Refused, AlignOutline
    <3>2. DOMAIN gate' = DOMAIN gate /\ \A w \in DOMAIN gate : gate[w] \in GateRow
      BY <1>2, <3>1
    <3>3. \A w \in DOMAIN gate : /\ gate'[w].task = gate[w].task
                                 /\ gate'[w].status = "awaiting" => gate[w].status = "awaiting"
      BY <3>1, <3>2 DEF GateRow
    <3> QED
      BY <3>2, <3>3 DEF Awaiting
  <2>4. CASE Superseded
    BY <1>2, <2>4 DEF Superseded, Awaiting, GateRow
  <2> QED
    BY <2>1, <2>2, <2>3, <2>4, GatesAreWritten
<1>4. \A v \in Awaiting : gate[v].task \in Nat
  BY <1>2 DEF Awaiting, GateRow
<1> QED
  BY <1>1, <1>2, <1>3, <1>4 DEF GatesBehind

LEMMA NewestIsNotReturned ==
  ASSUME Inductive, RecordsStand, NewestFirst, GatesBehind
  PROVE  NotReturned
<1>1. run.task \in Nat /\ run.task <= Len(task) /\ Len(task) \in Nat
  BY DEF Inductive, Rows, References, RunRow
<1>2. \A v \in Awaiting : gate[v].task \in Nat
  BY DEF Inductive, Rows, Awaiting, GateRow
<1> QED
  BY <1>1, <1>2 DEF RecordsStand, RunStands, NewestFirst, NotReturned, GatesBehind

LEMMA NewestMeansNotReturned == Spec /\ [][NewestFirst]_vars => []GatesBehind /\ [][NotReturned]_vars
<1>1. UNCHANGED vars => NewestFirst
  BY DEF vars, NewestFirst
<1>2. Inductive /\ [Next]_vars => Inductive' /\ RecordsStand
  BY NextKeeps, KeptStands
<1>3. Init => GatesBehind
  BY DEF Init, GatesBehind, Awaiting, NoGate
<1>4. Inductive /\ GatesBehind /\ [Next]_vars /\ [NewestFirst]_vars => GatesBehind' /\ NotReturned
  BY <1>1, <1>2, BehindKept, NewestIsNotReturned
<1> QED
  BY <1>3, <1>4, InductiveHolds, PTL DEF Spec

LEMMA AgreedHolds == Spec /\ [][NewestFirst]_vars => []Agreed
<1>1. Inductive /\ Decided /\ Agreed /\ GatesBehind /\ [Next]_vars /\ [NewestFirst]_vars => Agreed'
  <2> SUFFICES ASSUME Inductive, Decided, Agreed, GatesBehind, [Next]_vars, [NewestFirst]_vars
               PROVE  Agreed'
    OBVIOUS
  <2>1. NewestFirst
    BY DEF vars, NewestFirst
  <2>2. Inductive' /\ RecordsStand
    BY NextKeeps, KeptStands
  <2>3. Ordered
    BY <2>1, <2>2, NewestIsNotReturned DEF Ordered, Stepping, Next, vars
  <2> QED
    BY <2>3, AgreedKept
<1> QED
  BY <1>1, AgreedInit, InductiveHolds, NewestMeansNotReturned, DecidedHolds, PTL DEF Spec

\* As long as only the newest task of the chapter is executed, the execution of a task
\* never asks the author to accept a text and leaves the chapter showing another, through
\* refused rewrites, ancestors and best texts restored, takeovers, crashes and stale
\* executions: only an edit or a withdrawal of the author parts the two.  A restoration
\* that is cut off does part them, but the text it leaves with the run is rejected, and
\* what is rejected cannot be accepted.
THEOREM AskedAsShown == Spec /\ [][NewestFirst]_vars => []AskedIsShown
<1>1. Inductive /\ Decided /\ Agreed => AskedIsShown
  <2> SUFFICES ASSUME Inductive, Decided, Agreed, NEW v \in Texts, Acceptable(v)
               PROVE  \/ chapter.current \in {0, v}
                      \/ version[chapter.current].author = "owner"
    BY DEF AskedIsShown
  <2>1. run.text = v /\ v # 0 /\ v # chapter.canon /\ version[v].status = "candidate"
    BY RunAtGate DEF Decided, Agreed, Acceptable
  <2> QED
    BY <2>1 DEF Agreed, ShownText, Matches
<1> QED
  BY <1>1, InductiveHolds, NewestMeansNotReturned, DecidedHolds, AgreedHolds, PTL
=============================================================================
