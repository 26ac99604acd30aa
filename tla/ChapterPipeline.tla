-------------------------- MODULE ChapterPipeline --------------------------
(***************************************************************************)
(* How one chapter becomes canon: the run of chapter_pipeline_runs through *)
(* its phases, the immutable texts it writes and rejects, the panels of    *)
(* three reviewers and their synthesis, the best text on record, the gate  *)
(* at which the author accepts or refuses, and what the author may do      *)
(* between two executions: request, retry, cancel, edit, withdraw.         *)
(*                                                                         *)
(* Texts, panels and tasks are numbered in the order they are created; 0   *)
(* is the absence of one.  A text is its grade, what evaluateHardChecks    *)
(* says of its own words: "sound" passes, "near" misses the length limits  *)
(* by at most 200 characters, "far" by at most 1200, "broken" fails in     *)
(* another way.  Beside these words the checks look at the canon of the    *)
(* chapters before it: a text clashes while it repeats or contradicts it,  *)
(* and may come to clash, or cease to, whenever another chapter settles.   *)
(* A panel is what its reports decide, and its seats answer in one step:   *)
(* the code awaits them all before it looks at any.  The claim, the lease  *)
(* and the end of a task are those of TaskRuntime, and the calls those of  *)
(* ModelCalls; here a task has at most one live executeClaimed, which can  *)
(* lose its task at any time and live on as a stale one.                   *)
(***************************************************************************)
EXTENDS Integers, Sequences, FiniteSetsExt

CONSTANT Scenarios \* what the author asks for, what else may happen, and how often

AllOperations == {"produce", "trial", "review_existing", "rewrite_existing"}
AllEvents == {"failure", "expiry", "other chapter", "edit", "cancellation"}
Explicit == {"review_existing", "rewrite_existing"}
AllGrades == {"sound", "near", "far", "broken"}

ASSUME ScenariosAssumption ==
  Scenarios \subseteq [operations : SUBSET AllOperations, events : SUBSET AllEvents,
                       grades : SUBSET AllGrades, tasks : Nat, executions : Nat, texts : Nat,
                       panels : Nat, revisions : Nat]

VARIABLES
  run,       \* the chapter's row of chapter_pipeline_runs; task 0: none yet
  task,      \* table tasks, the chapter_creation tasks of the chapter
  version,   \* tables manuscript_versions and hard_check_results
  panel,     \* table review_panels, with its reports, synthesis and snapshot
  orders,    \* the texts with an active row in revision_orders
  best,      \* the text of the snapshot with is_best = 1
  gate,      \* table chapter_approval_gates: one row per text
  chapter,   \* the chapter's row of chapters
  revision,  \* books.canon_revision
  exec,      \* API memory: the executeClaimed that holds its task
  stale,     \* API memory: one that lost it and still waits for an answer
  scenario   \* chosen at the start

Operations == scenario.operations    \* among the four of AllOperations
Events == scenario.events            \* among the five of AllEvents
Grades == scenario.grades            \* those the writer's texts may have
MaxTasks == scenario.tasks           \* bound on the tasks of the chapter
MaxExecutions == scenario.executions \* bound on the times these tasks are claimed
MaxTexts == scenario.texts           \* bound on its texts
MaxPanels == scenario.panels         \* bound on its review panels
MaxRevision == scenario.revisions    \* bound on the canon revision of the book

texts == <<version, orders, best>>
vars == <<run, task, version, panel, orders, best, gate, chapter, revision, exec, stale, scenario>>

Idle == [task |-> 0, step |-> "none", panel |-> 0]
NoStale == [task |-> 0, panels |-> {}]
NoGate == [status |-> "none", panel |-> 0, task |-> 0, canon |-> 0, open |-> FALSE]

\* The run of task t as findOrCreateRun writes it, with n rewrites spent.
FreshRun(t, n) ==
  [task |-> t, phase |-> "preflight", status |-> "working", text |-> 0, panel |-> 0,
   gated |-> FALSE, rewrites |-> n, taken |-> 0, writer |-> "lead", epoch |-> "none",
   canon |-> revision]

Init ==
  /\ scenario \in Scenarios
  /\ task = <<>> /\ version = <<>> /\ panel = <<>>
  /\ orders = {} /\ best = 0
  /\ gate = [v \in 1 .. MaxTexts |-> NoGate]
  /\ chapter = [current |-> 0, canon |-> 0, settle |-> "unsettled", failed |-> FALSE]
  /\ revision = 0
  /\ run = FreshRun(0, 0)
  /\ exec = Idle
  /\ stale = NoStale
-----------------------------------------------------------------------------
(* The texts of the chapter.                                               *)

Texts == DOMAIN version
Active(v) == v \in Texts /\ version[v].status \in {"candidate", "canon"}
Verdict(text) == IF text.clash THEN "broken" ELSE text.grade
Sound(v) == Verdict(version[v]) = "sound"

\* What is on record: a check that passed, one that failed, and which came last.
Passed(v) == version[v].passed
FailedCheck(v) == version[v].failed
LatestPassed(v) == version[v].latest

\* recordHardCheck: a row beside those of the earlier checks of the text.
WithCheck(text) ==
  LET ok == Verdict(text) = "sound"
  IN  [text EXCEPT !.passed = @ \/ ok, !.failed = @ \/ ~ok, !.latest = ok]

\* A text and those it was written from, the least set the recursive query closes.
Lineage(v) ==
  {u \in Texts : \A S \in SUBSET Texts :
     v \in S /\ (\A w \in S : version[w].parent \in S \cup {0}) => u \in S}
Nearest(S) == IF S = {} THEN 0 ELSE Max(S)
NearestPassed(v) == Nearest({u \in Lineage(v) \ {v} : Passed(u)})
NearestByModel(v) == Nearest({u \in Lineage(v) : version[u].author # "owner"})

\* A text may clash from the beginning; alone in the book it does not.
Clashes == IF "other chapter" \in Events THEN BOOLEAN ELSE {FALSE}

Register(parent, author, grade, clash) ==
  Append(version, [parent |-> parent, author |-> author, grade |-> grade, clash |-> clash,
                   status |-> "candidate", passed |-> FALSE, failed |-> FALSE, latest |-> FALSE])

\* What promoteManuscript may make of an answer, as pairs of the texts after
\* it and the text it is: one whose words are already there, or a new one.
Promoted(parent) ==
  {<<version, v>> : v \in {u \in Texts : Active(u)}} \cup
  {<<Register(parent, run.writer, g, c), Len(version) + 1>> :
     g \in IF Len(version) < MaxTexts THEN Grades ELSE {}, c \in Clashes}

Blocked(ps, S) ==
  [p \in DOMAIN ps |-> IF p \in S /\ ps[p].status = "working"
                       THEN [ps[p] EXCEPT !.status = "blocked"] ELSE ps[p]]
-----------------------------------------------------------------------------
(* executeClaimed: the loop over the phases, and its error path.           *)

Op == task[exec.task].op
Bound == task[exec.task].bound
Step(step) == exec.step = step
Phase(phase) == Step("loop") /\ run.phase = phase

\* A phase ends: the run is reloaded and the task records its phase.
Continue(r) ==
  /\ run' = r
  /\ task' = [task EXCEPT ![exec.task].reviewing = r.phase = "review"]
  /\ exec' = [exec EXCEPT !.step = "loop", !.panel = 0]
  /\ UNCHANGED <<revision, stale>>

\* A phase waits for a model; pre is the panel of the run when it began.
Wait(step, pre) ==
  /\ exec' = [exec EXCEPT !.step = step, !.panel = pre]
  /\ UNCHANGED <<task, revision, stale>>

\* The catch block, with the rows the phase left behind: the panel the run had
\* when a review began is blocked, a text the phase restored is no failure,
\* and a cancelled chapter without a text has not failed.
Throw(quality, r, ps, ch) ==
  LET cancelled == task[exec.task].cancel
      doomed == IF Phase("review") THEN run.panel ELSE exec.panel
      restored == quality /\ r.text # run.text
  IN  /\ run' = [r EXCEPT !.status = "failed"]
      /\ panel' = Blocked(ps, {doomed})
      /\ chapter' = IF ch.settle = "settled" THEN ch
                    ELSE [ch EXCEPT !.failed = IF cancelled THEN @ /\ Texts # {} ELSE ~restored]
      /\ task' = [task EXCEPT ![exec.task].status =
                    IF cancelled THEN "cancelled" ELSE IF quality THEN "blocked" ELSE "failed"]
      /\ exec' = Idle
      /\ UNCHANGED <<gate, revision, stale>>

\* Any phase may fail for a reason of its own: an answer refused, a lease that
\* lapsed, a stale canon revision, a gate that exists, a checkpoint refused.
ExecutionThrows ==
  /\ exec.step \in {"loop", "draft", "rewrite", "candidate", "synthesis"}
  /\ Throw(FALSE, run, panel, chapter)
  /\ UNCHANGED texts

Close ==
  /\ Phase("completed")
  /\ run' = [run EXCEPT !.status = "completed"]
  /\ task' = [task EXCEPT ![exec.task].reviewing = FALSE,
                ![exec.task].status =
                  IF run.gated THEN "waiting_confirmation"
                  ELSE IF task[exec.task].cancel THEN "cancelled" ELSE "succeeded"]
  /\ exec' = Idle
  /\ UNCHANGED <<texts, panel, gate, chapter, revision, stale>>
-----------------------------------------------------------------------------
(* Claiming a queued task: findOrCreateRun.                                *)

\* A run that failed before it had a panel to show is reviewed first.
Converted ==
  IF run.status = "failed" /\ run.phase = "facts" /\ run.text # 0 /\ run.panel = 0
  THEN [run EXCEPT !.phase = "review"] ELSE run

Resumes(t) == run.task = t /\ run.status \in {"failed", "paused"}
Replaces(t) ==
  /\ run.task \notin {0, t}
  /\ \/ run.status = "failed"
     \/ task[t].op \in Explicit /\ run.status \in {"completed", "paused"}

\* resumedRewriteCount: sending the same text to review again buys no rewrite.
KeptRewrites(t) ==
  IF /\ run.status = "failed" /\ run.text = task[t].bound
     /\ run.text # 0 /\ task[t].op = "review_existing"
  THEN run.rewrites ELSE 0

Executions == MapThenSumSet(LAMBDA t : task[t].attempts, DOMAIN task)
Claimable(t) ==
  /\ exec = Idle /\ task[t].status = "queued" /\ ~task[t].cancel
  /\ Executions < MaxExecutions

Claim(t) ==
  /\ Claimable(t)
  /\ \/ run.task = 0 /\ run' = FreshRun(t, 0)
     \/ Replaces(t) /\ run' = FreshRun(t, KeptRewrites(t))
     \/ Resumes(t) /\ run.epoch # "lost" /\ run' = [Converted EXCEPT !.status = "working"]
     \/ run.task = t /\ ~Resumes(t) /\ run' = run
  /\ task' = [task EXCEPT ![t].status = "working", ![t].attempts = @ + 1]
  /\ exec' = [Idle EXCEPT !.task = t, !.step = "loop"]
  /\ UNCHANGED <<texts, panel, gate, chapter, revision, stale>>

\* findOrCreateRun throws before the loop's try: another chapter's order took
\* the writer, or the run belongs to a task that did not give it up.
ClaimRefused(t) ==
  /\ Claimable(t)
  /\ \/ Resumes(t) /\ run.epoch = "lost" /\ run' = Converted
     \/ run.task \notin {0, t} /\ ~Replaces(t) /\ run' = run
  /\ task' = [task EXCEPT ![t].status = "failed", ![t].attempts = @ + 1]
  /\ UNCHANGED <<texts, panel, gate, chapter, revision, exec, stale>>
-----------------------------------------------------------------------------
(* Preflight, context, draft.                                              *)

Preflight ==
  LET reviewed == Op = "review_existing"
  IN  /\ Phase("preflight")
      /\ Op \in Explicit => Active(Bound)
      /\ reviewed => NearestByModel(Bound) # 0
      /\ IF chapter.settle = "settled" /\ Op \notin Explicit
         THEN Continue([run EXCEPT !.phase = "completed"]) /\ UNCHANGED chapter
         ELSE /\ run.canon = revision
              /\ chapter.settle = "settled" => version[Bound].author # "owner"
              /\ Continue([run EXCEPT
                   !.text = Bound, !.epoch = "held",
                   !.writer = IF reviewed THEN version[NearestByModel(Bound)].author ELSE @,
                   !.phase = IF reviewed THEN "hard_check" ELSE "context"])
              /\ chapter' = [chapter EXCEPT !.failed = FALSE]
      /\ UNCHANGED <<texts, panel, gate>>

\* A text sent to review needs a writer whose work it is.
PreflightBlocked ==
  /\ Phase("preflight")
  /\ Op = "review_existing" /\ Active(Bound) /\ NearestByModel(Bound) = 0
  /\ Throw(TRUE, run, panel, chapter)
  /\ UNCHANGED texts

Context ==
  /\ Phase("context")
  /\ Continue([run EXCEPT !.phase = "draft"])
  /\ UNCHANGED <<texts, panel, gate, chapter>>

SendDraft ==
  /\ Phase("draft") /\ run.epoch = "held"
  /\ Wait("draft", 0)
  /\ UNCHANGED <<run, texts, panel, gate, chapter>>

\* Defect: a restored text does not take the place of a newer one.
ShownIfNewer(v) == [chapter EXCEPT !.current = Max({v, @}), !.failed = FALSE]
Shown(v) == [chapter EXCEPT !.current = v, !.failed = FALSE]

DraftAnswered ==
  /\ Step("draft")
  /\ \E promoted \in Promoted(Bound) :
       /\ version' = promoted[1]
       /\ chapter' = Shown(promoted[2])
       /\ Continue([run EXCEPT !.text = promoted[2], !.phase = "hard_check"])
  /\ UNCHANGED <<panel, orders, best, gate>>

\* takeOverWriterOrBlock: a technical failure of the writer's model hands the
\* phase to the backup writer once, if there is one to take it.
WriterTakenOver ==
  /\ exec.step \in {"draft", "rewrite"}
  /\ run.taken = 0 /\ run.writer # "backup" /\ run.epoch = "held"
  /\ Continue([run EXCEPT !.writer = "backup", !.taken = 1, !.panel = 0,
                 !.phase = IF Step("draft") THEN "context" ELSE "rewrite"])
  /\ UNCHANGED <<texts, panel, gate, chapter>>

WriterBlocked ==
  /\ exec.step \in {"draft", "rewrite"}
  /\ Throw(TRUE, run, panel, chapter)
  /\ UNCHANGED texts
-----------------------------------------------------------------------------
(* Hard checks.                                                            *)

\* shouldStopHardCheckRepair: after two rewrites only the length is repaired,
\* once.
RepairIsOver ==
  run.rewrites >= 2 /\ (Verdict(version[run.text]) = "broken" \/ task[exec.task].third)

\* restoreNearestHardValidAncestor, over the texts vs: the text is rejected, even
\* if it is the canon of the chapter.  Without one to restore the run is blocked.
RestoreAncestor(vs) ==
  LET v == run.text
      a == NearestPassed(v)
  IN  IF a = 0
      THEN /\ Throw(TRUE, run, panel, chapter)
           /\ version' = vs /\ UNCHANGED orders
      ELSE /\ version' = [vs EXCEPT ![v].status = "rejected"]
           /\ orders' = orders \ {v}
           /\ chapter' = Shown(a)
           /\ Continue([run EXCEPT !.text = a, !.panel = 0, !.phase = "review"])
           /\ UNCHANGED <<panel, gate>>

HardCheck ==
  LET v == run.text
      checked == [version EXCEPT ![v] = WithCheck(@)]
  IN  /\ Phase("hard_check") /\ v # 0
      /\ IF ~Sound(v) /\ RepairIsOver
         THEN RestoreAncestor(checked)
         ELSE /\ version' = checked
              /\ Continue([run EXCEPT !.phase =
                   IF ~Sound(v) THEN "rewrite" ELSE IF Op = "trial" THEN "completed" ELSE "review"])
              /\ UNCHANGED <<orders, panel, gate, chapter>>
      /\ UNCHANGED best

\* checkTargetAgainstAllSources refuses a text whose passing check is on record.
CopyrightBlocked ==
  /\ Phase("hard_check") /\ run.text # 0 /\ Sound(run.text)
  /\ version' = [version EXCEPT ![run.text] = WithCheck(@)]
  /\ Throw(FALSE, run, panel, chapter)
  /\ UNCHANGED <<orders, best>>
-----------------------------------------------------------------------------
(* Review: the panel, its seats, the author's request and the synthesis.   *)

\* A panel of the text that another attempt may take up: same writer, same
\* canon, not synthesized.
Resumable(ps) ==
  {p \in DOMAIN ps : /\ ps[p].text = run.text /\ ps[p].status # "complete"
                     /\ ps[p].writer = run.writer /\ ps[p].canon = run.canon
                     /\ ~ps[p].merged}
PanelsOf(v) == {p \in DOMAIN panel : panel[p].text = v}

NewPanel ==
  [text |-> run.text, writer |-> run.writer, canon |-> run.canon, status |-> "working",
   full |-> FALSE, asked |-> FALSE, merged |-> FALSE, recorded |-> FALSE]

OpenPanel ==
  LET ps == Blocked(panel, {run.panel})
      p == Nearest(Resumable(ps))
  IN  /\ Phase("review") /\ run.text # 0 /\ run.epoch = "held"
      /\ IF p # 0
         THEN /\ panel' = [ps EXCEPT ![p].status = "working"]
              /\ run' = [run EXCEPT !.panel = p]
         ELSE /\ Cardinality(PanelsOf(run.text)) < 3 /\ Len(panel) < MaxPanels
              /\ panel' = Append(ps, NewPanel)
              /\ run' = [run EXCEPT !.panel = Len(panel) + 1]
      /\ Wait("seats", run.panel)
      /\ UNCHANGED <<texts, gate, chapter>>

\* The same text is not reviewed a fourth time.
ReviewsExhausted ==
  LET ps == Blocked(panel, {run.panel})
  IN  /\ Phase("review") /\ Resumable(ps) = {}
      /\ Cardinality({p \in PanelsOf(run.text) : ps[p].status # "working"}) >= 3
      /\ Throw(TRUE, run, ps, chapter)
      /\ UNCHANGED texts

Reported == [panel EXCEPT ![run.panel].full = TRUE]

\* Until the author asks for the synthesis, complete reports pause the task.
SeatsReport ==
  /\ Step("seats")
  /\ panel' = Reported
  /\ IF panel[run.panel].asked
     THEN Wait("synthesis", exec.panel) /\ UNCHANGED run
     ELSE /\ run' = [run EXCEPT !.status = "paused"]
          /\ task' = [task EXCEPT ![exec.task].status = "paused", ![exec.task].reviewing = TRUE]
          /\ exec' = Idle
          /\ UNCHANGED <<revision, stale>>
  /\ UNCHANGED <<texts, gate, chapter>>

\* A seat fails, or its report cannot be repaired, or the pause is refused.
SeatsFail ==
  /\ Step("seats")
  /\ \E quality \in BOOLEAN, ps \in {panel, Reported} :
       /\ quality => ~ps[run.panel].full
       /\ Throw(quality, run, Blocked(ps, {run.panel}), chapter)
  /\ UNCHANGED texts

SynthesisFails ==
  /\ Step("synthesis")
  /\ Throw(FALSE, run, Blocked(panel, {run.panel}), chapter)
  /\ UNCHANGED texts

\* No active editor to write it.
SynthesisBlocked ==
  /\ Step("synthesis")
  /\ Throw(TRUE, run, panel, chapter)
  /\ UNCHANGED texts

\* What the reports of a panel decide (decideProductionReviewOutcome), whether
\* they hold a hard problem (hasHardProblem), and whether they fall behind the
\* best text's (compareSubjective).  Only a late round passes a hard problem.
Outcomes ==
  {o \in [verdict : {"pass", "rewrite", "blocked"}, hard : BOOLEAN, regressed : BOOLEAN] :
     o.verdict = "pass" /\ o.hard => run.rewrites >= 2}

Synthesized(ps) == [ps EXCEPT ![run.panel].merged = TRUE]

\* persistEditorSynthesis is done, and the writer's lease is found lapsed.
MergeRefused ==
  /\ Step("synthesis")
  /\ Throw(FALSE, run, Synthesized(panel), chapter)
  /\ UNCHANGED texts

\* merge: an order while rounds are left, and the end of the panel, unless a
\* stale execution has blocked it.
\* Defect: the second review that finds fault leaves no order.
FirstOrders(o) ==
  IF o.verdict # "pass" /\ run.rewrites = 0 THEN {run.text} ELSE orders
MergedOrders(o) ==
  IF o.verdict # "pass" /\ run.rewrites <= 1 THEN {run.text} ELSE orders
Merged(o) ==
  LET p == run.panel
      ps == Synthesized(panel)
  IN  IF ps[p].status # "working" THEN ps
      ELSE [ps EXCEPT ![p].status = IF o.verdict = "blocked" THEN "blocked" ELSE "complete"]

\* merge writes the order and the end of the panel; the quality snapshot is a
\* transaction after it, and may fail alone.
MergedOnly ==
  /\ Step("synthesis")
  /\ \E o \in Outcomes :
       /\ orders' = MergedOrders(o)
       /\ Throw(FALSE, run, Merged(o), chapter)
  /\ UNCHANGED <<version, best>>

RetainsBest(o) == best \notin {0, run.text} /\ (o.hard \/ o.regressed)
Recorded(o) == [Merged(o) EXCEPT ![run.panel].recorded = TRUE]
\* Defect: the best text comes back under the panel that lost to it.
SnapshotOfRun(v) == run.panel
SnapshotOf(v) == Nearest({p \in PanelsOf(v) : panel[p].recorded})

\* restoreBest: the reviewed text is rejected and the best one takes its place.
RestoreBest(o) ==
  LET v == run.text
      r == [run EXCEPT !.text = best]
  IN  /\ version' = IF version[v].status = "canon" THEN version
                    ELSE [version EXCEPT ![v].status = "rejected"]
      /\ orders' = MergedOrders(o) \ {v}
      /\ IF o.hard
         THEN Throw(TRUE, r, Recorded(o), Shown(best))
         ELSE /\ Continue([r EXCEPT !.panel = SnapshotOf(best), !.phase = "facts"])
              /\ panel' = Recorded(o)
              /\ chapter' = Shown(best)
              /\ UNCHANGED gate

FollowVerdict(o) ==
  /\ orders' = MergedOrders(o)
  /\ IF o.verdict = "blocked" /\ o.hard
     THEN Throw(TRUE, run, Recorded(o), chapter)
     ELSE /\ Continue([run EXCEPT !.phase =
               IF /\ o.verdict = "rewrite" /\ Op # "review_existing" /\ run.rewrites < 2
               THEN "rewrite" ELSE "facts"])
          /\ panel' = Recorded(o)
          /\ UNCHANGED <<gate, chapter>>
  /\ UNCHANGED version

Merge ==
  /\ Step("synthesis")
  /\ \E o \in Outcomes :
       /\ best' = IF o.hard \/ RetainsBest(o) THEN best ELSE run.text
       /\ IF RetainsBest(o) /\ Op # "review_existing" THEN RestoreBest(o) ELSE FollowVerdict(o)
-----------------------------------------------------------------------------
(* Rewrite.                                                                *)

SendRewrite ==
  /\ Phase("rewrite") /\ run.text # 0 /\ run.epoch = "held"
  /\ run.text \in orders \/ FailedCheck(run.text) \/ Op = "rewrite_existing"
  /\ Wait("rewrite", 0)
  /\ UNCHANGED <<run, texts, panel, gate, chapter>>

\* boundedRewriteCountAfterAttempt.  Defect: rewrites are not bounded; or those
\* that change nothing in the outcome are not counted.
SpentUnbounded == run.rewrites + 1
SpentNothing == run.rewrites
Spent == Min({2, run.rewrites + 1})

\* decideUnchangedRewriteRecovery: the answer is the text itself.
Unchanged ==
  IF ~LatestPassed(run.text)
  THEN RestoreAncestor(version)
  ELSE /\ orders' = IF run.rewrites = 0 THEN orders ELSE orders \ {run.text}
       /\ Continue([run EXCEPT !.rewrites = Spent,
                      !.phase = IF run.rewrites = 0 THEN "rewrite" ELSE "facts"])
       /\ UNCHANGED <<version, panel, gate, chapter>>

\* decideRewriteCandidateRecovery, over the texts vs with the candidate c in.
Candidate(vs, c) ==
  LET v == run.text
      verdict == Verdict(vs[c])
      accept == ~LatestPassed(v) \/ verdict = "sound"
      repair == run.rewrites = 1 /\ verdict = "near"
      kept == accept \/ repair
  IN  /\ version' = IF accept THEN vs ELSE IF repair THEN [vs EXCEPT ![c] = WithCheck(@)]
                    ELSE [vs EXCEPT ![c] = WithCheck([@ EXCEPT !.status = "rejected"])]
      /\ orders' = IF kept \/ run.rewrites > 0 THEN orders \ {v} ELSE orders
      /\ chapter' = Shown(IF kept THEN c ELSE v)
      /\ Continue([run EXCEPT !.text = IF kept THEN c ELSE v, !.rewrites = Spent,
           !.phase = IF accept THEN "hard_check"
                     ELSE IF repair \/ run.rewrites = 0 THEN "rewrite" ELSE "facts"])
      /\ UNCHANGED <<panel, gate>>

\* The call's result is kept before its words are promoted: a third rewrite
\* counts as made whatever comes of them.
RewriteReceived ==
  /\ Step("rewrite")
  /\ task' = [task EXCEPT ![exec.task].third = @ \/ run.rewrites >= 2]
  /\ exec' = [exec EXCEPT !.step = "candidate"]
  /\ UNCHANGED <<run, texts, panel, gate, chapter, revision, stale>>

RewritePromoted ==
  /\ Step("candidate")
  /\ \E promoted \in Promoted(run.text) :
       IF promoted[2] = run.text THEN Unchanged ELSE Candidate(promoted[1], promoted[2])
  /\ UNCHANGED best
-----------------------------------------------------------------------------
(* The gate: extractFacts and settle.                                      *)

Reviewed == run.text # 0 /\ run.panel # 0

\* Defect: only the canon text itself is known as a revision of canon.
RevisingCanonText == chapter.settle = "settled" /\ run.text = chapter.canon
Revising == chapter.settle = "settled" /\ Op \in Explicit

\* createApprovalGate: one row per text, taken again once it was refused.
Facts ==
  LET v == run.text
  IN  /\ Phase("facts") /\ Reviewed
      /\ gate[v].status \in {"none", "rejected", "superseded"}
      /\ gate' = [gate EXCEPT ![v] = [status |-> "awaiting", panel |-> run.panel,
                    task |-> exec.task, canon |-> run.canon, open |-> TRUE]]
      /\ chapter' = [chapter EXCEPT !.settle = IF Revising THEN @ ELSE "awaiting"]
      /\ Continue([run EXCEPT !.gated = TRUE, !.phase = "settlement"])
      /\ UNCHANGED <<texts, panel>>

Settle ==
  /\ Phase("settlement") /\ run.gated
  /\ Continue([run EXCEPT !.phase = "completed"])
  /\ UNCHANGED <<texts, panel, gate, chapter>>
-----------------------------------------------------------------------------
(* The lease of the task runs out: recoverExpired.  The process that held  *)
(* it is gone, or it still waits for an answer and fails when it comes.    *)

Waiting == exec.step \in {"draft", "rewrite", "seats", "synthesis"}
Doomed == {exec.panel} \cup (IF exec.step \in {"seats", "synthesis"} THEN {run.panel} ELSE {})

Recover ==
  /\ exec # Idle
  /\ \E next \in {"queued", "interrupted"} :
       /\ next = "interrupted" => Waiting
       /\ task' = [task EXCEPT ![exec.task].status =
                     IF task[exec.task].cancel THEN "cancelled" ELSE next]
  /\ \/ stale' = NoStale
     \/ Waiting /\ stale = NoStale /\ stale' = [task |-> exec.task, panels |-> Doomed]
  /\ exec' = Idle
  /\ run' \in {run} \cup (IF Phase("completed") THEN {[run EXCEPT !.status = "completed"]} ELSE {})
  /\ UNCHANGED <<texts, panel, gate, chapter, revision>>

\* The process dies between two writes of a phase, and recoverExpired finds its task.
Dies ==
  /\ task' = [task EXCEPT ![exec.task].status =
                IF task[exec.task].cancel THEN "cancelled" ELSE "queued"]
  /\ exec' = Idle /\ stale' = NoStale
  /\ UNCHANGED <<run, best, gate, revision>>

\* Between the order of a merge and the end of its panel.
OrderOnly ==
  /\ Step("synthesis")
  /\ \E o \in Outcomes : orders' = MergedOrders(o)
  /\ panel' = Synthesized(panel)
  /\ Dies
  /\ UNCHANGED <<version, chapter>>

\* Among the statements of restoreNearestHardValidAncestor: the text is rejected, its
\* order may be cancelled and the ancestor shown, the run is where it was.
RestoreOnly ==
  LET v == run.text
      a == NearestPassed(v)
  IN  /\ \/ /\ Phase("hard_check") /\ v # 0 /\ ~Sound(v) /\ RepairIsOver
            /\ version' = [version EXCEPT ![v] = WithCheck([@ EXCEPT !.status = "rejected"])]
         \/ /\ Step("candidate") /\ Active(v) /\ ~LatestPassed(v)
            /\ version' = [version EXCEPT ![v].status = "rejected"]
      /\ a # 0
      /\ \/ orders' = orders /\ chapter' = chapter
         \/ orders' = orders \ {v} /\ chapter' \in {chapter, Shown(a)}
      /\ Dies
      /\ UNCHANGED panel

\* Its catch block writes the run and the chapter without asking whose they are.
StaleThrows ==
  /\ stale # NoStale
  /\ run' = [run EXCEPT !.status = "failed"]
  /\ panel' = Blocked(panel, stale.panels)
  /\ chapter' = IF chapter.settle = "settled" \/ task[stale.task].cancel THEN chapter
                ELSE [chapter EXCEPT !.failed = TRUE]
  /\ stale' = NoStale
  /\ UNCHANGED <<texts, task, gate, revision, exec>>
-----------------------------------------------------------------------------
(* The author's requests, each one transaction or one that cannot be       *)
(* parted: none is served while a phase runs without waiting.              *)

Served == exec = Idle \/ Waiting
Busy(statuses) == \E t \in DOMAIN task : task[t].status \in statuses
InProgress == {"queued", "working", "paused", "interrupted"}

Create(op, v) ==
  /\ Len(task) < MaxTasks
  /\ task' = Append(task, [status |-> "queued", op |-> op, bound |-> v, third |-> FALSE,
                           attempts |-> 0, cancel |-> FALSE, reviewing |-> FALSE])

\* scheduleNewChapters: a chapter without a text, or one that failed.
ScheduleNew(op) ==
  /\ Served /\ chapter.settle = "unsettled"
  /\ ~Busy(InProgress \cup {"waiting_confirmation"})
  /\ chapter.failed \/ version = <<>>
  /\ Create(op, 0)
  /\ chapter' = [chapter EXCEPT !.failed = FALSE]
  /\ UNCHANGED <<run, texts, panel, gate, revision, exec, stale>>

\* The routes finalize and rewrite: a text that awaits its author is shown
\* or refused there instead.
ScheduleRevision(op) ==
  LET v == IF chapter.settle = "settled" THEN chapter.canon ELSE chapter.current
  IN  /\ Served /\ Active(v) /\ gate[v].status # "awaiting"
      /\ ~Busy(InProgress \cup {"waiting_confirmation"})
      /\ Create(op, v)
      /\ UNCHANGED <<run, texts, panel, gate, chapter, revision, exec, stale>>

\* The route review-synthesis.  Defect: the request is noted, the paused task is
\* left to the author.
NoteRequest ==
  /\ Served /\ run.phase = "review" /\ run.panel # 0 /\ run.text # 0
  /\ panel[run.panel].full
  /\ panel' = [panel EXCEPT ![run.panel].asked = TRUE]
  /\ UNCHANGED <<run, task, texts, gate, chapter, revision, exec, stale>>
RequestSynthesis ==
  /\ Served /\ run.phase = "review" /\ run.panel # 0 /\ run.text # 0
  /\ panel[run.panel].full
  /\ panel' = [panel EXCEPT ![run.panel].asked = TRUE]
  /\ task' = [task EXCEPT ![run.task].status = IF @ = "paused" THEN "queued" ELSE @]
  /\ UNCHANGED <<run, texts, gate, chapter, revision, exec, stale>>

\* What lets the author accept the text v.
Acceptable(v) ==
  /\ gate[v].status = "awaiting" /\ gate[v].open
  /\ gate[v].canon = revision
  /\ version[v].status = "candidate"
  /\ run.task = gate[v].task /\ task[run.task].status = "waiting_confirmation"

\* resolve with accept, and settleChapter.
Accept(v) ==
  /\ Served /\ Acceptable(v) /\ revision < MaxRevision
  /\ version' = [version EXCEPT ![v].status = "canon"]
  /\ chapter' = [current |-> v, canon |-> v, settle |-> "settled", failed |-> FALSE]
  /\ gate' = [gate EXCEPT ![v].status = "settled", ![v].open = FALSE]
  /\ task' = [task EXCEPT ![run.task].status = "succeeded"]
  /\ revision' = revision + 1
  /\ UNCHANGED <<run, panel, orders, best, exec, stale>>

\* What a refusal makes of the gate of v and of the chapter.  Defect: it leaves
\* the gate, or the chapter, as it was.
StillGated(v) == gate
Refused(v) == [gate EXCEPT ![v].status = "rejected", ![v].open = FALSE]
StillAwaiting == chapter
Unsettled ==
  [chapter EXCEPT !.settle = IF chapter.canon = 0 THEN "unsettled" ELSE @]

\* prepareOwnerRejectedRewrite: the run is sent back while rounds are left.
Reject(v) ==
  LET t == gate[v].task
      waiting == task[t].status = "waiting_confirmation"
  IN  /\ Served
      /\ gate[v].status = "awaiting" /\ gate[v].open /\ run.task = t
      /\ gate' = Refused(v)
      /\ chapter' = Unsettled
      /\ IF run.rewrites < 2
         THEN /\ orders' = {v}
              /\ run' = [run EXCEPT !.phase = "rewrite", !.status = "paused", !.gated = FALSE]
              /\ task' = IF ~waiting THEN task
                         ELSE [task EXCEPT ![t] = [@ EXCEPT !.status = "paused",
                                !.op = "rewrite_existing", !.bound = v, !.reviewing = FALSE]]
         ELSE /\ task' = IF ~waiting THEN task
                         ELSE [task EXCEPT ![t].status = "blocked", ![t].reviewing = FALSE]
              /\ UNCHANGED <<orders, run>>
      /\ UNCHANGED <<version, best, panel, revision, exec, stale>>

\* The route outline-alignment: the pending confirmation of a text is
\* superseded, its gate is not.
AlignOutline(v) ==
  /\ Served /\ gate[v].open
  /\ gate' = [gate EXCEPT ![v].open = FALSE]
  /\ UNCHANGED <<run, task, texts, panel, chapter, revision, exec, stale>>

\* supersedeGate, for every gate that awaits the author.
Awaiting == {v \in DOMAIN gate : gate[v].status = "awaiting"}
Superseded ==
  /\ gate' = [v \in DOMAIN gate |-> IF v \notin Awaiting THEN gate[v]
                 ELSE [gate[v] EXCEPT !.status = "superseded", !.open = FALSE]]
  /\ LET left == {gate[v].task : v \in Awaiting}
     IN  task' = [t \in DOMAIN task |->
                    IF t \in left /\ task[t].status = "waiting_confirmation"
                    THEN [task[t] EXCEPT !.status = "cancelled", !.cancel = TRUE] ELSE task[t]]

SaveDraft ==
  /\ Served /\ chapter.settle # "settled" /\ ~Busy(InProgress)
  /\ Len(version) < MaxTexts
  /\ \E g \in Grades, c \in Clashes : version' = Register(chapter.current, "owner", g, c)
  /\ chapter' = [chapter EXCEPT !.current = Len(version'), !.settle = "unsettled", !.failed = FALSE]
  /\ Superseded
  /\ UNCHANGED <<run, orders, best, panel, revision, exec, stale>>

Withdraw ==
  /\ Served /\ chapter.settle # "settled" /\ ~Busy(InProgress)
  /\ chapter.current # 0 /\ chapter.canon = 0
  /\ chapter' = [chapter EXCEPT !.current = 0, !.settle = "unsettled", !.failed = FALSE]
  /\ Superseded
  /\ UNCHANGED <<run, texts, panel, revision, exec, stale>>

\* hasIncompleteReviewPanel never sees three reports as enough.
Retriable(t) ==
  \/ task[t].status \in {"failed", "interrupted"}
  \/ task[t].status = "blocked" /\ task[t].reviewing /\ run.task = t /\ run.panel # 0

RetryFailed(t) ==
  /\ Served /\ Retriable(t)
  /\ task' = [task EXCEPT ![t].status = "queued", ![t].cancel = FALSE]
  /\ UNCHANGED <<run, texts, panel, gate, chapter, revision, exec, stale>>

Resume(t) ==
  /\ Served /\ task[t].status = "paused"
  /\ task' = [task EXCEPT ![t].status = "queued"]
  /\ UNCHANGED <<run, texts, panel, gate, chapter, revision, exec, stale>>

Cancel(t) ==
  /\ Served /\ ~task[t].cancel
  /\ task' = [task EXCEPT ![t].cancel = TRUE,
        ![t].status = IF @ \in {"queued", "paused", "blocked", "waiting_confirmation"}
                      THEN "cancelled" ELSE @]
  /\ UNCHANGED <<run, texts, panel, gate, chapter, revision, exec, stale>>

\* Another chapter of the book takes the writer, or completes the book's
\* revision orders, or settles.
OtherChapterRuns ==
  /\ exec = Idle /\ run.epoch = "held"
  /\ run' = [run EXCEPT !.epoch = "lost"]
  /\ orders' \in {orders, {}}
  /\ UNCHANGED <<version, best, task, panel, gate, chapter, revision, exec, stale>>

OtherChapterSettles ==
  /\ Served /\ revision < MaxRevision
  /\ revision' = revision + 1
  /\ \E S \in SUBSET Texts : version' = [v \in Texts |-> [version[v] EXCEPT !.clash = v \in S]]
  /\ UNCHANGED <<run, task, orders, best, panel, gate, chapter, exec, stale>>
-----------------------------------------------------------------------------
Proceed ==
  \/ Preflight \/ PreflightBlocked \/ Context
  \/ SendDraft \/ DraftAnswered \/ HardCheck
  \/ OpenPanel \/ ReviewsExhausted \/ SeatsReport \/ Merge
  \/ SendRewrite \/ RewriteReceived \/ RewritePromoted
  \/ Facts \/ Settle \/ Close

Fail ==
  \/ ExecutionThrows \/ WriterTakenOver \/ WriterBlocked \/ CopyrightBlocked
  \/ SeatsFail \/ SynthesisFails \/ SynthesisBlocked \/ MergeRefused \/ MergedOnly

Execute == Proceed \/ ("failure" \in Events /\ Fail)

Runtime ==
  \/ \E t \in DOMAIN task : Claim(t) \/ ClaimRefused(t)
  \/ "expiry" \in Events /\ (Recover \/ OrderOnly \/ RestoreOnly \/ StaleThrows)
  \/ "other chapter" \in Events /\ (OtherChapterRuns \/ OtherChapterSettles)

Author ==
  \/ \E op \in Operations \ Explicit : ScheduleNew(op)
  \/ \E op \in Operations \cap Explicit : ScheduleRevision(op)
  \/ RequestSynthesis
  \/ \E v \in Texts : Accept(v) \/ Reject(v)
  \/ \E t \in DOMAIN task : RetryFailed(t) \/ Resume(t)
  \/ "cancellation" \in Events /\ \E t \in DOMAIN task : Cancel(t)
  \/ "edit" \in Events /\ (SaveDraft \/ Withdraw \/ \E v \in Texts : AlignOutline(v))

Next == (Execute \/ Runtime \/ Author) /\ UNCHANGED scenario

\* A phase takes its next step, and a call ends by its answer or its deadline.
Spec == Init /\ [][Next]_vars
FairSpec == Spec /\ WF_vars(Execute /\ UNCHANGED scenario)
-----------------------------------------------------------------------------
(* Properties.                                                             *)

VersionNo == 0 .. MaxTexts
PanelNo == 0 .. MaxPanels
TaskNo == 0 .. MaxTasks

\* The rows, with the two rewrites the schema allows a run (findOrCreateRun,
\* boundedRewriteCountAfterAttempt) and its one change of writer.
TypeOK ==
  /\ run \in [task : TaskNo, text : VersionNo, panel : PanelNo, gated : BOOLEAN,
              status : {"working", "paused", "failed", "completed"},
              phase : {"preflight", "context", "draft", "hard_check", "review", "rewrite",
                       "facts", "settlement", "completed"},
              rewrites : 0 .. 2, taken : 0 .. 1, writer : {"lead", "backup"},
              epoch : {"none", "held", "lost"}, canon : 0 .. MaxRevision]
  /\ Len(task) <= MaxTasks /\ Len(version) <= MaxTexts /\ Len(panel) <= MaxPanels
  /\ orders \subseteq Texts /\ best \in {0} \cup Texts
  /\ chapter \in [current : {0} \cup Texts, canon : {0} \cup Texts, failed : BOOLEAN,
                  settle : {"unsettled", "awaiting", "settled"}]
  /\ revision \in 0 .. MaxRevision

\* What the author is asked to accept once passed every hard check and is shown with a
\* finished review of that very text: the text a recovery restored never comes
\* with the panel of the text it replaced.  That the text is not rejected is no
\* part of it: see the README's known gaps.
GatesAreReviewed ==
  \A v \in Awaiting :
    /\ Passed(v)
    /\ LET p == panel[gate[v].panel]
       IN  p.text = v /\ p.full /\ p.merged

\* The execution of a task never asks the author to accept a text and leaves the
\* chapter showing another, through rewrites refused, ancestors and best texts
\* restored: only the author, who edits or withdraws while a run is failed,
\* parts the two.
AskedIsShown ==
  \A v \in Texts :
    Acceptable(v) => \/ chapter.current \in {0, v}
                     \/ version[chapter.current].author = "owner"

\* At most one text of the chapter can become its canon at any moment, through
\* refusals, revisions and outline changes.
OneAcceptable ==
  \A v, w \in Texts : Acceptable(v) /\ Acceptable(w) => v = w

\* A chapter that awaits its author has a gate to decide, so none is left
\* with no route out of awaiting_confirmation.
AwaitingHasGate ==
  chapter.settle = "awaiting" => Awaiting # {}

\* A chapter with a canon text stays settled while revisions of it are written,
\* reviewed, refused and restored, and nothing rejects its canon text but a hard
\* check it no longer passes: it passed once, before an earlier chapter was revised.
CanonIsSettled ==
  chapter.canon # 0 =>
    /\ chapter.settle = "settled" /\ Passed(chapter.canon)
    /\ version[chapter.canon].status = "canon" \/ FailedCheck(chapter.canon)

\* A run is sent to rewrite for a reason that is still on record when it gets
\* there: an order, a failed check, or the author's instruction.
RewritesHaveACause ==
  Phase("rewrite") /\ run.epoch = "held" =>
    run.text \in orders \/ FailedCheck(run.text) \/ Op = "rewrite_existing"

\* An author who asks for the synthesis never finds the chapter paused for want
\* of the request, whether it came before the last report, during a resumed
\* review or after the pause (editorSynthesisWasRequested, review-synthesis).
RequestsAreServed ==
  \A t \in DOMAIN task :
    run.task = t /\ task[t].status = "paused" /\ run.phase = "review" /\ run.panel # 0 =>
      ~panel[run.panel].asked

\* No execution goes round its phases for ever: rewrites, repairs, takeovers
\* and restored texts all run out.
ExecutionsEnd == (exec # Idle) ~> (exec = Idle)

\* A text whose outline the author aligned can be sent to review again
\* (domain-routes.ts:2339): no gate of it stands in the way.
AlignedCanBeReviewed ==
  \A v \in Awaiting : gate[v].open

=============================================================================
