----------------------------- MODULE CreationChain -----------------------------
(***************************************************************************)
(* The writing of a chain of chapters: generateManuscript (write, review,  *)
(* and once more with the reviewer's remarks), finalizeManuscript, the     *)
(* managed run that repeats both until the chain is written, and what the  *)
(* author may do beside it: write a chapter alone, finalize, cancel,       *)
(* activate the run again.  The write-back is Formalization, which this    *)
(* module extends: both change the workflow row, and the stage they give   *)
(* it decides what the other may do next.                                  *)
(*                                                                         *)
(* A generation belongs to the managed run or to a request of the author.  *)
(* Texts and calls are numbered in the order they are created, 0 is the    *)
(* absence of one.  The reviewers' fallback chain is one member: it        *)
(* excludes the writer's model, and adds nothing the writers' chain lacks. *)
(***************************************************************************)
EXTENDS Formalization

CONSTANTS
  NumWriters, \* members in the fallback chain of lead writers
  MaxTexts,   \* bound on the texts of the chain
  MaxCalls    \* bound on the calls of writers and reviewers

ASSUME WritersAssumption == NumWriters \in Nat \ {0} /\ MaxTexts \in Nat /\ MaxCalls \in Nat

VARIABLES
  call,    \* the other rows of v7_creation_model_calls
  gen,     \* API memory: the generateManuscript of each owner
  managed, \* the row of v7_managed_creation_runs
  drain    \* API memory: the drain that drives it

making == <<call, gen>>
driving == <<managed, drain>>
writeBack == <<outbox, editing, chores, job, batch>>
vars == <<written, writeBack, making, driving, turn, scenario>>

Owners == {"managed", "author"}
NoGen == [step |-> "none", chapter |-> 0, attempt |-> 0, pass |-> 0, text |-> 0,
          first |-> 0, member |-> 0, trial |-> 0, ack |-> 0]

Init ==
  /\ workflow = [stage |-> "manuscript", status |-> "awaiting_author", text |-> 0, ack |-> 0]
  /\ text = <<>> /\ call = <<>>
  /\ gen = [o \in Owners |-> NoGen]
  /\ managed = [status |-> "none", leased |-> FALSE, writer |-> 1]
  /\ drain = [step |-> "none", owns |-> FALSE]
  /\ InitWriteBack
-----------------------------------------------------------------------------
(* generate of the gateway: a request that was made before is not repeated, *)
(* and a node whose latest call is unresolved gets no other.               *)

Unresolved(c) == c.state \in {"working", "unknown"}
SameNode(a, b) == a.kind = b.kind /\ a.of = b.of /\ a.pass = b.pass
SameRequest(a, b) == SameNode(a, b) /\ a.attempt = b.attempt /\ a.member = b.member

Earlier(r) == {i \in DOMAIN call : SameRequest(call[i], r)}
Siblings(r) == {i \in DOMAIN call : SameNode(call[i], r) /\ ~SameRequest(call[i], r)}

\* The check of the siblings.  Defect: a call nobody answered any more does not block.
BlockingUnknown(r, ack) ==
  {i \in Siblings(r) : call[i].state = "unknown" /\ i # ack /\ \A j \in Siblings(r) : j <= i}
Blocking(r, ack) ==
  {i \in Siblings(r) : Unresolved(call[i]) /\ i # ack /\ \A j \in Siblings(r) : j <= i}

Request(kind, of, pass, attempt, member) ==
  [kind |-> kind, of |-> of, pass |-> pass, attempt |-> attempt, member |-> member]
WriteRequest(g) == Request("write", g.chapter, g.pass, g.attempt, g.member)
ReviewRequest(g, repair) == Request("review", g.text, repair, g.trial, 0)

\* What generate says at once, or the row it begins.
Recall(r) == IF Earlier(r) = {} THEN "none" ELSE call[CHOOSE i \in Earlier(r) : TRUE].state
Begin(r) ==
  call' = Append(call, [kind |-> r.kind, of |-> r.of, pass |-> r.pass, attempt |-> r.attempt,
                        member |-> r.member, state |-> "working", acked |-> FALSE])
EndCall(r, state) ==
  call' = [i \in DOMAIN call |-> IF i \in Earlier(r) THEN [call[i] EXCEPT !.state = state] ELSE call[i]]
-----------------------------------------------------------------------------
(* generateManuscript.                                                     *)

TextsOf(c) == {v \in DOMAIN text : text[v].chapter = c}
Latest(S) == IF S = {} THEN 0 ELSE Max(S)
Step(o, step) == gen[o].step = step
Goes(o, g) == gen' = [gen EXCEPT ![o] = g]

\* The writers in the order they are asked: the preferred one, then the others.
\* 0 when there is none left.
After(first, m) ==
  LET others == {i \in 1 .. NumWriters : i # first /\ (m = first \/ i > m)}
  IN  IF others = {} THEN 0 ELSE Min(others)

Start(o, c, step) ==
  /\ workflow' = [workflow EXCEPT !.stage = "manuscript", !.status = "working"]
  /\ Goes(o, [NoGen EXCEPT !.step = step, !.chapter = c, !.pass = 1, !.ack = workflow.ack])

\* The attempt a generation of chapter c is, when its context is compiled.
Attempt(c) == Cardinality(TextsOf(c)) + 1

\* The catch block; the managed run's own follows, in the same turn.
Fail(o, status) ==
  /\ gen' = [gen EXCEPT ![o] = NoGen]
  /\ LET last == Latest(TextsOf(gen[o].chapter))
         ended == IF o = "managed" /\ status = "partially_failed" THEN "failed" ELSE status
     IN  workflow' = IF workflow.status = "cancelled" THEN workflow
                     ELSE [workflow EXCEPT !.stage = IF last = 0 THEN "manuscript" ELSE "manuscript_confirmation",
                                           !.status = ended, !.text = IF last = 0 THEN @ ELSE last]
  /\ IF o # "managed" THEN UNCHANGED driving
     ELSE /\ drain' = [drain EXCEPT !.step = "none", !.owns = FALSE]
          /\ managed' = IF ~drain.owns THEN managed
                        ELSE [managed EXCEPT !.leased = FALSE,
                                !.status = IF status = "unknown" THEN "unknown" ELSE "failed"]

Cancelled == workflow.status = "cancelled"

\* A member did not deliver: the next one is asked, unless there is none.
NextWriter(o, g) ==
  LET m == After(g.first, g.member)
  IN  IF m = 0 THEN Fail(o, "partially_failed")
      ELSE Goes(o, [g EXCEPT !.step = "write", !.member = m]) /\ UNCHANGED <<workflow, driving>>

SavedAs(g, id) ==
  Append(text, [chapter |-> g.chapter, lifecycle |-> "draft", verdict |-> "none", request |-> id,
                 receipt |-> "none"])

\* A clean answer is saved once; what is not clean is kept as the call's answer only.
Written(o, g, r) ==
  LET saved == {v \in DOMAIN text : text[v].request = r}
  IN  /\ saved = {} => Len(text) < MaxTexts
      /\ text' = IF saved = {} THEN SavedAs(g, r) ELSE text
      /\ Goes(o, [g EXCEPT !.step = "draft", !.text = IF saved = {} THEN Len(text) + 1 ELSE Max(saved)])
      /\ UNCHANGED <<workflow, driving>>

\* The draft of an earlier generation that nobody reviewed, if there is one.
Unreviewed(c) == {v \in TextsOf(c) : text[v].lifecycle = "draft" /\ text[v].verdict = "none"}

PickDraft(o) ==
  /\ Step(o, "resume")
  /\ LET c == gen[o].chapter
         v == Latest(Unreviewed(c))
     IN  IF v = 0 THEN Fail(o, "partially_failed")
         ELSE /\ Goes(o, [gen[o] EXCEPT !.step = "draft", !.text = v, !.attempt = Attempt(c)])
              /\ UNCHANGED <<workflow, driving>>
  /\ UNCHANGED <<text, call, writeBack, turn>>

\* The context is compiled, then a writer is asked, first the preferred one.
AskWriter(o) ==
  /\ Step(o, "write")
  /\ LET g == IF gen[o].member # 0 THEN gen[o]
              ELSE [gen[o] EXCEPT !.first = managed.writer, !.member = managed.writer,
                                  !.attempt = IF gen[o].pass = 1 THEN Attempt(gen[o].chapter) ELSE @]
         r == WriteRequest(g)
         was == Recall(r)
         blocked == Blocking(r, g.ack) # {}
     IN  \/ Cancelled /\ Fail(o, "partially_failed") /\ UNCHANGED <<text, call>>
         \/ /\ ~Cancelled /\ (was \in {"working", "unknown"} \/ (was = "none" /\ blocked))
            /\ Fail(o, "unknown") /\ UNCHANGED <<text, call>>
         \/ ~Cancelled /\ was = "failed" /\ NextWriter(o, g) /\ UNCHANGED <<text, call>>
         \/ ~Cancelled /\ was = "bad" /\ Fail(o, "partially_failed") /\ UNCHANGED <<text, call>>
         \/ ~Cancelled /\ was = "good" /\ Written(o, g, r) /\ UNCHANGED call
         \/ /\ ~Cancelled /\ was = "none" /\ ~blocked /\ Len(call) < MaxCalls
            /\ Begin(r) /\ Goes(o, [g EXCEPT !.step = "writing"])
            /\ UNCHANGED <<written, driving>>
  /\ UNCHANGED <<writeBack, turn>>

\* A cancellation aborts the call, which may have an answer all the same.
CallOutcomes ==
  {"good"} \cup (IF "call failure" \in troubles THEN {"bad"} ELSE {})
           \cup (IF "call failure" \in troubles \/ Cancelled THEN {"failed"} ELSE {})
           \cup (IF "call unknown" \in troubles THEN {"unknown"} ELSE {})

WriterAnswers(o) ==
  /\ Step(o, "writing")
  /\ LET r == WriteRequest(gen[o])
     IN  \E out \in CallOutcomes :
           /\ EndCall(r, out)
           /\ \/ out = "unknown" /\ Fail(o, "unknown") /\ UNCHANGED text
              \/ out # "unknown" /\ Cancelled /\ Fail(o, "partially_failed") /\ UNCHANGED text
              \/ out = "failed" /\ ~Cancelled /\ NextWriter(o, gen[o]) /\ UNCHANGED text
              \/ out = "bad" /\ ~Cancelled /\ Fail(o, "partially_failed") /\ UNCHANGED text
              \/ out = "good" /\ ~Cancelled /\ Written(o, gen[o], r)
  /\ UNCHANGED <<writeBack, turn>>

\* Another compilation, then the reviewer is asked.  The trial counts the calls
\* about the text; pass 0 is the review, pass 1 its repair.
CallsAbout(v) == {i \in DOMAIN call : call[i].kind = "review" /\ call[i].of = v}

AskReviewer(o) ==
  /\ gen[o].step \in {"draft", "repair"}
  /\ LET repair == IF Step(o, "repair") THEN 1 ELSE 0
         g == IF repair = 1 THEN gen[o] ELSE [gen[o] EXCEPT !.trial = Cardinality(CallsAbout(gen[o].text)) + 1]
         r == ReviewRequest(g, repair)
     IN  \/ Cancelled /\ Fail(o, "partially_failed") /\ UNCHANGED call
         \/ ~Cancelled /\ Blocking(r, 0) # {} /\ Fail(o, "unknown") /\ UNCHANGED call
         \/ /\ ~Cancelled /\ Blocking(r, 0) = {} /\ Len(call) < MaxCalls
            /\ Begin(r) /\ Goes(o, [g EXCEPT !.step = IF repair = 1 THEN "repairing" ELSE "reviewing"])
            /\ UNCHANGED <<workflow, driving>>
  /\ UNCHANGED <<text, writeBack, turn>>

\* The first review of a text is stored, and lifts a draft it passes; what the
\* generation does next follows its own answer.
Stored(v, verdict) ==
  IF text[v].verdict # "none" THEN text
  ELSE [text EXCEPT ![v].verdict = verdict,
                    ![v].lifecycle = IF verdict = "passed" /\ @ = "draft" THEN "reviewed" ELSE @]

\* The generation ends with the text of its last pass, and the workflow waits for
\* the author; the managed run is released and goes on.
Finish(o, passed) ==
  /\ workflow' = [stage |-> "manuscript_confirmation",
                  status |-> IF passed THEN "awaiting_author" ELSE "partially_failed",
                  text |-> gen[o].text, ack |-> 0]
  /\ gen' = [gen EXCEPT ![o] = NoGen]
  /\ IF o # "managed" THEN UNCHANGED driving
     ELSE /\ drain' = [step |-> "loop", owns |-> FALSE]
          /\ managed' = IF drain.owns THEN [managed EXCEPT !.leased = FALSE, !.status = "active"] ELSE managed

Reviewed(o, verdict) ==
  /\ text' = Stored(gen[o].text, verdict)
  /\ IF verdict = "rejected" /\ gen[o].pass = 1
     THEN /\ Goes(o, [gen[o] EXCEPT !.step = "write", !.pass = 2, !.member = 0])
          /\ UNCHANGED <<workflow, driving>>
     ELSE Finish(o, verdict = "passed")

Verdicts == {"passed", "rejected"}
ReviewerAnswers(o) ==
  /\ gen[o].step \in {"reviewing", "repairing"}
  /\ LET repair == IF Step(o, "repairing") THEN 1 ELSE 0
         r == ReviewRequest(gen[o], repair)
     IN  \E out \in (CallOutcomes \ {"good"}) \cup Verdicts :
           /\ EndCall(r, out)
           /\ \/ out = "unknown" /\ Fail(o, "unknown") /\ UNCHANGED text
              \/ out # "unknown" /\ Cancelled /\ Fail(o, "partially_failed") /\ UNCHANGED text
              \/ out \in Verdicts /\ ~Cancelled /\ Reviewed(o, out)
              \/ /\ out = "bad" /\ ~Cancelled /\ repair = 0
                 /\ Goes(o, [gen[o] EXCEPT !.step = "repair"]) /\ UNCHANGED <<written, driving>>
              \/ /\ (out = "failed" \/ (out = "bad" /\ repair = 1)) /\ ~Cancelled
                 /\ Fail(o, "partially_failed") /\ UNCHANGED text
  /\ UNCHANGED <<writeBack, turn>>
-----------------------------------------------------------------------------
(* finalizeManuscript: text, receipt and event in one transaction, then    *)
(* the workflow row, whose text nobody asks for while it settles.          *)

\* Defect: a chapter that has its final text may get another; or the event is left
\* to the write that follows.
MayFinalizeAgain(v) == workflow.stage = "manuscript_confirmation" /\ text[v].lifecycle = "reviewed"
MayFinalize(v) ==
  /\ workflow.stage = "manuscript_confirmation"
  /\ text[v].lifecycle = "reviewed" /\ text[v].chapter \notin Final(text)

FinalizeText(v, key) ==
  /\ text' = [text EXCEPT ![v].lifecycle = "final", ![v].receipt = key]
  /\ turn' = "settlement" /\ UNCHANGED event
Finalize(v, key) ==
  /\ text' = [text EXCEPT ![v].lifecycle = "final", ![v].receipt = key]
  /\ event' = [event EXCEPT ![text[v].chapter]["settle"] = Fresh]
  /\ turn' = "settlement"

SettlementTurn ==
  /\ turn = "settlement" /\ turn' = "none"
  /\ workflow' = [stage |-> "settlement", status |-> "working", text |-> 0, ack |-> 0]
  /\ UNCHANGED <<text, writeBack, making, driving>>
-----------------------------------------------------------------------------
(* The managed run: drain and advance.                                     *)

Driven(step) == drain.step = step
Release(status) == managed' = IF drain.owns THEN [managed EXCEPT !.leased = FALSE, !.status = status] ELSE managed
Stops == drain' = [step |-> "none", owns |-> FALSE]

\* drain reads the run and advance claims it; without either it ends.
NextChapter == IF Unwritten(text) = {} THEN 0 ELSE Min(Unwritten(text))
Claimable == managed.status = "active" /\ ~managed.leased
Released(status) == managed' = [managed EXCEPT !.status = status]

DrainEnds ==
  /\ Driven("loop") /\ ~Claimable
  /\ Stops
  /\ UNCHANGED <<written, writeBack, making, managed, turn>>

\* What one claim does at once, and gives back at once.
DrainStops ==
  /\ Driven("loop") /\ Claimable
  /\ \/ Cancelled /\ Released("cancelled")
     \/ ~Cancelled /\ workflow.stage = "completed" /\ Released("completed")
     \/ ~Cancelled /\ workflow.stage = "manuscript" /\ NextChapter = 0 /\ UNCHANGED managed
     \/ /\ ~Cancelled /\ workflow.stage = "manuscript_confirmation"
        /\ workflow.text = 0 \/ text[workflow.text].verdict # "passed"
        /\ Released("failed")
  /\ Stops
  /\ UNCHANGED <<written, writeBack, making, turn>>

DrainWrites ==
  /\ Driven("loop") /\ Claimable /\ ~Cancelled
  /\ workflow.stage = "manuscript" /\ NextChapter # 0
  /\ Start("managed", NextChapter, "write")
  /\ managed' = [managed EXCEPT !.leased = TRUE]
  /\ drain' = [step |-> "writing", owns |-> TRUE]
  /\ UNCHANGED <<text, writeBack, call, turn>>

\* The key of a managed finalization names the text.  Under the key it has, a
\* final text is a replay, which changes nothing until the drain has used up its
\* steps; under another, and without a passed draft, it is refused.
DrainFinalizes ==
  /\ Driven("loop") /\ Claimable /\ ~Cancelled
  /\ workflow.stage = "manuscript_confirmation" /\ workflow.text # 0
  /\ LET v == workflow.text
         replay == text[v].receipt = "managed"
     IN  /\ text[v].verdict = "passed"
         /\ IF MayFinalize(v) THEN Finalize(v, "managed") /\ UNCHANGED <<workflow, managed, drain>>
            ELSE /\ workflow' = IF replay THEN workflow ELSE [workflow EXCEPT !.status = "failed"]
                 /\ Released("failed") /\ Stops
                 /\ UNCHANGED <<text, event, turn>>
  /\ UNCHANGED <<settled, editing, chores, job, batch, making>>

\* It joins the batch in flight, or starts one.
DrainSettles ==
  /\ Driven("loop") /\ Claimable /\ ~Cancelled /\ workflow.stage = "settlement"
  /\ IF batch.on THEN UNCHANGED batch ELSE StartBatch(FALSE, OfferedEvents)
  /\ managed' = [managed EXCEPT !.leased = TRUE]
  /\ drain' = [step |-> "settling", owns |-> TRUE]
  /\ UNCHANGED <<written, outbox, editing, chores, job, making, turn>>

SettlingEnds ==
  /\ Driven("settling") /\ ~batch.on
  /\ LET goesOn == workflow.stage = "manuscript" \/ batch.used
         status == IF workflow.stage = "completed" THEN "completed"
                   ELSE IF workflow.status = "failed" THEN "failed" ELSE "active"
     IN  /\ Release(status)
         /\ workflow' = IF status = "active" /\ workflow.stage = "manuscript"
                        THEN [workflow EXCEPT !.status = "working"] ELSE workflow
         /\ drain' = [step |-> IF status = "active" /\ goesOn THEN "loop" ELSE "none", owns |-> FALSE]
  /\ UNCHANGED <<text, writeBack, making, turn>>
-----------------------------------------------------------------------------
(* The author, and the process.                                            *)

LastUnknown == Latest({i \in DOMAIN call : call[i].state = "unknown"})
EditorUnknown == \E c \in Chapters, m \in 1 .. NumEditors : editorCall[c][m] = "unknown"

\* activate, with the writer m.  An unknown result is only passed over when it is
\* the writer's and m is another; the call is marked as acknowledged.
Activate(m) ==
  LET passes == /\ LastUnknown # 0 /\ ~EditorUnknown
                /\ call[LastUnknown].kind = "write" /\ call[LastUnknown].member # m
      unknown == workflow.status = "unknown"
  IN  /\ workflow.status # "completed"
      /\ unknown => passes
      /\ workflow.stage \in {"manuscript", "manuscript_confirmation", "settlement"}
      /\ workflow' = [workflow EXCEPT !.status = "working", !.ack = IF unknown THEN LastUnknown ELSE @]
      /\ call' = IF unknown THEN [call EXCEPT ![LastUnknown].acked = TRUE] ELSE call
      /\ managed' = [status |-> "active", leased |-> FALSE, writer |-> m]
      /\ drain' = [step |-> IF Driven("none") THEN "loop" ELSE drain.step, owns |-> FALSE]
      /\ IF workflow.stage # "settlement" THEN UNCHANGED <<event, turn>>
         ELSE event' = Reopened /\ turn' = "refresh"
      /\ UNCHANGED <<text, settled, editing, chores, job, batch, gen>>

Cancel ==
  /\ "cancellation" \in troubles /\ workflow.status \notin {"completed", "cancelled"}
  /\ workflow' = [workflow EXCEPT !.status = "cancelled"]
  /\ managed' = IF managed.status \in {"none", "completed", "cancelled"} THEN managed
                ELSE [managed EXCEPT !.status = "cancelled", !.leased = FALSE]
  /\ drain' = [drain EXCEPT !.owns = FALSE]
  /\ UNCHANGED <<text, writeBack, making, turn>>

\* A chapter by itself, from the start or from its unreviewed draft.
AuthorWrites ==
  /\ "author" \in troubles /\ Step("author", "none")
  /\ workflow.stage \in {"manuscript", "manuscript_confirmation"}
  /\ \E c \in Chapters, step \in {"write", "resume"} : Start("author", c, step)
  /\ UNCHANGED <<text, writeBack, call, driving, turn>>

AuthorFinalizes ==
  /\ "author" \in troubles
  /\ \E v \in DOMAIN text : MayFinalize(v) /\ Finalize(v, "author")
  /\ UNCHANGED <<workflow, settled, editing, chores, job, batch, making, driving>>

Crash ==
  /\ "crash" \in troubles
  /\ gen' = [o \in Owners |-> NoGen]
  /\ Stops
  /\ BatchDies
  /\ UNCHANGED <<written, outbox, editing, child, job, call, managed, scenario>>
-----------------------------------------------------------------------------
(* What may happen, and what the process never puts off for ever: a turn   *)
(* ends, calls and runs end in an outcome of theirs, the worker asks again *)
(* every five seconds.                                                     *)

GenStep(o) == PickDraft(o) \/ AskWriter(o) \/ WriterAnswers(o) \/ AskReviewer(o) \/ ReviewerAnswers(o)
DrainStep == DrainEnds \/ DrainStops \/ DrainWrites \/ DrainFinalizes \/ DrainSettles \/ SettlingEnds
Author == (\E m \in 1 .. NumWriters : Activate(m)) \/ Cancel \/ AuthorWrites \/ AuthorFinalizes

Turns == UNCHANGED scenario /\ ((TurnStep /\ UNCHANGED <<making, driving>>) \/ SettlementTurn)
Alone(A) == turn = "none" /\ A /\ UNCHANGED <<making, driving, scenario>>
Batches == Alone(BatchStep)
Children == \E c \in Chapters : Alone(ChildEnds(c))
Worker == Alone(WorkerAsks)
Drains == turn = "none" /\ UNCHANGED scenario /\ DrainStep

Next ==
  \/ Turns \/ Batches \/ Children \/ Worker \/ Alone(Kick)
  \/ \E c \in Chapters : Alone(LookAtRun(c))
  \/ Drains
  \/ turn = "none" /\ UNCHANGED scenario /\ ((\E o \in Owners : GenStep(o)) \/ Author)
  \/ Crash

Spec == Init /\ [][Next]_vars
LongestOutline == Max({s.chapters : s \in Scenarios})
FairSpec ==
  /\ Spec
  /\ WF_vars(Turns) /\ SF_vars(Batches) /\ SF_vars(Worker) /\ SF_vars(Drains)
  /\ \A c \in 1 .. LongestOutline : SF_vars(Alone(ChildEnds(c)))
-----------------------------------------------------------------------------
(* Properties.                                                             *)

EventStatuses == {"none", "pending", "working", "completed", "failed", "unknown"}

\* Every row has a status its table admits, and counters stay within the bounds.
TypeOK ==
  /\ workflow.stage \in {"manuscript", "manuscript_confirmation", "settlement", "completed"}
  /\ workflow.status \in {"awaiting_author", "working", "partially_failed", "failed", "unknown",
                          "cancelled", "completed"}
  /\ workflow.text \in 0 .. Len(text) /\ workflow.ack \in 0 .. Len(call)
  /\ \A c \in Chapters, k \in Kinds :
       event[c][k].status \in EventStatuses /\ event[c][k].attempts \in 0 .. MaxAttempts
  /\ \A j \in Jobs : job[j].status \in EventStatuses /\ job[j].attempts \in 0 .. MaxAttempts
  /\ settled \subseteq Final(text) /\ staged \subseteq settled /\ running \subseteq staged
  /\ managed.status \in {"none", "active", "failed", "unknown", "cancelled", "completed"}

\* A chain is completed with every chapter final, written back in full, and
\* aggregated, and so is its volume when it was the last chain of it.
CompletedMeansSettled ==
  workflow.stage = "completed" =>
    /\ Final(text) = Chapters /\ settled = Chapters /\ staged = Chapters
    /\ \A c \in Chapters, k \in Kinds : event[c][k].status = "completed"
    /\ job["chain"].status = "completed"
    /\ ClosesVolume => job["volume"].status = "completed"

\* The managed run writes the chapters in their order: when it asks for a text of
\* one, those before it are final and their write-back is complete.
ChaptersInOrder ==
  [][\A c \in Chapters :
       gen["managed"].step # "writing" /\ gen'["managed"].step = "writing" /\ gen'["managed"].chapter = c
       => \A b \in 1 .. c - 1 : \A k \in Kinds : event[b][k].status = "completed"]_vars

\* A node has one unresolved call, besides those whose result the author passed
\* over by naming another writer: nothing is ordered twice.
NothingIsOrderedTwice ==
  \A i, j \in DOMAIN call :
    i < j /\ SameNode(call[i], call[j]) /\ Unresolved(call[i]) => call[i].acked

\* A final text was reviewed and passed, and is the only one of its chapter.
FinalsWereReviewed ==
  \A v \in DOMAIN text : text[v].lifecycle = "final" =>
    /\ text[v].verdict = "passed"
    /\ \A u \in DOMAIN text \ {v} : text[u].chapter = text[v].chapter => text[u].lifecycle # "final"

\* What is final is in the outbox, and what is settled has its three maintenance
\* events there: no chapter waits for a write-back nobody will start.
WriteBackIsQueued ==
  /\ \A c \in Chapters : c \in Final(text) <=> event[c]["settle"].status # "none"
  /\ \A c \in Chapters, k \in Kinds \ {"settle"} : c \in settled <=> event[c][k].status # "none"

\* What is written back is never done a second time: no retry, no activation and no
\* other chapter offers a completed event again.
CompletedStays ==
  [][\A c \in Chapters, k \in Kinds :
       event[c][k].status = "completed" => event'[c][k].status = "completed"]_vars

\* As long as the process lives and once the author lets it be, every event of the
\* outbox is worked off: in the end it is completed, its result is unknown, or its
\* attempts are used up.  One thing must not go on for ever: a maintenance run that
\* fails after its event was deferred, which is started again at no attempt's cost.
WorkedOff(r) == r.status \in {"none", "completed", "unknown"} \/ (r.status = "failed" /\ r.attempts = MaxAttempts)
FailsLate == \E c \in Chapters : child[c] = "failed" /\ event[c]["characters"].status = "pending"
EventsAreWorkedOff ==
  "crash" \notin troubles /\ <>[][~Author]_vars /\ <>[]~FailsLate =>
    <>[](\A c \in Chapters, k \in Kinds : WorkedOff(event[c][k]))

=============================================================================
