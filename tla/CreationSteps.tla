--------------------------- MODULE CreationSteps ----------------------------
(***************************************************************************)
(* The parts of the inductive invariant of CreationChain and the steps     *)
(* that keep them.  Of texts: what is lifted has passed its review, a      *)
(* generation that goes on is about a chapter of the outline and a text of *)
(* the table, and the workflow names a text there is.  Of the write-back:  *)
(* the outbox has a row for what is final and for what is settled, a batch *)
(* holds events that are offered or working and each of them once, and     *)
(* settles what is unsettled.                                              *)
(***************************************************************************)
EXTENDS CreationChain, FiniteSetTheorems, WellFoundedInduction, TLAPS
-----------------------------------------------------------------------------
(* Least and greatest numbers of a set.                                    *)

\* A set of naturals has a least element.
LEMMA LeastNat ==
  ASSUME NEW S, S \subseteq Nat, S # {}
  PROVE  Min(S) \in S /\ \A n \in S : Min(S) <= n
<1> DEFINE T == {0 .. n : n \in S}
<1>0. \A n \in S : IsFiniteSet(0 .. n) /\ 0 .. n \in SUBSET Nat
  <2> TAKE n \in S
  <2>1. n \in Int /\ 0 \in Int
    OBVIOUS
  <2>2. IsFiniteSet(0 .. n)
    BY <2>1, FS_Interval
  <2> QED
    BY <2>2
<1>1. T # {} /\ T \subseteq FiniteSubsetsOf(Nat)
  BY <1>0 DEF FiniteSubsetsOf
<1>2. \E X \in T : \A Y \in T : ~(<<Y, X>> \in StrictSubsetOrdering(Nat))
  <2> HIDE DEF T
  <2> QED BY <1>1, FS_StrictSubsetOrderingWellFounded, WFMin
<1>3. PICK n \in S : \A m \in S : ~(<<0 .. m, 0 .. n>> \in StrictSubsetOrdering(Nat))
  BY <1>2
<1>4. \A m \in S : n <= m
  <2> SUFFICES ASSUME NEW m \in S, m < n PROVE FALSE
    OBVIOUS
  <2>1. 0 .. m \subseteq 0 .. n /\ 0 .. m # 0 .. n
    OBVIOUS
  <2>2. <<0 .. m, 0 .. n>> \in (SUBSET Nat) \X (SUBSET Nat)
    BY <1>0
  <2>3. <<0 .. m, 0 .. n>> \in StrictSubsetOrdering(Nat)
    BY <2>1, <2>2, Zenon DEF StrictSubsetOrdering
  <2> QED BY <1>3, <2>3
<1> QED
  BY <1>4 DEF Min

\* The latest of a set of numbers is one of them, and 0 says there is none.
LEMMA LatestIsOne ==
  ASSUME NEW n \in Nat, NEW S, S \subseteq 1 .. n
  PROVE  /\ S # {} => Latest(S) \in S
         /\ S = {} => Latest(S) = 0
<1>1. CASE S = {}
  BY <1>1 DEF Latest
<1>2. CASE S # {}
  <2> DEFINE T == {n - s : s \in S}
  <2>0. \A s \in S : s \in Int /\ n - s \in Nat
    OBVIOUS
  <2>1. T \subseteq Nat /\ T # {}
    BY <1>2, <2>0
  <2>2. Min(T) \in T /\ \A m \in T : Min(T) <= m
    BY <2>1, LeastNat
  <2>3. PICK s \in S : Min(T) = n - s
    BY <2>2
  <2>4. \A u \in S : u <= s
    <3>1. \A u \in S : n - s <= n - u
      BY <2>2, <2>3
    <3> HIDE DEF T
    <3> QED
      BY <2>0, <3>1
  <2>5. Max(S) \in S
    BY <2>4 DEF Max
  <2> QED
    BY <1>2, <2>5 DEF Latest
<1> QED
  BY <1>1, <1>2
-----------------------------------------------------------------------------
(* The invariant.                                                          *)

\* The columns of the texts; a text that was lifted had passed its review.
Texts ==
  /\ Len(text) \in Nat /\ text = [v \in 1 .. Len(text) |-> text[v]]
  /\ \A v \in DOMAIN text :
       /\ text[v] = [chapter |-> text[v].chapter, lifecycle |-> text[v].lifecycle,
                     verdict |-> text[v].verdict, request |-> text[v].request,
                     receipt |-> text[v].receipt]
       /\ text[v].chapter \in Chapters
       /\ text[v].lifecycle \in {"reviewed", "final"} => text[v].verdict = "passed"
  /\ FinalsWereReviewed

\* Texts are numbered from 1.
LEMMA DomainOfTexts ==
  ASSUME Texts PROVE DOMAIN text = 1 .. Len(text)
BY DEF Texts

\* A draft is saved: nothing becomes final.
LEMMA SavedStep ==
  ASSUME Texts, UNCHANGED scenario, NEW g, NEW id, g.chapter \in Chapters, text' = SavedAs(g, id)
  PROVE  Texts' /\ Final(text') = Final(text) /\ Len(text') = Len(text) + 1
<1>1. text \in Seq({text[v] : v \in DOMAIN text})
  BY DEF Texts
<1>2. /\ Len(text') = Len(text) + 1
      /\ DOMAIN text' = 1 .. Len(text) + 1
      /\ \A v \in 1 .. Len(text) : text'[v] = text[v]
      /\ text'[Len(text) + 1] = [chapter |-> g.chapter, lifecycle |-> "draft", verdict |-> "none",
                                  request |-> id, receipt |-> "none"]
      /\ text' = [v \in 1 .. Len(text') |-> text'[v]]
  BY <1>1 DEF SavedAs, Texts
<1>3. Len(text') \in Nat /\ DOMAIN text = 1 .. Len(text)
  BY <1>2 DEF Texts
<1> DEFINE new == [chapter |-> g.chapter, lifecycle |-> "draft", verdict |-> "none",
                   request |-> id, receipt |-> "none"]
<1>4. \A v \in DOMAIN text' : (v \in DOMAIN text /\ text'[v] = text[v]) \/ text'[v] = new
  BY <1>2, <1>3
<1>5. \A v \in DOMAIN text : v \in DOMAIN text' /\ text'[v] = text[v]
  BY <1>2, <1>3
<1>6. new = [chapter |-> new.chapter, lifecycle |-> new.lifecycle, verdict |-> new.verdict,
             request |-> new.request, receipt |-> new.receipt]
      /\ new.lifecycle = "draft" /\ new.chapter \in Chapters
  OBVIOUS
<1> HIDE DEF new
<1>7. Texts'
  <2>1. ASSUME NEW v \in DOMAIN text'
        PROVE  /\ text'[v] = [chapter |-> text'[v].chapter, lifecycle |-> text'[v].lifecycle,
                     verdict |-> text'[v].verdict, request |-> text'[v].request,
                     receipt |-> text'[v].receipt]
               /\ text'[v].chapter \in Chapters
               /\ text'[v].lifecycle \in {"reviewed", "final"} => text'[v].verdict = "passed"
    BY <1>4, <1>6, <2>1 DEF Texts
  <2>2. FinalsWereReviewed'
    BY <1>4, <1>6 DEF Texts, FinalsWereReviewed
  <2> QED
    BY <1>2, <1>3, <2>1, <2>2 DEF Texts, Chapters
<1>8. Final(text') = Final(text)
  BY <1>4, <1>5, <1>6 DEF Final
<1> QED
  BY <1>2, <1>7, <1>8

\* The texts of a step that changes the verdict, the lifecycle or the receipt of one.
LEMMA LiftedStep ==
  ASSUME Texts, UNCHANGED scenario, NEW v, NEW verdict, text' = Stored(v, verdict)
  PROVE  Texts' /\ Final(text') = Final(text) /\ Len(text') = Len(text)
<1>1. CASE text' = text
  BY <1>1 DEF Texts, FinalsWereReviewed, Chapters
<1>2. CASE text' # text
  <2>1. /\ v \in DOMAIN text /\ text[v].verdict = "none"
        /\ text' = [text EXCEPT ![v].verdict = verdict,
                    ![v].lifecycle = IF verdict = "passed" /\ @ = "draft" THEN "reviewed" ELSE @]
    BY <1>2 DEF Stored, Texts
  <2> DEFINE lifted == [text[v] EXCEPT !.verdict = verdict, !.lifecycle =
                IF verdict = "passed" /\ @ = "draft" THEN "reviewed" ELSE @]
  <2>0. text' = [text EXCEPT ![v] = lifted]
    BY <2>1 DEF Texts
  <2> DEFINE l == IF verdict = "passed" /\ text[v].lifecycle = "draft" THEN "reviewed" ELSE text[v].lifecycle
  <2>2. /\ DOMAIN text' = DOMAIN text /\ Len(text') = Len(text)
        /\ text' = [u \in 1 .. Len(text') |-> text'[u]]
        /\ \A u \in DOMAIN text \ {v} : text'[u] = text[u]
    <3> HIDE DEF lifted
    <3>1. Len(text) \in Nat /\ text = [u \in 1 .. Len(text) |-> text[u]]
      BY DEF Texts
    <3>2. DOMAIN text = 1 .. Len(text)
      BY <3>1
    <3>3. text' = [u \in 1 .. Len(text) |-> IF u = v THEN lifted ELSE text[u]]
      BY <2>0, <3>2
    <3>4. Len(text') = Len(text)
      BY <3>1, <3>3
    <3> QED
      BY <3>2, <3>3, <3>4
  <2>3. text'[v] = [chapter |-> text[v].chapter, lifecycle |-> l, verdict |-> verdict,
                    request |-> text[v].request, receipt |-> text[v].receipt]
    <3>1. text'[v] = lifted
      BY <2>0, <2>1 DEF Texts
    <3> QED
      BY <2>1, <3>1 DEF Texts
  <2>4. text[v].lifecycle \notin {"reviewed", "final"} /\ text[v].chapter \in Chapters
    BY <2>1 DEF Texts
  <2>5. l # "final" /\ (l = "reviewed" => verdict = "passed")
    BY <2>4
  <2> HIDE DEF l
  <2>6. ASSUME NEW u \in DOMAIN text'
        PROVE  /\ text'[u] = [chapter |-> text'[u].chapter, lifecycle |-> text'[u].lifecycle,
                     verdict |-> text'[u].verdict, request |-> text'[u].request,
                     receipt |-> text'[u].receipt]
               /\ text'[u].chapter \in Chapters
               /\ text'[u].lifecycle \in {"reviewed", "final"} => text'[u].verdict = "passed"
    <3>1. CASE u = v
      BY <3>1, <2>3, <2>4, <2>5
    <3>2. CASE u # v
      BY <3>2, <2>2, <2>6 DEF Texts
    <3> QED BY <3>1, <3>2
  <2>7. \A u \in DOMAIN text' :
          /\ text'[u].chapter = text[u].chapter
          /\ (text'[u].lifecycle = "final") <=> (text[u].lifecycle = "final")
          /\ text'[u].lifecycle = "final" => text'[u] = text[u]
    BY <2>2, <2>3, <2>4, <2>5
  <2>8. FinalsWereReviewed'
    BY <2>2, <2>7 DEF Texts, FinalsWereReviewed
  <2>9. Final(text') = Final(text)
    BY <2>2, <2>7 DEF Final
  <2> QED
    BY <2>2, <2>6, <2>8, <2>9 DEF Texts, Chapters
<1> QED
  BY <1>1, <1>2

\* A chapter gets the one final text it will have.
LEMMA FinalizedStep ==
  ASSUME Texts, UNCHANGED scenario, NEW v \in DOMAIN text, MayFinalize(v), NEW key, Finalize(v, key)
  PROVE  /\ Texts' /\ Final(text') = Final(text) \cup {text[v].chapter}
         /\ text[v].chapter \in Chapters \ Final(text) /\ Len(text') = Len(text)
<1>1. /\ text[v].lifecycle = "reviewed" /\ text[v].verdict = "passed"
      /\ text[v].chapter \in Chapters \ Final(text)
  BY DEF MayFinalize, Texts
<1> DEFINE lifted == [text[v] EXCEPT !.lifecycle = "final", !.receipt = key]
<1>0. text' = [text EXCEPT ![v] = lifted]
  BY DEF Finalize, Texts
<1>2. /\ DOMAIN text' = DOMAIN text /\ Len(text') = Len(text)
      /\ text' = [u \in 1 .. Len(text') |-> text'[u]]
      /\ \A u \in DOMAIN text \ {v} : text'[u] = text[u]
  <2> HIDE DEF lifted
  <2>1. Len(text) \in Nat /\ text = [u \in 1 .. Len(text) |-> text[u]]
    BY DEF Texts
  <2>2. DOMAIN text = 1 .. Len(text)
    BY <2>1
  <2>3. text' = [u \in 1 .. Len(text) |-> IF u = v THEN lifted ELSE text[u]]
    BY <1>0, <2>2
  <2>4. Len(text') = Len(text)
    BY <2>1, <2>3
  <2> QED
    BY <2>2, <2>3, <2>4
<1>3. text'[v] = [chapter |-> text[v].chapter, lifecycle |-> "final", verdict |-> "passed",
                  request |-> text[v].request, receipt |-> key]
  <2>1. text'[v] = lifted
    BY <1>0 DEF Texts
  <2> QED
    BY <1>1, <2>1 DEF Texts
<1>4. ASSUME NEW u \in DOMAIN text'
      PROVE  /\ text'[u] = [chapter |-> text'[u].chapter, lifecycle |-> text'[u].lifecycle,
                   verdict |-> text'[u].verdict, request |-> text'[u].request,
                   receipt |-> text'[u].receipt]
             /\ text'[u].chapter \in Chapters
             /\ text'[u].lifecycle \in {"reviewed", "final"} => text'[u].verdict = "passed"
  <2>1. CASE u = v
    BY <2>1, <1>1, <1>3
  <2>2. CASE u # v
    BY <2>2, <1>2, <1>4 DEF Texts
  <2> QED BY <2>1, <2>2
<1>5. \A u \in DOMAIN text : text[u].lifecycle = "final" => text[u].chapter # text[v].chapter /\ u # v
  BY <1>1 DEF Final
<1>6. \A u \in DOMAIN text' \ {v} : text'[u] = text[u] /\ u \in DOMAIN text
  BY <1>2
<1>7. text'[v].chapter = text[v].chapter /\ text'[v].lifecycle = "final" /\ text'[v].verdict = "passed"
  BY <1>3
<1>8. FinalsWereReviewed'
  BY <1>2, <1>5, <1>6, <1>7 DEF Texts, FinalsWereReviewed
<1>9. Final(text') = Final(text) \cup {text[v].chapter}
  BY <1>2, <1>5, <1>6, <1>7 DEF Final
<1> QED
  BY <1>1, <1>2, <1>4, <1>8, <1>9 DEF Texts, Chapters
-----------------------------------------------------------------------------
(* The rows and the memory of the making of texts.                         *)

\* The steps of a generation that are about a text of the table.
AboutText == {"draft", "repair", "reviewing", "repairing"}

\* A generation that goes on is about a chapter of the outline, and from its draft
\* on about a text of the table, which has n of them.
Known(g, n) ==
  /\ {"step", "chapter", "text"} \subseteq DOMAIN g
  /\ g.step # "none" => g.chapter \in Chapters
  /\ g.step \in AboutText => g.text \in 1 .. n
\* What the process holds for each owner.
Generations ==
  /\ gen = [o \in Owners |-> gen[o]]
  /\ \A o \in Owners : Known(gen[o], Len(text))

\* The columns of the workflow row.
Stages == {"manuscript", "manuscript_confirmation", "settlement", "completed"}
Statuses == {"awaiting_author", "working", "partially_failed", "failed", "unknown",
             "cancelled", "completed"}
WorkflowRow ==
  /\ {"stage", "status", "text", "ack"} \subseteq DOMAIN workflow
  /\ workflow.stage \in Stages /\ workflow.status \in Statuses
  /\ workflow.text \in 0 .. Len(text) /\ workflow.ack \in 0 .. Len(call)
\* Calls are numbered from 1, and the managed run has a status of its table.
CallRows == Len(call) \in Nat /\ call = [i \in 1 .. Len(call) |-> call[i]]
ManagedRow ==
  /\ "status" \in DOMAIN managed
  /\ managed.status \in {"none", "active", "failed", "unknown", "cancelled", "completed"}
\* The rows and the memory of the making of texts, in one.
Making == Generations /\ WorkflowRow /\ CallRows /\ ManagedRow

\* What a step about texts keeps.
Goals ==
  /\ Texts' /\ Making' /\ Final(text') = Final(text)
  /\ workflow'.stage = "completed" => workflow.stage = "completed"

\* A call is begun or ended: none is lost.
LEMMA BegunStep ==
  ASSUME CallRows, NEW r, Begin(r)
  PROVE  CallRows' /\ Len(call') = Len(call) + 1
<1> DEFINE row == [kind |-> r.kind, of |-> r.of, pass |-> r.pass, attempt |-> r.attempt,
                   member |-> r.member, state |-> "working", acked |-> FALSE]
<1>1. call \in Seq({call[i] : i \in DOMAIN call} \cup {row})
  BY DEF CallRows
<1>2. call' = Append(call, row)
  BY DEF Begin
<1> HIDE DEF row
<1>3. Len(call') = Len(call) + 1 /\ call' \in Seq({call[i] : i \in DOMAIN call} \cup {row})
  BY <1>1, <1>2
<1>4. call' = [i \in 1 .. Len(call') |-> call'[i]]
  BY <1>3
<1> QED
  BY <1>3, <1>4 DEF CallRows

\* A call ends: its row keeps its number.
LEMMA EndedStep ==
  ASSUME CallRows, NEW r, NEW state, EndCall(r, state)
  PROVE  CallRows' /\ Len(call') = Len(call)
<1>1. DOMAIN call = 1 .. Len(call) /\ Len(call) \in Nat
  BY DEF CallRows
<1> DEFINE new(i) == IF i \in Earlier(r) THEN [call[i] EXCEPT !.state = state] ELSE call[i]
<1>2. call' = [i \in 1 .. Len(call) |-> new(i)]
  BY <1>1 DEF EndCall
<1> HIDE DEF new
<1>3. Len(call') = Len(call)
  BY <1>1, <1>2
<1> QED
  BY <1>1, <1>2, <1>3 DEF CallRows

\* The generation of one owner goes on.
LEMMA GenerationStep ==
  ASSUME Generations, UNCHANGED scenario, NEW o \in Owners, NEW g,
         Len(text) \in Nat, Len(text') \in Nat, Len(text) <= Len(text'),
         Known(g, Len(text')), Goes(o, g)
  PROVE  Generations'
<1>1. DOMAIN gen = Owners
  BY DEF Generations
<1>2. gen' = [p \in Owners |-> IF p = o THEN g ELSE gen[p]]
  BY <1>1 DEF Goes
<1>3. ASSUME NEW p \in Owners
      PROVE  Known(gen[p], Len(text'))
  BY <1>3 DEF Generations, Known
<1>4. \A p \in Owners : gen'[p] = IF p = o THEN g ELSE gen[p]
  BY <1>2
<1>5. \A p \in Owners : Known(gen'[p], Len(text'))
  BY <1>3, <1>4
<1> QED
  BY <1>2, <1>5 DEF Generations, Known, Chapters

\* What a generation that is over leaves in memory.
LEMMA NobodyGenerates ==
  ASSUME NEW n PROVE Known(NoGen, n)
BY DEF Known, NoGen, AboutText
-----------------------------------------------------------------------------
(* The steps of a generation.                                              *)

\* A generation that fails leaves the latest text of its chapter to the author.
LEMMA FailStep ==
  ASSUME Texts, Making, UNCHANGED <<text, scenario>>, NEW o \in Owners,
         NEW status \in {"partially_failed", "unknown"}, Fail(o, status),
         CallRows', Len(call) <= Len(call')
  PROVE  Goals
<1> DEFINE last == Latest(TextsOf(gen[o].chapter))
           ended == IF o = "managed" /\ status = "partially_failed" THEN "failed" ELSE status
<1>1. Texts' /\ Final(text') = Final(text) /\ Len(text) \in Nat /\ Len(text') = Len(text)
  BY DEF Texts, FinalsWereReviewed, Chapters
<1>2. last \in 0 .. Len(text)
  <2>1. TextsOf(gen[o].chapter) \subseteq 1 .. Len(text)
    BY DomainOfTexts DEF TextsOf
  <2> QED
    BY <1>1, <2>1, LatestIsOne
<1>3. Generations'
  <2>1. Goes(o, NoGen)
    BY DEF Fail, Goes
  <2> QED
    BY <1>1, <2>1, NobodyGenerates, GenerationStep DEF Making
<1> HIDE DEF last
<1>4. workflow' = IF workflow.status = "cancelled" THEN workflow
                  ELSE [workflow EXCEPT !.stage = IF last = 0 THEN "manuscript" ELSE "manuscript_confirmation",
                                        !.status = ended, !.text = IF last = 0 THEN @ ELSE last]
  BY DEF Fail, last
<1>5. Len(call) \in Nat /\ Len(call') \in Nat
  BY DEF Making, CallRows
<1>6. /\ WorkflowRow'
      /\ workflow'.stage = "completed" => workflow.stage = "completed"
  <2>1. CASE workflow.status = "cancelled"
    BY <2>1, <1>1, <1>4, <1>5 DEF Making, WorkflowRow
  <2>2. CASE workflow.status # "cancelled"
    <3> DEFINE stage == IF last = 0 THEN "manuscript" ELSE "manuscript_confirmation"
               v == IF last = 0 THEN workflow.text ELSE last
    <3>1. /\ {"stage", "status", "text", "ack"} \subseteq DOMAIN workflow'
          /\ workflow'.stage = stage /\ workflow'.status = ended
          /\ workflow'.text = v /\ workflow'.ack = workflow.ack
      BY <2>2, <1>4 DEF Making, WorkflowRow
    <3>2. stage \in {"manuscript", "manuscript_confirmation"} /\ ended \in Statuses
      BY DEF Statuses
    <3>3. v \in 0 .. Len(text') /\ workflow.ack \in 0 .. Len(call')
      BY <1>1, <1>2, <1>5 DEF Making, WorkflowRow
    <3> HIDE DEF stage, ended, v
    <3> QED
      BY <3>1, <3>2, <3>3 DEF WorkflowRow, Stages
  <2> QED
    BY <2>1, <2>2
<1>7. ManagedRow'
  <2>1. \/ managed' = managed
        \/ managed' = [managed EXCEPT !.leased = FALSE,
                          !.status = IF status = "unknown" THEN "unknown" ELSE "failed"]
    BY DEF Fail, driving
  <2> QED
    BY <2>1 DEF Making, ManagedRow
<1> QED
  BY <1>1, <1>3, <1>6, <1>7 DEF Goals, Making

\* What a step keeps that changes texts, calls and generations only.
LEMMA QuietStep ==
  ASSUME Texts, Making, UNCHANGED <<workflow, driving, scenario>>, Texts', Final(text') = Final(text),
         Generations', CallRows', Len(text) <= Len(text'), Len(call) <= Len(call')
  PROVE  Goals
<1>1. Len(text) \in Nat /\ Len(text') \in Nat /\ Len(call) \in Nat /\ Len(call') \in Nat
  BY DEF Texts, Making, CallRows
<1>2. WorkflowRow' /\ ManagedRow'
  BY <1>1 DEF Making, WorkflowRow, ManagedRow, driving
<1> QED
  BY <1>2 DEF Goals, Making

\* A generation goes on, and nothing but calls changes beside it.
LEMMA GoesStep ==
  ASSUME Texts, Making, UNCHANGED <<workflow, driving, text, scenario>>, NEW o \in Owners, NEW g,
         Known(g, Len(text)), Goes(o, g), CallRows', Len(call) <= Len(call')
  PROVE  Goals
<1>1. Texts' /\ Final(text') = Final(text) /\ Len(text) \in Nat /\ Len(text') = Len(text)
  BY DEF Texts, FinalsWereReviewed, Chapters
<1>2. Generations'
  BY <1>1, GenerationStep DEF Making
<1> QED
  BY <1>1, <1>2, QuietStep

\* A member did not deliver: another one is asked, or the generation fails.
LEMMA NextWriterStep ==
  ASSUME Texts, Making, UNCHANGED <<text, scenario>>, NEW o \in Owners, NEW g,
         Known(g, Len(text)), g.step # "none", NextWriter(o, g), CallRows', Len(call) <= Len(call')
  PROVE  Goals
<1> DEFINE m == After(g.first, g.member)
<1> HIDE DEF m
<1>1. CASE Fail(o, "partially_failed")
  BY <1>1, FailStep
<1>2. CASE Goes(o, [g EXCEPT !.step = "write", !.member = m]) /\ UNCHANGED <<workflow, driving>>
  <2>1. Known([g EXCEPT !.step = "write", !.member = m], Len(text))
    BY DEF Known, AboutText
  <2> QED
    BY <1>2, <2>1, GoesStep
<1> QED
  BY <1>1, <1>2 DEF NextWriter, m

\* An answer is saved as a text, or was saved before.
LEMMA WrittenStep ==
  ASSUME Texts, Making, UNCHANGED scenario, NEW o \in Owners, NEW g, NEW r,
         Known(g, Len(text)), g.step # "none", Written(o, g, r), CallRows', Len(call) <= Len(call')
  PROVE  Goals
<1> DEFINE saved == {v \in DOMAIN text : text[v].request = r}
           id == IF saved = {} THEN Len(text) + 1 ELSE Max(saved)
<1>1. Len(text) \in Nat /\ g.chapter \in Chapters
  BY DEF Texts, Known
<1>2. /\ Texts' /\ Final(text') = Final(text) /\ Len(text) <= Len(text') /\ Len(text') \in Nat
      /\ id \in 1 .. Len(text')
  <2>1. CASE saved = {}
    <3>1. text' = SavedAs(g, r)
      BY <2>1 DEF Written
    <3> QED
      BY <2>1, <3>1, <1>1, SavedStep
  <2>2. CASE saved # {}
    <3>1. text' = text
      BY <2>2 DEF Written
    <3>2. saved \subseteq 1 .. Len(text)
      BY DomainOfTexts
    <3> HIDE DEF saved
    <3>3. id \in saved
      BY <1>1, <2>2, <3>2, LatestIsOne DEF Latest
    <3> QED
      BY <1>1, <3>1, <3>2, <3>3 DEF Texts, FinalsWereReviewed, Chapters
  <2> QED
    BY <2>1, <2>2
<1>3. Goes(o, [g EXCEPT !.step = "draft", !.text = id]) /\ UNCHANGED <<workflow, driving>>
  BY DEF Written
<1> HIDE DEF id
<1>4. Known([g EXCEPT !.step = "draft", !.text = id], Len(text'))
  BY <1>2 DEF Known
<1>5. Generations'
  BY <1>1, <1>2, <1>3, <1>4, GenerationStep DEF Making
<1> QED
  BY <1>2, <1>3, <1>5, QuietStep

\* Where a generation is, when it takes a step.
LEMMA Underway ==
  ASSUME Generations, NEW o \in Owners
  PROVE  Known(gen[o], Len(text))
BY DEF Generations

\* A generation resumes from the latest draft nobody reviewed.
LEMMA PickDraftStep ==
  ASSUME Texts, Making, UNCHANGED scenario, NEW o \in Owners, PickDraft(o)
  PROVE  Goals
<1> DEFINE c == gen[o].chapter
           v == Latest(Unreviewed(c))
<1>1. CallRows' /\ Len(call) <= Len(call') /\ Known(gen[o], Len(text)) /\ text' = text
  BY Underway DEF Making, CallRows, PickDraft
<1>2. CASE v = 0
  BY <1>1, <1>2, FailStep DEF PickDraft
<1>3. CASE v # 0
  <2>1. v \in 1 .. Len(text)
    <3>1. Unreviewed(c) \subseteq 1 .. Len(text) /\ Len(text) \in Nat
      BY DomainOfTexts DEF Unreviewed, TextsOf, Texts
    <3> QED
      BY <1>3, <3>1, LatestIsOne
  <2> DEFINE g == [gen[o] EXCEPT !.step = "draft", !.text = v, !.attempt = Attempt(c)]
  <2>2. Goes(o, g) /\ UNCHANGED <<workflow, driving>>
    BY <1>3 DEF PickDraft
  <2> HIDE DEF v
  <2>3. Known(g, Len(text))
    BY <1>1, <2>1 DEF Known, PickDraft, Step
  <2> QED
    BY <1>1, <2>2, <2>3, GoesStep
<1> QED
  BY <1>2, <1>3

\* A writer is asked, after the check of the cancellation and of earlier calls.
LEMMA AskWriterStep ==
  ASSUME Texts, Making, UNCHANGED scenario, NEW o \in Owners, AskWriter(o)
  PROVE  Goals
<1> DEFINE g == IF gen[o].member # 0 THEN gen[o]
                ELSE [gen[o] EXCEPT !.first = managed.writer, !.member = managed.writer,
                                    !.attempt = IF gen[o].pass = 1 THEN Attempt(gen[o].chapter) ELSE @]
           r == WriteRequest(g)
<1>1. Known(g, Len(text)) /\ g.step = "write"
  <2>1. Known(gen[o], Len(text)) /\ gen[o].step = "write"
    BY Underway DEF Making, AskWriter, Step
  <2> QED
    BY <2>1 DEF Known, AboutText
<1> HIDE DEF g
<1>2. \/ /\ \E status \in {"partially_failed", "unknown"} : Fail(o, status)
         /\ UNCHANGED <<text, call>>
      \/ NextWriter(o, g) /\ UNCHANGED <<text, call>>
      \/ Written(o, g, r) /\ UNCHANGED call
      \/ Begin(r) /\ Goes(o, [g EXCEPT !.step = "writing"]) /\ UNCHANGED <<written, driving>>
  BY DEF AskWriter, g
<1>3. CallRows /\ (call' = call => CallRows' /\ Len(call) <= Len(call'))
  BY DEF Making, CallRows
<1>4. CASE \E status \in {"partially_failed", "unknown"} : Fail(o, status) /\ UNCHANGED <<text, call>>
  BY <1>3, <1>4, FailStep
<1>5. CASE NextWriter(o, g) /\ UNCHANGED <<text, call>>
  BY <1>1, <1>3, <1>5, NextWriterStep
<1>6. CASE Written(o, g, r) /\ UNCHANGED call
  BY <1>1, <1>3, <1>6, WrittenStep
<1>7. CASE Begin(r) /\ Goes(o, [g EXCEPT !.step = "writing"]) /\ UNCHANGED <<written, driving>>
  <2>1. Known([g EXCEPT !.step = "writing"], Len(text))
    BY <1>1 DEF Known, AboutText
  <2>2. CallRows' /\ Len(call) <= Len(call')
    BY <1>3, <1>7, BegunStep DEF CallRows
  <2> QED
    BY <1>7, <2>1, <2>2, GoesStep DEF written
<1> QED
  BY <1>2, <1>4, <1>5, <1>6, <1>7

\* A writer answers, or fails, or is not heard of again.
LEMMA WriterAnswersStep ==
  ASSUME Texts, Making, UNCHANGED scenario, NEW o \in Owners, WriterAnswers(o)
  PROVE  Goals
<1> DEFINE r == WriteRequest(gen[o])
<1>1. Known(gen[o], Len(text)) /\ gen[o].step # "none"
  BY Underway DEF Making, WriterAnswers, Step
<1>2. PICK out \in CallOutcomes :
        /\ EndCall(r, out)
        /\ \/ /\ \E status \in {"partially_failed", "unknown"} : Fail(o, status)
              /\ UNCHANGED text
           \/ NextWriter(o, gen[o]) /\ UNCHANGED text
           \/ Written(o, gen[o], r)
  BY DEF WriterAnswers
<1>3. CallRows' /\ Len(call) <= Len(call')
  BY <1>2, EndedStep DEF Making, CallRows
<1>4. CASE \E status \in {"partially_failed", "unknown"} : Fail(o, status) /\ UNCHANGED text
  BY <1>3, <1>4, FailStep
<1>5. CASE NextWriter(o, gen[o]) /\ UNCHANGED text
  BY <1>1, <1>3, <1>5, NextWriterStep
<1>6. CASE Written(o, gen[o], r)
  BY <1>1, <1>3, <1>6, WrittenStep
<1> QED
  BY <1>2, <1>4, <1>5, <1>6

\* A reviewer is asked about the text of the generation.
LEMMA AskReviewerStep ==
  ASSUME Texts, Making, UNCHANGED scenario, NEW o \in Owners, AskReviewer(o)
  PROVE  Goals
<1> DEFINE repair == IF Step(o, "repair") THEN 1 ELSE 0
           g == IF repair = 1 THEN gen[o]
                ELSE [gen[o] EXCEPT !.trial = Cardinality(CallsAbout(gen[o].text)) + 1]
           r == ReviewRequest(g, repair)
           h == [g EXCEPT !.step = IF repair = 1 THEN "repairing" ELSE "reviewing"]
<1>1. Known(gen[o], Len(text)) /\ gen[o].step \in {"draft", "repair"} /\ text' = text
  BY Underway DEF Making, AskReviewer
<1>2. \/ /\ \E status \in {"partially_failed", "unknown"} : Fail(o, status)
         /\ UNCHANGED call
      \/ Begin(r) /\ Goes(o, h) /\ UNCHANGED <<workflow, driving>>
  BY DEF AskReviewer
<1>3. CallRows /\ (call' = call => CallRows' /\ Len(call) <= Len(call'))
  BY DEF Making, CallRows
<1>4. CASE \E status \in {"partially_failed", "unknown"} : Fail(o, status) /\ UNCHANGED call
  BY <1>1, <1>3, <1>4, FailStep
<1>5. CASE Begin(r) /\ Goes(o, h) /\ UNCHANGED <<workflow, driving>>
  <2>1. Known(h, Len(text))
    <3> HIDE DEF repair
    <3> QED
      BY <1>1 DEF Known, AboutText
  <2> HIDE DEF h, r
  <2>2. CallRows' /\ Len(call) <= Len(call')
    BY <1>3, <1>5, BegunStep DEF CallRows
  <2> QED
    BY <1>1, <1>5, <2>1, <2>2, GoesStep
<1> QED
  BY <1>2, <1>4, <1>5

\* A generation ends with its text, which the workflow names from then on.
LEMMA FinishStep ==
  ASSUME Texts, Making, UNCHANGED scenario, NEW o \in Owners, NEW passed, Finish(o, passed),
         gen[o].text \in 1 .. Len(text), Texts', Final(text') = Final(text), Len(text') = Len(text),
         CallRows', Len(call) <= Len(call')
  PROVE  Goals
<1>1. Len(text) \in Nat /\ Len(call) \in Nat /\ Len(call') \in Nat
  BY DEF Texts, Making, CallRows
<1>2. Generations'
  <2>1. Goes(o, NoGen)
    BY DEF Finish, Goes
  <2> QED
    BY <1>1, <2>1, NobodyGenerates, GenerationStep DEF Making
<1>3. WorkflowRow' /\ workflow'.stage # "completed"
  BY <1>1 DEF Finish, WorkflowRow, Stages, Statuses
<1>4. ManagedRow'
  <2>1. managed' = managed \/ managed' = [managed EXCEPT !.leased = FALSE, !.status = "active"]
    BY DEF Finish, driving
  <2> QED
    BY <2>1 DEF Making, ManagedRow
<1> QED
  BY <1>2, <1>3, <1>4 DEF Goals, Making

\* A reviewer answers: the verdict is stored, the generation goes on or ends.
LEMMA ReviewerAnswersStep ==
  ASSUME Texts, Making, UNCHANGED scenario, NEW o \in Owners, ReviewerAnswers(o)
  PROVE  Goals
<1> DEFINE repair == IF Step(o, "repairing") THEN 1 ELSE 0
           r == ReviewRequest(gen[o], repair)
<1>1. Known(gen[o], Len(text)) /\ gen[o].step \in {"reviewing", "repairing"}
  BY Underway DEF Making, ReviewerAnswers
<1>2. PICK out \in (CallOutcomes \ {"good"}) \cup Verdicts :
        /\ EndCall(r, out)
        /\ \/ /\ \E status \in {"partially_failed", "unknown"} : Fail(o, status)
              /\ UNCHANGED text
           \/ Reviewed(o, out)
           \/ Goes(o, [gen[o] EXCEPT !.step = "repair"]) /\ UNCHANGED <<written, driving>>
  BY DEF ReviewerAnswers
<1>3. CallRows' /\ Len(call) <= Len(call')
  BY <1>2, EndedStep DEF Making, CallRows
<1>4. CASE \E status \in {"partially_failed", "unknown"} : Fail(o, status) /\ UNCHANGED text
  BY <1>3, <1>4, FailStep
<1>5. CASE Goes(o, [gen[o] EXCEPT !.step = "repair"]) /\ UNCHANGED <<written, driving>>
  <2>1. Known([gen[o] EXCEPT !.step = "repair"], Len(text))
    BY <1>1 DEF Known, AboutText
  <2> QED
    BY <1>3, <1>5, <2>1, GoesStep DEF written
<1>6. CASE Reviewed(o, out)
  <2>1. text' = Stored(gen[o].text, out)
    BY <1>6 DEF Reviewed
  <2>2. Texts' /\ Final(text') = Final(text) /\ Len(text') = Len(text) /\ Len(text) \in Nat
    BY <2>1, LiftedStep DEF Texts
  <2>3. gen[o].text \in 1 .. Len(text)
    BY <1>1 DEF Known, AboutText
  <2>4. CASE Finish(o, out = "passed")
    BY <1>3, <2>2, <2>3, <2>4, FinishStep
  <2>5. CASE /\ Goes(o, [gen[o] EXCEPT !.step = "write", !.pass = 2, !.member = 0])
             /\ UNCHANGED <<workflow, driving>>
    <3>1. Known([gen[o] EXCEPT !.step = "write", !.pass = 2, !.member = 0], Len(text'))
      BY <1>1 DEF Known, AboutText
    <3>2. Generations'
      BY <2>2, <2>5, <3>1, GenerationStep DEF Making
    <3> QED
      BY <1>3, <2>2, <2>5, <3>2, QuietStep
  <2> QED
    BY <1>6, <2>4, <2>5 DEF Reviewed
<1> QED
  BY <1>2, <1>4, <1>5, <1>6

\* No step of a generation touches the write-back.
LEMMA GenStepKeeps ==
  ASSUME Texts, Making, UNCHANGED scenario, NEW o \in Owners, GenStep(o)
  PROVE  Goals /\ UNCHANGED <<writeBack, turn>>
<1>1. CASE PickDraft(o)
  BY <1>1, PickDraftStep DEF PickDraft
<1>2. CASE AskWriter(o)
  BY <1>2, AskWriterStep DEF AskWriter
<1>3. CASE WriterAnswers(o)
  BY <1>3, WriterAnswersStep DEF WriterAnswers
<1>4. CASE AskReviewer(o)
  BY <1>4, AskReviewerStep DEF AskReviewer
<1>5. CASE ReviewerAnswers(o)
  BY <1>5, ReviewerAnswersStep DEF ReviewerAnswers
<1> QED
  BY <1>1, <1>2, <1>3, <1>4, <1>5 DEF GenStep
-----------------------------------------------------------------------------
(* The write-back.                                                         *)

\* The types of the two tables of the write-back.
EventRows == [Chapters -> [Kinds -> [status : EventStatuses, attempts : 0 .. MaxAttempts]]]
JobRows == [Jobs -> [status : EventStatuses, attempts : 0 .. MaxAttempts]]
\* Settled chapters are final, aggregated ones are settled, and runs are about those;
\* the outbox holds what it must, and a settlement is completed with its aggregation.
WriteBackRows ==
  /\ event \in EventRows /\ job \in JobRows
  /\ settled \subseteq Final(text) /\ staged \subseteq settled /\ running \subseteq staged
  /\ WriteBackIsQueued
  /\ \A c \in Chapters : event[c]["settle"].status = "completed" => c \in staged

\* The row of an event as a batch read it, and its key.
Row(e) == event[e[1]][e[2]]
SameKey(e, f) == e[1] = f[1] /\ e[2] = f[2]

\* What a batch has still to do is offered, what it does is working, an event is one of
\* them once; a settlement is under way for a chapter that is not settled.
BatchRow ==
  /\ {"todo", "open", "step"} \subseteq DOMAIN batch
  /\ batch.todo \subseteq Chapters \X Kinds \X (0 .. MaxAttempts)
  /\ batch.open \subseteq Chapters \X Kinds \X (0 .. MaxAttempts)
  /\ \A e \in batch.todo : Offered(Row(e))
  /\ \A e \in batch.open : Row(e).status = "working" /\ Row(e).attempts >= 1
  /\ \A e, f \in batch.todo : SameKey(e, f) => e = f
  /\ \A e, f \in batch.open : SameKey(e, f) => e = f
  /\ batch.step \in {"ask", "answer", "stage"} =>
       \E e \in batch.open : batch.open = {e} /\ e[2] = "settle"
  /\ batch.step \in {"ask", "answer"} => \A e \in batch.open : e[1] \notin settled
  /\ batch.step = "stage" => \A e \in batch.open : e[1] \in settled
  /\ turn = "job" => batch.step \in Jobs /\ job[batch.step].status = "working"

\* What is completed stays so, in one step.
EventsStay ==
  \A c \in Chapters, k \in Kinds :
    event[c][k].status = "completed" => event'[c][k].status = "completed"
\* The same for stage jobs.
JobsStay == \A j \in Jobs : job[j].status = "completed" => job'[j].status = "completed"

\* What a step of the write-back keeps.
Outbox == WriteBackRows' /\ BatchRow' /\ EventsStay

\* The row of an event, by its key.
LEMMA EventFacts ==
  ASSUME WriteBackRows, NEW c \in Chapters, NEW k \in Kinds
  PROVE  /\ event[c][k] \in [status : EventStatuses, attempts : 0 .. MaxAttempts]
         /\ DOMAIN event = Chapters /\ DOMAIN event[c] = Kinds
BY DEF WriteBackRows, EventRows

\* The lease of an event ends.
LEMMA EndEventStep ==
  ASSUME WriteBackRows, BatchRow, UNCHANGED <<text, scenario, settled, job, running>>,
         NEW e \in batch.open, NEW status \in {"completed", "failed", "unknown", "pending"},
         EndEvent(e, status), staged \subseteq staged', staged' \subseteq settled,
         e[2] = "settle" /\ status = "completed" => e[1] \in staged'
  PROVE  Outbox
<1> DEFINE c == e[1]
           k == e[2]
           row == [status |-> status,
                   attempts |-> IF status = "pending" THEN event[c][k].attempts - 1 ELSE event[c][k].attempts]
<1>1. c \in Chapters /\ k \in Kinds /\ event[c][k].status = "working" /\ event[c][k].attempts >= 1
  BY DEF BatchRow, Row
<1>2. event[c][k] \in [status : EventStatuses, attempts : 0 .. MaxAttempts]
  BY <1>1, EventFacts
<1>3. row \in [status : EventStatuses, attempts : 0 .. MaxAttempts] /\ row.status = status
  <2>1. MaxAttempts \in Nat
    BY ChainAssumption
  <2> QED
    BY <1>1, <1>2, <2>1 DEF EventStatuses
<1>4. event' = [event EXCEPT ![c] = [event[c] EXCEPT ![k] = row]]
  BY DEF EndEvent
<1> HIDE DEF row
<1>5. event' \in EventRows
  BY <1>1, <1>3, <1>4 DEF WriteBackRows, EventRows, Chapters
<1>6. \A d \in Chapters, l \in Kinds :
        event'[d][l] = IF d = c /\ l = k THEN row ELSE event[d][l]
  BY <1>1, <1>4 DEF WriteBackRows, EventRows
<1> HIDE DEF c, k
<1>7. EventsStay
  BY <1>1, <1>6 DEF EventsStay
<1>8. Final(text') = Final(text) /\ Chapters' = Chapters
  BY DEF Final, Chapters
<1>9. WriteBackIsQueued'
  <2>1. \A d \in Chapters, l \in Kinds : event'[d][l].status = "none" <=> event[d][l].status = "none"
    BY <1>1, <1>3, <1>6
  <2> QED
    BY <1>8, <2>1 DEF WriteBackRows, WriteBackIsQueued, Kinds
<1>10. WriteBackRows'
  <2>1. \A d \in Chapters : event'[d]["settle"].status = "completed" => d \in staged'
    BY <1>3, <1>6 DEF WriteBackRows, Kinds, c, k
  <2>2. event' \in EventRows' /\ job' \in JobRows'
    BY <1>5 DEF WriteBackRows, EventRows, JobRows, Chapters
  <2> QED
    BY <1>8, <1>9, <2>1, <2>2 DEF WriteBackRows
<1>11. BatchRow'
  <2> DEFINE left == batch.open \ {e}
  <2>1. batch' = [batch EXCEPT !.open = left, !.step = IF left = {} THEN "lease" ELSE @]
        /\ turn' = "refresh"
    BY DEF EndEvent
  <2>2. /\ {"todo", "open", "step"} \subseteq DOMAIN batch'
        /\ batch'.todo = batch.todo /\ batch'.open = left
        /\ batch'.step = IF left = {} THEN "lease" ELSE batch.step
    BY <2>1 DEF BatchRow
  <2> HIDE DEF left
  <2>3. \A f \in batch.todo : f[1] \in Chapters /\ f[2] \in Kinds /\ ~SameKey(f, e)
    BY <1>1 DEF BatchRow, Row, Offered, SameKey, c, k
  <2>4. \A f \in left : f[1] \in Chapters /\ f[2] \in Kinds /\ ~SameKey(f, e)
    BY DEF BatchRow, left
  <2>5. \A f \in batch.todo \cup left : event'[f[1]][f[2]] = event[f[1]][f[2]]
    BY <1>6, <2>3, <2>4 DEF SameKey, c, k
  <2>6. /\ left \subseteq batch.open
        /\ batch.step \in {"ask", "answer", "stage"} => left = {}
    BY DEF left, BatchRow
  <2> QED
    BY <1>8, <2>1, <2>2, <2>5, <2>6 DEF BatchRow, Row, Offered
<1> QED
  BY <1>7, <1>10, <1>11 DEF Outbox

\* Events are leased, as the batch read them.
LEMMA LeasedStep ==
  ASSUME WriteBackRows, BatchRow, NEW E \in SUBSET batch.todo, event' = Leased(event, E)
  PROVE  /\ event' \in EventRows /\ EventsStay
         /\ \A c \in Chapters, k \in Kinds :
              \/ /\ \E e \in E : e[1] = c /\ e[2] = k
                 /\ event'[c][k].status = "working" /\ event'[c][k].attempts >= 1
                 /\ event[c][k].status \in {"pending", "failed"}
              \/ /\ ~\E e \in E : e[1] = c /\ e[2] = k
                 /\ event'[c][k] = event[c][k]
<1>1. MaxAttempts \in Nat
  BY ChainAssumption
<1> DEFINE leased(c, k) == \E n \in 0 .. MaxAttempts : <<c, k, n>> \in E
           row(c, k) == IF leased(c, k) THEN [status |-> "working", attempts |-> event[c][k].attempts + 1]
                        ELSE event[c][k]
<1>2. \A c, k : leased(c, k) <=> \E e \in E : e[1] = c /\ e[2] = k
  <2>1. \A e \in E : e[3] \in 0 .. MaxAttempts /\ e = <<e[1], e[2], e[3]>>
    BY DEF BatchRow
  <2> SUFFICES ASSUME NEW c, NEW k PROVE leased(c, k) <=> \E e \in E : e[1] = c /\ e[2] = k
    OBVIOUS
  <2>2. ASSUME NEW e \in E, e[1] = c, e[2] = k
        PROVE  leased(c, k)
    <3>1. e = <<c, k, e[3]>> /\ e[3] \in 0 .. MaxAttempts
      BY <2>1, <2>2
    <3> QED
      BY <3>1
  <2>3. ASSUME leased(c, k)
        PROVE  \E e \in E : e[1] = c /\ e[2] = k
    <3>1. PICK n \in 0 .. MaxAttempts : <<c, k, n>> \in E
      BY <2>3
    <3> QED
      BY <3>1
  <2> QED
    BY <2>2, <2>3
<1>3. ASSUME NEW c \in Chapters, NEW k \in Kinds, leased(c, k)
      PROVE  Offered(event[c][k])
  <2>1. PICK e \in E : e[1] = c /\ e[2] = k
    BY <1>2, <1>3
  <2> QED
    BY <2>1 DEF BatchRow, Row
<1> HIDE DEF leased
<1>4. event' = [c \in Chapters |-> [k \in Kinds |-> row(c, k)]]
  BY DEF Leased, leased
<1>5. ASSUME NEW c \in Chapters, NEW k \in Kinds
      PROVE  /\ row(c, k) \in [status : EventStatuses, attempts : 0 .. MaxAttempts]
             /\ leased(c, k) => row(c, k).status = "working" /\ row(c, k).attempts >= 1
  BY <1>1, <1>3, EventFacts DEF Offered, EventStatuses
<1>6. ASSUME NEW c \in Chapters, NEW k \in Kinds, ~leased(c, k)
      PROVE  row(c, k) = event[c][k]
  BY <1>6
<1> HIDE DEF row
<1>7. \A c \in Chapters, k \in Kinds : event'[c][k] = row(c, k)
  BY <1>4
<1>8. event' \in EventRows
  BY <1>4, <1>5 DEF EventRows
<1>9. \A c \in Chapters, k \in Kinds : leased(c, k) => event[c][k].status \in {"pending", "failed"}
  BY <1>3 DEF Offered
<1>10. EventsStay
  BY <1>6, <1>7, <1>9 DEF EventsStay
<1> QED
  BY <1>2, <1>5, <1>6, <1>7, <1>8, <1>9, <1>10

\* The settlement of a chapter is saved, with the three events it opens.
LEMMA SavedSettlementStep ==
  ASSUME WriteBackRows, BatchRow, UNCHANGED <<text, scenario, staged, job, running>>,
         NEW e \in batch.open, batch.step \in {"ask", "answer"}, turn # "job", SaveSettlement(e[1])
  PROVE  Outbox
<1> DEFINE c == e[1]
           rows == [k \in Kinds |-> IF k = "settle" THEN event[c][k] ELSE Fresh]
<1>1. c \in Chapters /\ c \notin settled /\ event[c]["settle"].status = "working"
  BY DEF BatchRow, Row
<1>2. event' = [event EXCEPT ![c] = rows] /\ settled' = settled \cup {c}
  BY DEF SaveSettlement
<1>3. rows \in [Kinds -> [status : EventStatuses, attempts : 0 .. MaxAttempts]]
  <2>1. Fresh \in [status : EventStatuses, attempts : 0 .. MaxAttempts]
    BY ChainAssumption DEF Fresh, EventStatuses
  <2> QED
    BY <1>1, <2>1, EventFacts
<1>4. \A k \in Kinds : rows[k] = IF k = "settle" THEN event[c][k] ELSE Fresh
  OBVIOUS
<1> HIDE DEF rows, c
<1>5. event' \in EventRows
  BY <1>1, <1>2, <1>3 DEF WriteBackRows, EventRows
<1>6. \A d \in Chapters, l \in Kinds :
        event'[d][l] = IF d = c /\ l # "settle" THEN Fresh ELSE event[d][l]
  BY <1>1, <1>2, <1>4 DEF WriteBackRows, EventRows
<1>7. \A l \in Kinds \ {"settle"} : event[c][l].status = "none"
  BY <1>1 DEF WriteBackRows, WriteBackIsQueued
<1>8. EventsStay
  BY <1>6, <1>7 DEF EventsStay
<1>9. Final(text') = Final(text) /\ Chapters' = Chapters
  BY DEF Final, Chapters
<1>10. WriteBackIsQueued'
  <2>1. \A d \in Chapters : event'[d]["settle"] = event[d]["settle"]
    BY <1>6 DEF Kinds
  <2>2. \A d \in Chapters, l \in Kinds \ {"settle"} : d \in settled' <=> event'[d][l].status # "none"
    BY <1>1, <1>2, <1>6, <1>7 DEF WriteBackRows, WriteBackIsQueued, Fresh
  <2> QED
    BY <1>9, <2>1, <2>2 DEF WriteBackRows, WriteBackIsQueued
<1>11. WriteBackRows'
  <2>1. c \in Final(text)
    BY <1>1 DEF WriteBackRows, WriteBackIsQueued
  <2>2. \A d \in Chapters : event'[d]["settle"].status = "completed" => d \in staged'
    BY <1>6 DEF WriteBackRows, Kinds
  <2>3. event' \in EventRows' /\ job' \in JobRows'
    BY <1>5 DEF WriteBackRows, EventRows, JobRows, Chapters
  <2> QED
    BY <1>2, <1>9, <1>10, <2>1, <2>2, <2>3 DEF WriteBackRows
<1>12. BatchRow'
  <2>1. batch' = [batch EXCEPT !.step = "stage"] /\ turn' = turn
    BY DEF SaveSettlement
  <2>2. /\ {"todo", "open", "step"} \subseteq DOMAIN batch'
        /\ batch'.todo = batch.todo /\ batch'.open = batch.open /\ batch'.step = "stage"
    BY <2>1 DEF BatchRow
  <2>3. \A f \in batch.todo \cup batch.open :
          /\ f[1] \in Chapters /\ f[2] \in Kinds /\ Row(f).status # "none"
          /\ event'[f[1]][f[2]] = event[f[1]][f[2]]
    <3>1. \A f \in batch.todo \cup batch.open : f[1] \in Chapters /\ f[2] \in Kinds /\ Row(f).status # "none"
      BY DEF BatchRow, Offered
    <3> QED
      BY <1>6, <1>7, <3>1 DEF Row
  <2>4. \A f \in batch.open : f = e
    BY DEF BatchRow
  <2> QED
    BY <1>2, <1>9, <2>1, <2>2, <2>3, <2>4 DEF BatchRow, Row, Offered, c
<1> QED
  BY <1>8, <1>11, <1>12 DEF Outbox
-----------------------------------------------------------------------------
(* The steps of a batch.                                                   *)

\* Beside the outbox, a step of the write-back takes back no aggregation of a stage,
\* and leaves texts and workflow alone.
WriteBackGoals ==
  /\ Outbox /\ JobsStay /\ staged \subseteq staged' /\ UNCHANGED written

\* A turn of the event loop begins.
Idle == WriteBackRows /\ BatchRow /\ turn = "none" /\ UNCHANGED scenario

\* The batch that settles has one event open, and names it.
LEMMA SettlesOne ==
  ASSUME BatchRow, batch.step \in {"ask", "answer", "stage"}
  PROVE  /\ TheOpen \in batch.open /\ TheOpen[2] = "settle"
         /\ batch.step = "stage" => TheOpen[1] \in settled
BY DEF BatchRow, TheOpen

\* Only the batch moves on, or a row of another table changes with it.
LEMMA StepOnlyStep ==
  ASSUME Idle, UNCHANGED <<text, event, settled, staged, job, turn>>,
         running' \subseteq staged,
         {"todo", "open", "step"} \subseteq DOMAIN batch',
         batch'.todo = batch.todo, batch'.open = batch.open,
         \/ batch'.step = batch.step
         \/ batch.step \in {"ask", "answer"} /\ batch'.step \in {"ask", "answer"}
  PROVE  Outbox
<1>1. Final(text') = Final(text) /\ Chapters' = Chapters
  BY DEF Final, Chapters, Idle
<1>2. WriteBackRows'
  BY <1>1 DEF Idle, WriteBackRows, WriteBackIsQueued, EventRows, JobRows
<1>3. BatchRow'
  BY <1>1 DEF Idle, BatchRow, Row
<1>4. EventsStay
  BY DEF EventsStay
<1> QED
  BY <1>2, <1>3, <1>4 DEF Outbox

\* An editor did not deliver: another one is asked, or the event has failed.
LEMMA NextEditorStep ==
  ASSUME Idle, batch.step \in {"ask", "answer"}, NextEditor,
         UNCHANGED <<text, settled, staged, job, running>>
  PROVE  Outbox
<1>1. CASE EndEvent(TheOpen, "failed")
  BY <1>1, SettlesOne, EndEventStep DEF Idle, WriteBackRows
<1>2. CASE batch' = [batch EXCEPT !.step = "ask", !.editor = @ + 1] /\ UNCHANGED <<event, turn>>
  <2>1. /\ {"todo", "open", "step"} \subseteq DOMAIN batch' /\ running' \subseteq staged
        /\ batch'.todo = batch.todo /\ batch'.open = batch.open /\ batch'.step = "ask"
    BY <1>2 DEF Idle, BatchRow, WriteBackRows
  <2> QED
    BY <1>2, <2>1, StepOnlyStep
<1> QED
  BY <1>1, <1>2 DEF NextEditor

\* Every end of the call of an editor.
LEMMA EditorStep ==
  ASSUME Idle, batch.step \in {"ask", "answer"}, UNCHANGED <<text, staged, job, running>>,
         \/ NextEditor /\ UNCHANGED settled
         \/ \E status \in {"failed", "unknown"} : EndEvent(TheOpen, status) /\ UNCHANGED settled
         \/ SaveSettlement(TheOpen[1])
  PROVE  Outbox
<1>1. TheOpen \in batch.open /\ staged \subseteq settled
  BY SettlesOne DEF Idle, WriteBackRows
<1>2. CASE NextEditor /\ UNCHANGED settled
  BY <1>2, NextEditorStep
<1>3. CASE \E status \in {"failed", "unknown"} : EndEvent(TheOpen, status) /\ UNCHANGED settled
  BY <1>1, <1>3, EndEventStep DEF Idle
<1>4. CASE SaveSettlement(TheOpen[1])
  BY <1>1, <1>4, SavedSettlementStep DEF Idle
<1> QED
  BY <1>2, <1>3, <1>4

\* The settlement of the next chapter is leased.
LEMMA LeaseSettleStep ==
  ASSUME Idle, LeaseSettle
  PROVE  WriteBackGoals
<1>1. UNCHANGED <<text, workflow, settled, staged, running, job, turn>> /\ batch.open = {} /\ turn = "none"
  BY DEF LeaseSettle, written, editing, chores, Idle
<1>2. PICK e \in Upstream :
        /\ event' = Leased(event, {e})
        /\ batch' = [batch EXCEPT !.todo = @ \ {e}, !.open = {e}, !.used = TRUE,
                                  !.step = IF e[1] \in settled THEN "stage" ELSE "ask",
                                  !.editor = 1]
  BY DEF LeaseSettle
<1>3. e \in batch.todo /\ e[2] = "settle" /\ e[1] \in Chapters
  BY DEF Upstream, Idle, BatchRow
<1>4. /\ event' \in EventRows /\ EventsStay
      /\ event'[e[1]]["settle"].status = "working" /\ event'[e[1]]["settle"].attempts >= 1
      /\ event[e[1]]["settle"].status \in {"pending", "failed"}
      /\ \A c \in Chapters, k \in Kinds :
           event'[c][k] = event[c][k] \/ (c = e[1] /\ k = "settle")
  <2>1. {e} \in SUBSET batch.todo /\ WriteBackRows /\ BatchRow /\ event' = Leased(event, {e})
    BY <1>2, <1>3 DEF Idle
  <2>2. /\ event' \in EventRows /\ EventsStay
        /\ \A c \in Chapters, k \in Kinds :
             \/ /\ \E f \in {e} : f[1] = c /\ f[2] = k
                /\ event'[c][k].status = "working" /\ event'[c][k].attempts >= 1
                /\ event[c][k].status \in {"pending", "failed"}
             \/ /\ ~\E f \in {e} : f[1] = c /\ f[2] = k
                /\ event'[c][k] = event[c][k]
    BY <2>1, LeasedStep
  <2> QED
    BY <1>3, <2>2 DEF Kinds
<1>5. Final(text') = Final(text) /\ Chapters' = Chapters
  BY <1>1 DEF Final, Chapters, Idle
<1>6. WriteBackRows'
  <2>1. \A d \in Chapters, l \in Kinds : event'[d][l].status = "none" <=> event[d][l].status = "none"
    BY <1>4
  <2>2. WriteBackIsQueued'
    BY <1>1, <1>5, <2>1 DEF Idle, WriteBackRows, WriteBackIsQueued, Kinds
  <2>3. \A d \in Chapters : event'[d]["settle"].status = "completed" => d \in staged'
    BY <1>1, <1>4 DEF Idle, WriteBackRows, Kinds
  <2>4. event' \in EventRows' /\ job' \in JobRows'
    BY <1>1, <1>4, <1>5 DEF Idle, WriteBackRows, EventRows, JobRows
  <2> QED
    BY <1>1, <1>5, <2>2, <2>3, <2>4 DEF Idle, WriteBackRows
<1>7. BatchRow'
  <2>1. /\ {"todo", "open", "step"} \subseteq DOMAIN batch'
        /\ batch'.todo = batch.todo \ {e} /\ batch'.open = {e}
        /\ batch'.step = IF e[1] \in settled THEN "stage" ELSE "ask"
    BY <1>2 DEF Idle, BatchRow
  <2>2. \A f \in batch.todo \ {e} :
          f[1] \in Chapters /\ f[2] \in Kinds /\ event'[f[1]][f[2]] = event[f[1]][f[2]]
    BY <1>3, <1>4 DEF Idle, BatchRow, SameKey
  <2>3. turn' = "none"
    BY <1>1
  <2> QED
    BY <1>1, <1>3, <1>4, <1>5, <2>1, <2>2, <2>3 DEF Idle, BatchRow, Row, Offered
<1> QED
  BY <1>1, <1>4, <1>6, <1>7 DEF WriteBackGoals, Outbox, JobsStay, written

\* Every other step of a settlement.
LEMMA SettleStep ==
  ASSUME Idle, SettleThrows \/ AskEditor \/ EditorAnswers \/ StageSettle
  PROVE  WriteBackGoals
<1>1. UNCHANGED <<text, workflow, job, running>>
  BY DEF SettleThrows, AskEditor, EditorAnswers, StageSettle, written, chores
<1>2. staged \subseteq settled
  BY DEF Idle, WriteBackRows
<1>3. CASE SettleThrows
  <2>1. /\ batch.step = "ask" /\ EndEvent(TheOpen, "failed") /\ UNCHANGED <<settled, staged>>
    BY <1>3 DEF SettleThrows, Settling, editing
  <2>2. Outbox
    BY <1>1, <2>1, EditorStep
  <2> QED
    BY <1>1, <2>1, <2>2 DEF WriteBackGoals, JobsStay, written
<1>4. CASE AskEditor
  <2>1. batch.step = "ask" /\ staged' = staged
    BY <1>4 DEF AskEditor, Settling
  <2>2. \/ NextEditor /\ UNCHANGED settled
        \/ \E status \in {"failed", "unknown"} : EndEvent(TheOpen, status) /\ UNCHANGED settled
        \/ SaveSettlement(TheOpen[1])
        \/ batch' = [batch EXCEPT !.step = "answer"] /\ UNCHANGED <<event, settled, turn>>
    BY <1>4 DEF AskEditor, Unparsable
  <2>3. CASE batch' = [batch EXCEPT !.step = "answer"] /\ UNCHANGED <<event, settled, turn>>
    <3>1. /\ {"todo", "open", "step"} \subseteq DOMAIN batch' /\ running' \subseteq staged
          /\ batch'.todo = batch.todo /\ batch'.open = batch.open /\ batch'.step = "answer"
      BY <1>1, <2>3 DEF Idle, BatchRow, WriteBackRows
    <3> QED
      BY <1>1, <2>1, <2>3, <3>1, StepOnlyStep DEF WriteBackGoals, JobsStay, written
  <2>4. Outbox
    BY <1>1, <2>1, <2>2, <2>3, EditorStep DEF WriteBackGoals
  <2> QED
    BY <1>1, <2>1, <2>4 DEF WriteBackGoals, JobsStay, written
<1>5. CASE EditorAnswers
  <2>1. batch.step = "answer" /\ staged' = staged
    BY <1>5 DEF EditorAnswers, Settling
  <2>2. \/ NextEditor /\ UNCHANGED settled
        \/ \E status \in {"failed", "unknown"} : EndEvent(TheOpen, status) /\ UNCHANGED settled
        \/ SaveSettlement(TheOpen[1])
    BY <1>5 DEF EditorAnswers, Unparsable
  <2>3. Outbox
    BY <1>1, <2>1, <2>2, EditorStep
  <2> QED
    BY <1>1, <2>1, <2>3 DEF WriteBackGoals, JobsStay, written
<1>6. CASE StageSettle
  <2>1. /\ batch.step = "stage" /\ settled' = settled
        /\ \/ staged' = staged \cup {TheOpen[1]} /\ EndEvent(TheOpen, "completed")
           \/ staged' = staged /\ EndEvent(TheOpen, "failed")
    BY <1>6 DEF StageSettle, Settling
  <2>2. TheOpen \in batch.open /\ TheOpen[1] \in settled
    BY <2>1, SettlesOne DEF Idle
  <2>3. Outbox
    BY <1>1, <1>2, <2>1, <2>2, EndEventStep DEF Idle
  <2> QED
    BY <1>1, <2>1, <2>3 DEF WriteBackGoals, JobsStay, written
<1> QED
  BY <1>3, <1>4, <1>5, <1>6

\* All maintenance events of a batch are leased at once.
LEMMA LeaseMaintenanceStep ==
  ASSUME Idle, LeaseMaintenance
  PROVE  WriteBackGoals
<1>1. UNCHANGED <<text, workflow, settled, staged, job, turn>> /\ batch.open = {} /\ turn = "none"
  BY DEF LeaseMaintenance, written, editing, Idle
<1>2. /\ event' = Leased(event, batch.todo)
      /\ batch' = [batch EXCEPT !.todo = {}, !.open = batch.todo, !.step = "maintain", !.used = TRUE]
  BY DEF LeaseMaintenance
<1>3. running' \subseteq staged
  <2> DEFINE triggered == {e \in batch.todo : e[2] = "characters" /\ e[1] \in staged}
             started == {e[1] : e \in {f \in triggered : Restartable(f[1], f[3])}}
  <2>1. running' = running \cup started
    BY DEF LeaseMaintenance
  <2>2. started \subseteq staged
    OBVIOUS
  <2> QED
    BY <2>1, <2>2 DEF Idle, WriteBackRows
<1>4. /\ event' \in EventRows /\ EventsStay
      /\ \A c \in Chapters, k \in Kinds :
           \/ /\ \E e \in batch.todo : e[1] = c /\ e[2] = k
              /\ event'[c][k].status = "working" /\ event'[c][k].attempts >= 1
              /\ event[c][k].status \in {"pending", "failed"}
           \/ /\ ~\E e \in batch.todo : e[1] = c /\ e[2] = k
              /\ event'[c][k] = event[c][k]
  <2>1. batch.todo \in SUBSET batch.todo /\ WriteBackRows /\ BatchRow
    BY DEF Idle
  <2> QED
    BY <1>2, <2>1, LeasedStep
<1>5. Final(text') = Final(text) /\ Chapters' = Chapters
  BY <1>1 DEF Final, Chapters, Idle
<1>6. WriteBackRows'
  <2>1. \A d \in Chapters, l \in Kinds : event'[d][l].status = "none" <=> event[d][l].status = "none"
    BY <1>4
  <2>2. WriteBackIsQueued'
    BY <1>1, <1>5, <2>1 DEF Idle, WriteBackRows, WriteBackIsQueued, Kinds
  <2>3. \A d \in Chapters : event'[d]["settle"].status = "completed" => d \in staged'
    BY <1>1, <1>4 DEF Idle, WriteBackRows, Kinds
  <2>4. event' \in EventRows' /\ job' \in JobRows'
    BY <1>1, <1>4, <1>5 DEF Idle, WriteBackRows, EventRows, JobRows
  <2> QED
    BY <1>1, <1>3, <1>5, <2>2, <2>3, <2>4 DEF Idle, WriteBackRows
<1>7. BatchRow'
  <2>1. /\ {"todo", "open", "step"} \subseteq DOMAIN batch'
        /\ batch'.todo = {} /\ batch'.open = batch.todo /\ batch'.step = "maintain"
    BY <1>2 DEF Idle, BatchRow
  <2>2. \A f \in batch.todo :
          /\ f[1] \in Chapters /\ f[2] \in Kinds
          /\ event'[f[1]][f[2]].status = "working" /\ event'[f[1]][f[2]].attempts >= 1
    BY <1>4 DEF Idle, BatchRow
  <2>3. turn' = "none"
    BY <1>1
  <2> QED
    BY <1>5, <2>1, <2>2, <2>3 DEF Idle, BatchRow, Row
<1> QED
  BY <1>1, <1>4, <1>6, <1>7 DEF WriteBackGoals, Outbox, JobsStay, written

\* A maintenance event ends, or is deferred.
LEMMA MaintainStep ==
  ASSUME Idle, Maintain
  PROVE  WriteBackGoals
<1>1. UNCHANGED <<text, workflow, settled, staged, running, job>>
  BY DEF Maintain, written, editing, chores
<1>2. PICK e \in batch.open :
        \E status \in {"completed", "failed", "unknown", "pending"} :
          EndEvent(e, status) /\ (e[2] = "settle" /\ status = "completed" => e[1] \in staged)
  <2>1. \A c : CharactersEnd(c) \in {"completed", "failed", "unknown", "pending"}
    BY DEF CharactersEnd
  <2> QED
    BY <2>1 DEF Maintain, Ready
<1>3. Outbox
  BY <1>1, <1>2, EndEventStep DEF Idle, WriteBackRows
<1> QED
  BY <1>1, <1>3 DEF WriteBackGoals, JobsStay, written

\* A batch is nothing but its row in memory: it begins and ends without a trace.
LEMMA NewBatchStep ==
  ASSUME Idle, NEW E \in SUBSET OfferedEvents,
         UNCHANGED <<written, outbox, editing, chores, job, turn>>,
         {"todo", "open", "step"} \subseteq DOMAIN batch',
         batch'.todo = AsRead(E), batch'.open = {}, batch'.step \notin {"ask", "answer", "stage"}
  PROVE  WriteBackGoals
<1>1. UNCHANGED <<text, workflow, event, settled, staged, running, job, turn>> /\ turn = "none"
  BY DEF written, outbox, editing, chores, Idle
<1>2. Final(text') = Final(text) /\ Chapters' = Chapters
  BY <1>1 DEF Final, Chapters, Idle
<1>3. WriteBackRows'
  BY <1>1, <1>2 DEF Idle, WriteBackRows, WriteBackIsQueued, EventRows, JobRows
<1>4. BatchRow'
  <2>1. ASSUME NEW f \in AsRead(E)
        PROVE  /\ f \in Chapters \X Kinds \X (0 .. MaxAttempts)
               /\ Offered(event[f[1]][f[2]]) /\ f[3] = event[f[1]][f[2]].attempts
    <3>1. PICK e \in E : f = <<e[1], e[2], event[e[1]][e[2]].attempts>>
      BY <2>1 DEF AsRead
    <3>2. e[1] \in Chapters /\ e[2] \in Kinds /\ Offered(event[e[1]][e[2]])
      BY DEF OfferedEvents
    <3>3. event[e[1]][e[2]].attempts \in 0 .. MaxAttempts
      BY <3>2, EventFacts DEF Idle
    <3> QED
      BY <3>1, <3>2, <3>3
  <2>2. \A f, g \in AsRead(E) : SameKey(f, g) => f = g
    <3> SUFFICES ASSUME NEW f \in AsRead(E), NEW g \in AsRead(E), SameKey(f, g) PROVE f = g
      OBVIOUS
    <3>1. f = <<f[1], f[2], f[3]>> /\ g = <<g[1], g[2], g[3]>> /\ f[3] = g[3]
      BY <2>1 DEF SameKey
    <3> QED
      BY <3>1 DEF SameKey
  <2>3. turn' = "none"
    BY <1>1
  <2> HIDE DEF AsRead
  <2>4. AsRead(E) \subseteq Chapters \X Kinds \X (0 .. MaxAttempts)
    BY <2>1
  <2> QED
    BY <1>1, <1>2, <2>1, <2>2, <2>3, <2>4 DEF BatchRow, Row, Offered
<1> QED
  BY <1>1, <1>3, <1>4 DEF WriteBackGoals, Outbox, EventsStay, JobsStay, written

\* A batch reads the events it will work on.
LEMMA StartBatchStep ==
  ASSUME Idle, NEW E \in SUBSET OfferedEvents, NEW single, StartBatch(single, E),
         UNCHANGED <<written, outbox, editing, chores, job, turn>>
  PROVE  WriteBackGoals
<1>1. /\ {"todo", "open", "step"} \subseteq DOMAIN batch'
      /\ batch'.todo = AsRead(E) /\ batch'.open = {} /\ batch'.step = "lease"
  BY DEF StartBatch, NoBatch
<1> QED
  BY <1>1, NewBatchStep

\* The worker or a route asks for a batch.
LEMMA AsksStep ==
  ASSUME Idle, WorkerAsks \/ Kick
  PROVE  WriteBackGoals
<1>1. CASE WorkerAsks
  <2>1. PICK e \in Oldest(OfferedEvents) : StartBatch(TRUE, {e})
    BY <1>1 DEF WorkerAsks
  <2>2. {e} \in SUBSET OfferedEvents
    BY DEF Oldest
  <2> QED
    BY <1>1, <2>1, <2>2, StartBatchStep DEF WorkerAsks
<1>2. CASE Kick
  BY <1>2, StartBatchStep DEF Kick
<1> QED
  BY <1>1, <1>2

\* A maintenance run ends, or is looked at.
LEMMA RunStep ==
  ASSUME Idle, NEW c \in Chapters, ChildEnds(c) \/ LookAtRun(c)
  PROVE  WriteBackGoals
<1>1. /\ UNCHANGED <<text, workflow, event, settled, staged, job, batch, turn>>
      /\ running' \subseteq running
  BY DEF ChildEnds, LookAtRun, written, outbox, editing
<1>2. running' \subseteq staged /\ {"todo", "open", "step"} \subseteq DOMAIN batch'
  BY <1>1 DEF Idle, WriteBackRows, BatchRow
<1>3. Outbox
  BY <1>1, <1>2, StepOnlyStep
<1> QED
  BY <1>1, <1>3 DEF WriteBackGoals, JobsStay, written

\* Jobs change, and the batch is one of none or of a job.
LEMMA JobStep ==
  ASSUME WriteBackRows, BatchRow, UNCHANGED <<text, scenario, event, settled, staged, running>>,
         job' \in JobRows, {"todo", "open", "step"} \subseteq DOMAIN batch',
         batch'.todo = {}, batch'.open = {}, batch'.step \notin {"ask", "answer", "stage"},
         turn' = "job" => batch'.step \in Jobs /\ job'[batch'.step].status = "working"
  PROVE  Outbox
<1>1. Final(text') = Final(text) /\ Chapters' = Chapters
  BY DEF Final, Chapters
<1>2. WriteBackRows'
  BY <1>1 DEF WriteBackRows, WriteBackIsQueued, EventRows, JobRows
<1>3. BatchRow'
  BY <1>1 DEF BatchRow, Row
<1> QED
  BY <1>2, <1>3 DEF Outbox, EventsStay

\* What a batch that is over leaves in memory.
LEMMA NoBatchIsThere ==
  ASSUME NEW used
  PROVE  LET b == [NoBatch EXCEPT !.used = used]
         IN  /\ {"todo", "open", "step"} \subseteq DOMAIN b
             /\ b.todo = {} /\ b.open = {} /\ b.step = "lease"
BY DEF NoBatch

\* A stage job is leased, or the batch ends.
LEMMA LeaseJobStep ==
  ASSUME Idle, LeaseJob
  PROVE  WriteBackGoals
<1>1. /\ UNCHANGED <<text, workflow, event, settled, staged, running, scenario>>
      /\ batch.todo = {} /\ batch.open = {} /\ turn = "none" /\ job \in JobRows
  BY DEF LeaseJob, Idle, written, outbox, editing, chores, WriteBackRows
<1>2. CASE EndBatch(batch.used) /\ UNCHANGED <<job, turn>>
  <2>1. /\ {"todo", "open", "step"} \subseteq DOMAIN batch'
        /\ batch'.todo = {} /\ batch'.open = {} /\ batch'.step = "lease"
    BY <1>2, NoBatchIsThere DEF EndBatch
  <2>2. Outbox
    BY <1>1, <1>2, <2>1, JobStep DEF Idle
  <2> QED
    BY <1>1, <1>2, <2>2 DEF WriteBackGoals, JobsStay, written
<1>3. CASE /\ \E j \in OfferedJobs :
                /\ job' = [job EXCEPT ![j] = [status |-> "working", attempts |-> @.attempts + 1]]
                /\ batch' = [batch EXCEPT !.step = j]
           /\ turn' = "job"
  <2>1. PICK j \in OfferedJobs :
          /\ job' = [job EXCEPT ![j] = [status |-> "working", attempts |-> @.attempts + 1]]
          /\ batch' = [batch EXCEPT !.step = j]
    BY <1>3
  <2>2. /\ {"todo", "open", "step"} \subseteq DOMAIN batch'
        /\ batch'.todo = {} /\ batch'.open = {} /\ batch'.step = j
    BY <1>1, <2>1 DEF Idle, BatchRow
  <2>3. j \in Jobs /\ Offered(job[j]) /\ j \notin {"ask", "answer", "stage"}
    BY DEF OfferedJobs, Jobs
  <2>4. [status |-> "working", attempts |-> job[j].attempts + 1]
          \in [status : EventStatuses, attempts : 0 .. MaxAttempts]
    BY <1>1, <2>3, ChainAssumption DEF JobRows, Offered, EventStatuses
  <2>5. job' \in JobRows /\ job'[j].status = "working"
    BY <1>1, <2>1, <2>3, <2>4 DEF JobRows
  <2>6. JobsStay
    BY <1>1, <2>1, <2>3 DEF JobsStay, JobRows, Offered
  <2>7. Outbox
    BY <1>1, <2>2, <2>3, <2>5, JobStep DEF Idle
  <2> QED
    BY <1>1, <2>6, <2>7 DEF WriteBackGoals, written
<1> QED
  BY <1>2, <1>3 DEF LeaseJob

\* A stage job ends.
LEMMA JobTurnStep ==
  ASSUME WriteBackRows, BatchRow, UNCHANGED scenario, JobTurn
  PROVE  WriteBackGoals
<1>1. /\ UNCHANGED <<text, workflow, event, settled, staged, running>>
      /\ turn = "job" /\ turn' = "refresh" /\ batch' = [NoBatch EXCEPT !.used = TRUE]
      /\ job \in JobRows /\ batch.step \in Jobs /\ job[batch.step].status = "working"
  BY DEF JobTurn, written, outbox, editing, chores, EndBatch, WriteBackRows, BatchRow
<1>2. PICK s \in {"completed", "failed"} : job' = [job EXCEPT ![batch.step].status = s]
  BY DEF JobTurn
<1>3. job' \in JobRows /\ JobsStay
  BY <1>1, <1>2 DEF JobRows, EventStatuses, JobsStay
<1>4. /\ {"todo", "open", "step"} \subseteq DOMAIN batch'
      /\ batch'.todo = {} /\ batch'.open = {} /\ batch'.step = "lease"
  BY <1>1, NoBatchIsThere
<1>5. Outbox
  BY <1>1, <1>3, <1>4, JobStep
<1> QED
  BY <1>1, <1>3, <1>5 DEF WriteBackGoals, written

\* Every step of a batch.
LEMMA BatchStepKeeps ==
  ASSUME Idle, BatchStep
  PROVE  WriteBackGoals
BY LeaseSettleStep, SettleStep, LeaseMaintenanceStep, MaintainStep, LeaseJobStep DEF BatchStep

\* A completed chain stays what it was found to be.
LEMMA CompletedKept ==
  ASSUME Texts', CompletedMeansSettled, Outbox, JobsStay, UNCHANGED scenario,
         staged \subseteq staged', Final(text) \subseteq Final(text'),
         workflow'.stage = "completed" => workflow.stage = "completed"
  PROVE  CompletedMeansSettled'
<1>1. Chapters' = Chapters
  BY DEF Chapters
<1>2. /\ settled' \subseteq Final(text') /\ staged' \subseteq settled'
      /\ Final(text') \subseteq Chapters
  BY <1>1 DEF Outbox, WriteBackRows, Texts, Final
<1> QED
  BY <1>1, <1>2 DEF CompletedMeansSettled, Outbox, EventsStay, JobsStay, Jobs, Kinds

\* What the rows say when the write-back of the whole outline is complete.
LEMMA ClosedIsSettled ==
  ASSUME Texts, WriteBackRows, AllCompleted(event), Unwritten(text) = {}
  PROVE  /\ Final(text) = Chapters /\ settled = Chapters /\ staged = Chapters
         /\ \A c \in Chapters, k \in Kinds : event[c][k].status = "completed"
<1>1. Final(text) = Chapters
  BY DEF Texts, Final, Unwritten
<1>2. \A c \in Chapters, k \in Kinds : event[c][k].status # "none" => event[c][k].status = "completed"
  <2> SUFFICES ASSUME NEW c \in Chapters, NEW k \in Kinds, event[c][k].status # "none"
               PROVE  event[c][k].status = "completed"
    OBVIOUS
  <2>1. <<c, k>> \in Rows(event)
    BY DEF Rows
  <2> QED
    BY <2>1 DEF AllCompleted
<1>3. staged = Chapters /\ settled = Chapters
  BY <1>1, <1>2 DEF WriteBackRows, WriteBackIsQueued, Kinds
<1>4. \A c \in Chapters, k \in Kinds : event[c][k].status # "none"
  BY <1>1, <1>3 DEF WriteBackRows, WriteBackIsQueued
<1> QED
  BY <1>1, <1>2, <1>3, <1>4

\* refreshWorkflow adds the jobs that are due, and changes none that is there.
LEMMA JobsAfterAre ==
  ASSUME job \in JobRows, NEW ev
  PROVE  /\ JobsAfter(ev, job) \in JobRows
         /\ \A j \in Jobs : job[j].status # "none" => JobsAfter(ev, job)[j] = job[j]
         /\ AllCompleted(ev) /\ Unwritten(text) = {} /\ settled = Final(text) /\ ClosesVolume
            /\ JobsAfter(ev, job)["chain"].status = "completed"
            => JobsAfter(ev, job)["volume"].status # "none"
<1>1. Fresh \in [status : EventStatuses, attempts : 0 .. MaxAttempts] /\ Fresh.status = "pending"
  BY ChainAssumption DEF Fresh, EventStatuses
<1>2. ASSUME NEW jobs \in JobRows, NEW j \in Jobs
      PROVE  /\ Enqueued(jobs, j) \in JobRows
             /\ Enqueued(jobs, j)[j].status # "none"
             /\ \A i \in Jobs : jobs[i].status # "none" => Enqueued(jobs, j)[i] = jobs[i]
  BY <1>1, <1>2 DEF Enqueued, JobRows
<1> DEFINE chain == Enqueued(job, "chain")
<1>3. /\ chain \in JobRows /\ chain["chain"].status # "none"
      /\ \A i \in Jobs : job[i].status # "none" => chain[i] = job[i]
  BY <1>2 DEF Jobs
<1> DEFINE volume == Enqueued(chain, "volume")
<1>4. /\ volume \in JobRows /\ volume["volume"].status # "none"
      /\ \A i \in Jobs : chain[i].status # "none" => volume[i] = chain[i]
  BY <1>2, <1>3 DEF Jobs
<1>5. JobsAfter(ev, job) =
        IF ~(AllCompleted(ev) /\ Unwritten(text) = {} /\ settled = Final(text)) THEN job
        ELSE IF chain["chain"].status = "completed" /\ ClosesVolume THEN volume ELSE chain
  BY DEF JobsAfter
<1> HIDE DEF chain, volume
<1> QED
  BY <1>3, <1>4, <1>5 DEF Jobs

\* refreshWorkflow completes the chain only when everything is written back.
LEMMA RefreshStep ==
  ASSUME Texts, WorkflowRow, WriteBackRows, BatchRow, CompletedMeansSettled,
         UNCHANGED <<scenario, call>>, RefreshTurn
  PROVE  Outbox /\ CompletedMeansSettled' /\ WorkflowRow' /\ UNCHANGED <<text, settled, staged>>
<1>1. /\ UNCHANGED <<text, event, settled, staged, running, batch>> /\ turn' = "none"
      /\ job \in JobRows
  BY DEF RefreshTurn, outbox, editing, chores, WriteBackRows
<1> DEFINE settles == workflow.stage = "settlement" /\ workflow.status # "cancelled"
           after == IF settles THEN JobsAfter(event, job) ELSE job
<1>2. job' = after /\ workflow' = Refreshed(event, after)
  BY DEF RefreshTurn
<1>3. after \in JobRows /\ \A j \in Jobs : job[j].status # "none" => after[j] = job[j]
  BY <1>1, JobsAfterAre
<1> HIDE DEF after
<1>4. Final(text') = Final(text) /\ Chapters' = Chapters
  BY <1>1 DEF Final, Chapters
<1>5. Outbox
  <2>1. WriteBackRows'
    BY <1>1, <1>2, <1>3, <1>4 DEF WriteBackRows, WriteBackIsQueued, EventRows, JobRows
  <2>2. BatchRow'
    BY <1>1, <1>4 DEF BatchRow, Row
  <2> QED
    BY <1>1, <2>1, <2>2 DEF Outbox, EventsStay
<1>6. CASE ~settles
  <2>1. workflow' = workflow /\ job' = job
    BY <1>2, <1>6 DEF Refreshed, after
  <2> QED
    BY <1>1, <1>4, <1>5, <2>1 DEF CompletedMeansSettled, WorkflowRow
<1>7. CASE settles
  <2> DEFINE more == AllCompleted(event) /\ Unwritten(text) # {}
             closed == /\ AllCompleted(event) /\ ~more /\ after["chain"].status = "completed"
                       /\ after["volume"].status \in {"none", "completed"}
  <2>1. /\ {"stage", "status", "text", "ack"} \subseteq DOMAIN workflow'
        /\ workflow'.stage = IF more THEN "manuscript" ELSE IF closed THEN "completed" ELSE "settlement"
        /\ workflow'.status \in Statuses /\ workflow'.text = 0 /\ workflow'.ack = 0
    BY <1>2, <1>7 DEF Refreshed, Statuses
  <2>2. WorkflowRow'
    <3>1. Len(text') \in Nat
      BY <1>1 DEF Texts
    <3>2. Len(call') \in Nat
      OBVIOUS
    <3> HIDE DEF more, closed
    <3> QED
      BY <2>1, <3>1, <3>2 DEF WorkflowRow, Stages
  <2>3. CompletedMeansSettled'
    <3> SUFFICES ASSUME workflow'.stage = "completed" PROVE CompletedMeansSettled'
      BY DEF CompletedMeansSettled
    <3>1. closed /\ ~more
      BY <2>1
    <3>2. AllCompleted(event) /\ Unwritten(text) = {}
      BY <3>1
    <3>3. /\ Final(text) = Chapters /\ settled = Chapters /\ staged = Chapters
          /\ \A c \in Chapters, k \in Kinds : event[c][k].status = "completed"
      BY <3>2, ClosedIsSettled
    <3>4. ClosesVolume => after["volume"].status # "none"
      BY <1>1, <1>7, <3>1, <3>2, <3>3, JobsAfterAre DEF after
    <3> QED
      BY <1>1, <1>2, <1>4, <3>1, <3>3, <3>4 DEF CompletedMeansSettled
  <2> QED
    BY <1>1, <1>5, <2>2, <2>3
<1> QED
  BY <1>6, <1>7
=============================================================================
