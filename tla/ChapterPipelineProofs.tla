----------------------- MODULE ChapterPipelineProofs -----------------------
(***************************************************************************)
(* What holds of a chapter whatever its tasks, failures and edits are: its *)
(* canon stays settled, what is offered for acceptance passed the hard     *)
(* checks, no chapter awaits a decision nobody can take, and a request for *)
(* the synthesis is served.                                                *)
(***************************************************************************)
EXTENDS ChapterPipeline, FiniteSetTheorems, WellFoundedInduction, TLAPS

-----------------------------------------------------------------------------
(* Greatest numbers and sequences.                                         *)

\* The nearest of a set of numbers is one of them, and 0 says there is none.
LEMMA NearestIsOne ==
  ASSUME NEW n \in Nat, NEW S, S \subseteq 1 .. n
  PROVE  /\ S # {} => Nearest(S) \in S
         /\ S = {} => Nearest(S) = 0
<1>1. CASE S = {}
  BY <1>1 DEF Nearest
<1>2. CASE S # {}
  <2> DEFINE T == {s .. n : s \in S}
  <2>0. \A s \in S : IsFiniteSet(s .. n) /\ s .. n \in SUBSET Nat
    <3> TAKE s \in S
    <3>1. s \in Int /\ n \in Int /\ s \in Nat
      OBVIOUS
    <3>2. IsFiniteSet(s .. n)
      BY <3>1, FS_Interval
    <3> QED
      BY <3>1, <3>2
  <2>1. T # {} /\ T \subseteq FiniteSubsetsOf(Nat)
    BY <1>2, <2>0 DEF FiniteSubsetsOf
  <2>2. \E X \in T : \A Y \in T : ~(<<Y, X>> \in StrictSubsetOrdering(Nat))
    <3> HIDE DEF T
    <3> QED BY <2>1, FS_StrictSubsetOrderingWellFounded, WFMin
  <2>3. PICK m \in S : \A s \in S : ~(<<s .. n, m .. n>> \in StrictSubsetOrdering(Nat))
    BY <2>2
  <2>4. \A s \in S : m >= s
    <3> SUFFICES ASSUME NEW s \in S, s > m PROVE FALSE
      OBVIOUS
    <3>1. s .. n \subseteq m .. n /\ s .. n # m .. n
      OBVIOUS
    <3>2. <<s .. n, m .. n>> \in (SUBSET Nat) \X (SUBSET Nat)
      BY <2>0
    <3>3. <<s .. n, m .. n>> \in StrictSubsetOrdering(Nat)
      BY <3>1, <3>2, Zenon DEF StrictSubsetOrdering
    <3> QED BY <2>3, <3>3
  <2> QED
    BY <1>2, <2>4 DEF Nearest, Max
<1> QED
  BY <1>1, <1>2

\* A function with the domain of a sequence is a sequence.
LEMMA SameLength ==
  ASSUME NEW R, NEW s \in Seq(R), NEW f \in [DOMAIN s -> R]
  PROVE  f \in Seq(R) /\ Len(f) = Len(s) /\ DOMAIN f = DOMAIN s
<1>1. Len(s) \in Nat /\ DOMAIN s = 1 .. Len(s)
  OBVIOUS
<1>2. f \in [1 .. Len(s) -> R]
  BY <1>1
<1>3. f \in Seq(R)
  BY <1>1, <1>2
<1> QED
  BY <1>1, <1>2, <1>3
-----------------------------------------------------------------------------
(* The invariant.                                                          *)

TaskStatuses ==
  InProgress \cup {"waiting_confirmation", "succeeded", "failed", "blocked", "cancelled"}
Phases == {"preflight", "context", "draft", "hard_check", "review", "rewrite", "facts",
           "settlement", "completed"}
Writers == {"lead", "backup"}

TaskRow == [op : AllOperations, status : TaskStatuses, bound : Nat, third : BOOLEAN,
            attempts : Nat, cancel : BOOLEAN, reviewing : BOOLEAN]
\* A text whose last check passed has one that passed, and one that passed and was
\* followed by another has one that failed.
TextFields == [parent : Nat, author : Writers \cup {"owner"}, grade : AllGrades, clash : BOOLEAN,
               status : {"candidate", "canon", "rejected"}, passed : BOOLEAN, failed : BOOLEAN,
               latest : BOOLEAN]
TextRow == {text \in TextFields : /\ text.latest => text.passed
                                  /\ text.passed => text.latest \/ text.failed}
PanelRow == [text : Nat, writer : Writers, canon : Nat, status : {"working", "blocked", "complete"},
             full : BOOLEAN, asked : BOOLEAN, merged : BOOLEAN, recorded : BOOLEAN]
GateRow == [status : {"none", "awaiting", "settled", "rejected", "superseded"},
            panel : Nat, task : Nat, canon : Nat, open : BOOLEAN]
ChapterRow == [current : Nat, canon : Nat, settle : {"unsettled", "awaiting", "settled"},
               failed : BOOLEAN]
RunRow == [task : Nat, phase : Phases, status : {"working", "paused", "failed", "completed"},
           text : Nat, panel : Nat, gated : BOOLEAN, rewrites : 0 .. 2, taken : 0 .. 1,
           writer : Writers, epoch : {"none", "held", "lost"}, canon : Nat]
ExecRow == [task : Nat, panel : Nat,
            step : {"none", "loop", "draft", "rewrite", "candidate", "seats", "synthesis"}]

\* The tables and their rows.
Rows ==
  /\ scenario \in Scenarios
  /\ run \in RunRow /\ chapter \in ChapterRow /\ exec \in ExecRow /\ revision \in Nat
  /\ task \in Seq(TaskRow) /\ version \in Seq(TextRow) /\ panel \in Seq(PanelRow)
  /\ gate \in [1 .. MaxTexts -> GateRow]
  /\ orders \subseteq Texts /\ best \in Nat

\* What the rows name exists, within the bounds.
References ==
  /\ Len(task) <= MaxTasks /\ Len(version) <= MaxTexts /\ Len(panel) <= MaxPanels
  /\ revision <= MaxRevision /\ run.canon <= revision
  /\ run.task <= Len(task) /\ run.text <= Len(version) /\ run.panel <= Len(panel)
  /\ best <= Len(version) /\ chapter.current <= Len(version) /\ chapter.canon <= Len(version)
  /\ \A t \in DOMAIN task : task[t].bound <= Len(version)

\* An execution has its task and the chapter's run, and waits for reviews of the text
\* the run is about, which passed its checks.
Executing ==
  /\ exec.step = "none" => exec = Idle
  /\ exec # Idle => /\ exec.task \in DOMAIN task /\ run.task = exec.task
                    /\ task[exec.task].status = "working"
  /\ exec.step \in {"draft", "rewrite", "candidate", "seats", "synthesis"} => run.epoch = "held"
  /\ exec.step \in {"rewrite", "candidate"} => run.text # 0
  /\ exec.step \in {"seats", "synthesis"} =>
       /\ run.text # 0 /\ Passed(run.text)
       /\ run.panel # 0 /\ panel[run.panel].text = run.text
  /\ exec.step = "synthesis" => panel[run.panel].full

\* What is reviewed, preferred or offered to the author passed its checks.
Checked ==
  /\ run.phase \in {"review", "facts"} /\ run.text # 0 => Passed(run.text)
  /\ best # 0 => Passed(best)
  /\ \A v \in Awaiting : v \in Texts /\ Passed(v)
  /\ \A p \in DOMAIN panel : panel[p].recorded => panel[p].full /\ panel[p].merged

\* The canon text keeps its status until a check of it fails, and is then rejected.
Stands(text) == text.status = "canon" \/ (text.status = "rejected" /\ text.failed)

\* A task of a settled chapter that is no revision has written nothing and will not.
Over == {"succeeded", "cancelled"}
Settled ==
  /\ chapter.canon # 0 <=> chapter.settle = "settled"
  /\ chapter.canon # 0 => Passed(chapter.canon) /\ Stands(version[chapter.canon])
  /\ \A t \in DOMAIN task :
       /\ chapter.settle = "settled" /\ run.task = t
       /\ task[t].status \notin Over /\ task[t].op \notin Explicit
       => /\ run.text = 0 /\ run.epoch # "held"
          /\ run.phase \in {"preflight", "rewrite", "completed"}

Inductive ==
  Rows /\ References /\ Executing /\ Checked /\ Settled /\ AwaitingHasGate /\ RequestsAreServed

LEMMA InitHolds == Init => Inductive
<1> SUFFICES ASSUME Init PROVE Inductive
  OBVIOUS
<1> USE ScenariosAssumption DEF Init, FreshRun, Idle, NoGate
<1>1. Rows /\ References
  BY DEF Rows, References, RunRow, ChapterRow, ExecRow, GateRow, Phases, Writers, Texts,
         MaxTexts, MaxTasks, MaxPanels, MaxRevision
<1>2. Executing /\ Checked
  BY DEF Executing, Checked, Awaiting
<1>3. Settled /\ AwaitingHasGate /\ RequestsAreServed
  BY DEF Settled, AwaitingHasGate, RequestsAreServed
<1> QED
  BY <1>1, <1>2, <1>3 DEF Inductive

\* Rows in the form the provers use them.
LEMMA Tables ==
  ASSUME Rows
  PROVE  /\ Len(task) \in Nat /\ DOMAIN task = 1 .. Len(task) /\ \A t \in DOMAIN task : task[t] \in TaskRow
         /\ Len(version) \in Nat /\ DOMAIN version = 1 .. Len(version)
         /\ \A v \in DOMAIN version : version[v] \in TextRow
         /\ Len(panel) \in Nat /\ DOMAIN panel = 1 .. Len(panel) /\ \A p \in DOMAIN panel : panel[p] \in PanelRow
         /\ MaxTexts \in Nat /\ MaxTasks \in Nat /\ MaxPanels \in Nat /\ MaxRevision \in Nat
BY ScenariosAssumption DEF Rows, MaxTexts, MaxTasks, MaxPanels, MaxRevision

-----------------------------------------------------------------------------
(* The rows of texts.                                                      *)

\* What a text keeps whatever is written to it: its words, what its checks found, and that
\* it is rejected.
Keeps(old, new) ==
  /\ new.grade = old.grade /\ new.author = old.author
  /\ old.status = "rejected" => new.status = "rejected"
  /\ old.passed => new.passed
  /\ old.failed => new.failed

LEMMA TextFacts ==
  ASSUME NEW text \in TextRow
  PROVE  /\ text \in TextFields /\ Keeps(text, text)
         /\ text.latest => text.passed
         /\ text.passed /\ ~text.latest => text.failed
BY DEF TextRow, Keeps

\* A check is one more row, and the last one.
LEMMA TextChecked ==
  ASSUME NEW text \in TextRow
  PROVE  /\ WithCheck(text) \in TextRow /\ Keeps(text, WithCheck(text))
         /\ WithCheck(text).status = text.status
         /\ Verdict(text) = "sound" => WithCheck(text).passed
         /\ Verdict(text) # "sound" => WithCheck(text).failed /\ ~WithCheck(text).latest
<1>1. text \in TextFields
  BY DEF TextRow
<1>2. PICK ok \in BOOLEAN : ok <=> Verdict(text) = "sound"
  OBVIOUS
<1>3. WithCheck(text) = [text EXCEPT !.passed = @ \/ ok, !.failed = @ \/ ~ok, !.latest = ok]
  BY <1>2 DEF WithCheck
<1>4. WithCheck(text) \in TextFields
  BY <1>1, <1>3 DEF TextFields
<1>5. /\ WithCheck(text).grade = text.grade /\ WithCheck(text).author = text.author
      /\ WithCheck(text).status = text.status
      /\ WithCheck(text).passed <=> text.passed \/ ok
      /\ WithCheck(text).failed <=> text.failed \/ ~ok
      /\ WithCheck(text).latest <=> ok
  BY <1>1, <1>3 DEF TextFields
<1> QED
  BY <1>2, <1>4, <1>5 DEF TextRow, Keeps

LEMMA TextPlaced ==
  ASSUME NEW text \in TextRow, NEW status \in {"candidate", "canon", "rejected"}
  PROVE  /\ [text EXCEPT !.status = status] \in TextRow
         /\ (text.status = "rejected" => status = "rejected") =>
              Keeps(text, [text EXCEPT !.status = status])
         /\ [text EXCEPT !.status = status].status = status
         /\ Verdict([text EXCEPT !.status = status]) = Verdict(text)
<1> DEFINE row == [text EXCEPT !.status = status]
<1>1. text \in TextFields
  BY DEF TextRow
<1>2. row \in TextFields
  BY <1>1 DEF TextFields
<1>3. /\ row.grade = text.grade /\ row.author = text.author /\ row.status = status
      /\ row.clash <=> text.clash
      /\ row.passed <=> text.passed
      /\ row.failed <=> text.failed
      /\ row.latest <=> text.latest
  BY <1>1 DEF TextFields
<1> HIDE DEF row
<1>4. /\ row \in TextRow /\ row.status = status /\ Verdict(row) = Verdict(text)
      /\ (text.status = "rejected" => status = "rejected") => Keeps(text, row)
  BY <1>2, <1>3 DEF TextRow, Keeps, Verdict
<1> QED
  BY <1>4 DEF row

\* Another chapter is settled, and a text clashes with it or does not.
LEMMA TextClashes ==
  ASSUME NEW text \in TextRow, NEW clash \in BOOLEAN
  PROVE  /\ [text EXCEPT !.clash = clash] \in TextRow
         /\ Keeps(text, [text EXCEPT !.clash = clash])
         /\ [text EXCEPT !.clash = clash].status = text.status
<1> DEFINE row == [text EXCEPT !.clash = clash]
<1>1. text \in TextFields
  BY DEF TextRow
<1>2. row \in TextFields
  BY <1>1 DEF TextFields
<1>3. /\ row.grade = text.grade /\ row.author = text.author /\ row.status = text.status
      /\ row.passed <=> text.passed
      /\ row.failed <=> text.failed
      /\ row.latest <=> text.latest
  BY <1>1 DEF TextFields
<1> HIDE DEF row
<1>4. row \in TextRow /\ Keeps(text, row) /\ row.status = text.status
  BY <1>2, <1>3 DEF TextRow, Keeps
<1> QED
  BY <1>4 DEF row

\* A text that is new has no check on record.
LEMMA TextRegistered ==
  ASSUME NEW parent \in Nat, NEW author \in Writers \cup {"owner"}, NEW g \in AllGrades,
         NEW clash \in Clashes
  PROVE  \E row \in TextRow : Register(parent, author, g, clash) = Append(version, row)
<1> DEFINE row == [parent |-> parent, author |-> author, grade |-> g, clash |-> clash,
                   status |-> "candidate", passed |-> FALSE, failed |-> FALSE, latest |-> FALSE]
<1>1. clash \in BOOLEAN
  BY DEF Clashes
<1>2. row \in TextRow
  BY <1>1 DEF TextRow, TextFields
<1> QED
  BY <1>2 DEF Register
-----------------------------------------------------------------------------
(* A phase that ends, and an execution that fails.                         *)

\* A phase ends (Continue): only the row of its task is written.
Continued ==
  /\ \E reviewing \in BOOLEAN : task' = [task EXCEPT ![exec.task].reviewing = reviewing]
  /\ exec' = [exec EXCEPT !.step = "loop", !.panel = 0]
  /\ revision' = revision

LEMMA ContinueKeeps ==
  ASSUME Rows, Executing, exec # Idle, Continued
  PROVE  /\ task' \in Seq(TaskRow) /\ Len(task') = Len(task)
         /\ DOMAIN task' = DOMAIN task /\ exec' \in ExecRow
         /\ \A t \in DOMAIN task : /\ task'[t].op = task[t].op /\ task'[t].bound = task[t].bound
                                   /\ task'[t].status = task[t].status
         /\ exec' # Idle /\ exec'.step = "loop" /\ exec'.task = exec.task
<1>0. PICK b \in BOOLEAN : task' = [task EXCEPT ![exec.task].reviewing = b]
  BY DEF Continued
<1>1. task' \in [DOMAIN task -> TaskRow]
  BY <1>0, Tables DEF TaskRow
<1>2. task' \in Seq(TaskRow) /\ Len(task') = Len(task) /\ DOMAIN task' = DOMAIN task
  BY <1>1, SameLength DEF Rows
<1>3. exec' \in ExecRow /\ exec' # Idle /\ exec'.step = "loop" /\ exec'.task = exec.task
  BY DEF Continued, Rows, ExecRow, Idle
<1> QED
  BY <1>0, <1>2, <1>3, Tables DEF TaskRow

\* The catch block (Throw) ends the task, and blocks a panel; a process that dies leaves
\* it to be queued again.
Ended == {"cancelled", "blocked", "failed", "queued"}
Failing ==
  /\ \E status \in Ended :
       task' = [task EXCEPT ![exec.task].status = status]
  /\ exec' = Idle /\ revision' = revision /\ gate' = gate

LEMMA ThrowKeeps ==
  ASSUME Rows, Executing, exec # Idle, Failing
  PROVE  /\ task' \in Seq(TaskRow) /\ Len(task') = Len(task) /\ DOMAIN task' = DOMAIN task
         /\ \A t \in DOMAIN task :
              /\ task'[t].op = task[t].op /\ task'[t].bound = task[t].bound
              /\ t # exec.task => task'[t].status = task[t].status
              /\ t = exec.task => task'[t].status \in Ended
         /\ exec' = Idle /\ exec' \in ExecRow /\ revision' = revision /\ gate' = gate
<1>0. PICK st \in Ended : task' = [task EXCEPT ![exec.task].status = st]
  BY DEF Failing
<1>1. task' \in [DOMAIN task -> TaskRow]
  BY <1>0, Tables DEF TaskRow, TaskStatuses, InProgress, Ended
<1>2. task' \in Seq(TaskRow) /\ Len(task') = Len(task) /\ DOMAIN task' = DOMAIN task
  BY <1>1, SameLength DEF Rows
<1>3. \A t \in DOMAIN task :
        /\ task'[t].op = task[t].op /\ task'[t].bound = task[t].bound
        /\ t # exec.task => task'[t].status = task[t].status
        /\ t = exec.task => task'[t].status \in Ended
  BY <1>0, Tables DEF TaskRow
<1>4. exec' = Idle /\ exec' \in ExecRow /\ revision' = revision /\ gate' = gate
  BY DEF Failing, Idle, ExecRow
<1> QED
  BY <1>2, <1>3, <1>4
-----------------------------------------------------------------------------
(* The two ways a phase can end.                                           *)

\* The texts after a step: none is lost, none loses its checks, and canon is not rejected
\* unless a check of it failed.
TextsKept ==
  /\ version' \in Seq(TextRow) /\ Len(version) <= Len(version') /\ Len(version') <= MaxTexts
  /\ \A v \in Texts : Keeps(version[v], version'[v])
  /\ chapter.canon # 0 => Stands(version'[chapter.canon])

\* The panels qs that become of ps: none is lost, none loses its reports, and what is
\* recorded was merged.
Grown(ps, qs) ==
  /\ qs \in Seq(PanelRow) /\ Len(ps) <= Len(qs)
  /\ \A p \in DOMAIN ps : /\ qs[p].text = ps[p].text /\ (ps[p].full => qs[p].full)
                          /\ ps[p].merged => qs[p].merged
  /\ \A p \in DOMAIN qs : qs[p].recorded => qs[p].full /\ qs[p].merged

PanelsKept == Grown(panel, panel') /\ Len(panel') <= MaxPanels

\* The tasks after a step: none is lost, an order to rewrite stays one, only the task of
\* a run sent back to rewrite is bound to another text, and only the one executed comes to
\* await the author.
TasksStand ==
  \A t \in DOMAIN task :
    /\ t \in DOMAIN task'
    /\ task[t].op = "rewrite_existing" => task'[t].op = "rewrite_existing"
    /\ (t = run.task /\ run'.phase = "rewrite") \/ task'[t].bound = task[t].bound
    /\ t # exec.task /\ task'[t].status = "waiting_confirmation" => task[t].status = "waiting_confirmation"

\* The run goes to another task only when that task is claimed.
RunStands == run'.task = run.task \/ (exec = Idle /\ exec' # Idle /\ run'.task = exec'.task)

Kept == TextsKept /\ PanelsKept /\ TasksStand /\ RunStands

\* Orders and the best text after a step.
ChoicesKept ==
  /\ orders' \subseteq Texts' /\ best' \in Nat /\ best' <= Len(version')
  /\ best' # 0 => Passed(best)'

LEMMA PassedStays ==
  ASSUME Rows, TextsKept, NEW v \in Texts, Passed(v)
  PROVE  v \in Texts' /\ version'[v].passed
BY Tables DEF TextsKept, Keeps, Passed, Texts

\* An execution that fails: its run keeps its place, and its text unless the best one
\* took its place.
LEMMA FailureKeeps ==
  ASSUME Inductive, scenario' = scenario, exec # Idle, Failing, PanelsKept,
         run' \in RunRow, run'.task = run.task, run'.phase = run.phase, run'.epoch = run.epoch,
         run'.panel = run.panel, run'.canon = run.canon,
         run'.text = run.text \/ (run'.text = best /\ best # 0 /\ Step("synthesis")),
         chapter' \in ChapterRow, chapter'.canon = chapter.canon,
         chapter'.settle = chapter.settle, chapter'.current <= Len(version'),
         TextsKept, ChoicesKept
  PROVE  Inductive' /\ Kept
<1> USE DEF Inductive
<1>1. /\ task' \in Seq(TaskRow) /\ Len(task') = Len(task) /\ DOMAIN task' = DOMAIN task
      /\ \A t \in DOMAIN task :
              /\ task'[t].op = task[t].op /\ task'[t].bound = task[t].bound
              /\ t # exec.task => task'[t].status = task[t].status
              /\ t = exec.task => task'[t].status \in Ended
      /\ exec' = Idle /\ exec' \in ExecRow /\ revision' = revision /\ gate' = gate
  BY ThrowKeeps
<1>2. /\ run'.task = run.task /\ run'.phase = run.phase /\ run'.epoch = run.epoch
      /\ run'.panel = run.panel /\ run'.canon = run.canon
  OBVIOUS
<1>3. Len(version) \in Nat /\ DOMAIN version = 1 .. Len(version)
      /\ Len(version') \in Nat /\ DOMAIN version' = 1 .. Len(version')
      /\ Len(panel) \in Nat /\ Len(panel') \in Nat
  BY Tables, <1>1 DEF TextsKept
<1>4. Rows'
  BY <1>1 DEF Rows, TextsKept, PanelsKept, Grown, ChoicesKept, MaxTexts
<1>5. References'
  <2>1. \A t \in DOMAIN task' : task'[t].bound <= Len(version')
    BY <1>1, <1>3, Tables DEF References, TextsKept, TaskRow
  <2>2. run'.text \in Nat /\ run'.text <= Len(version')
    BY <1>3 DEF References, Rows, TextsKept, RunRow
  <2>3. /\ Len(task') <= MaxTasks' /\ Len(version') <= MaxTexts' /\ Len(panel') <= MaxPanels'
        /\ revision' <= MaxRevision'
    BY <1>1 DEF References, TextsKept, PanelsKept, Grown, MaxTexts, MaxPanels, MaxTasks, MaxRevision
  <2>4. run'.canon <= revision' /\ run'.task <= Len(task') /\ run'.panel <= Len(panel')
    BY <1>1, <1>2, <1>3 DEF References, PanelsKept, Grown, Rows, RunRow
  <2>5. best' <= Len(version') /\ chapter'.current <= Len(version') /\ chapter'.canon <= Len(version')
    BY <1>1, <1>3 DEF References, TextsKept, ChoicesKept, Rows, ChapterRow
  <2> QED
    BY <1>2, <2>1, <2>2, <2>3, <2>4, <2>5 DEF References
<1>6. Executing'
  BY <1>1 DEF Executing, Idle
<1>7. best # 0 => best \in Texts
  BY <1>3 DEF References, Rows, Texts
<1>8. run'.text # 0 => run'.text \in Texts
  BY <1>3, <1>7 DEF References, Rows, RunRow, Texts
<1>9. run'.phase \in {"review", "facts"} /\ run'.text # 0 => Passed(run.text)'
  <2> SUFFICES ASSUME run'.phase \in {"review", "facts"}, run'.text # 0 PROVE Passed(run.text)'
    OBVIOUS
  <2>1. Passed(run'.text) /\ run'.text \in Texts
    BY <1>2, <1>8 DEF Checked
  <2>2. version'[run'.text].passed
    BY <2>1, PassedStays
  <2> QED
    BY <2>2, <1>2 DEF Passed
<1>10. \A v \in Awaiting : v \in Texts' /\ Passed(v)'
  BY PassedStays DEF Checked, Passed
<1>11. Checked'
  BY <1>1, <1>9, <1>10 DEF Checked, Awaiting, ChoicesKept, PanelsKept, Grown
<1>12. chapter.canon # 0 => chapter.canon \in Texts
  BY <1>3 DEF References, Rows, ChapterRow, Texts
<1>13. Settled'
  <2>1. chapter'.canon # 0 <=> chapter'.settle = "settled"
    BY <1>1 DEF Settled
  <2>2. chapter'.canon # 0 => Passed(chapter.canon)' /\ Stands(version'[chapter'.canon])
    <3> SUFFICES ASSUME chapter.canon # 0
                 PROVE  Passed(chapter.canon)' /\ Stands(version'[chapter'.canon])
      BY <1>1
    <3>1. version'[chapter.canon].passed
      BY <1>12, PassedStays DEF Settled
    <3> QED
      BY <1>1, <3>1 DEF TextsKept, Passed
  <2>3. ASSUME NEW t \in DOMAIN task', chapter'.settle = "settled", run'.task = t,
               task'[t].status \notin Over, task'[t].op \notin Explicit
        PROVE  run'.text = 0 /\ run'.epoch # "held" /\ run'.phase \in {"preflight", "rewrite", "completed"}
    <3>1. exec.task = t /\ task[t].status = "working" /\ task[t].op \notin Explicit
      BY <2>3, <1>1, <1>2 DEF Executing
    <3>2. run.text = 0 /\ run.epoch # "held" /\ run.phase \in {"preflight", "rewrite", "completed"}
      BY <3>1, <2>3, <1>1, <1>2 DEF Settled, Over
    <3> QED
      BY <3>2, <1>2 DEF Executing, Step
  <2> QED
    BY <2>1, <2>2, <2>3 DEF Settled
<1>14. AwaitingHasGate'
  BY <1>1 DEF AwaitingHasGate, Awaiting
<1>15. RequestsAreServed'
  BY <1>1, <1>2 DEF RequestsAreServed, Executing, Ended
<1>16. TasksStand
  BY <1>1 DEF TasksStand, Ended
<1> QED
  BY <1>4, <1>5, <1>6, <1>11, <1>13, <1>14, <1>15, <1>16 DEF Kept, RunStands

\* A phase that ends: its run is about a text that passed, where that matters, and a
\* settled chapter is written by revisions only.
LEMMA PhaseKeeps ==
  ASSUME Inductive, scenario' = scenario, exec # Idle, Continued, run' \in RunRow,
         run'.task = run.task, run'.canon = run.canon,
         run'.text <= Len(version'), run'.panel <= Len(panel'),
         TextsKept, PanelsKept, ChoicesKept,
         gate' \in [1 .. MaxTexts -> GateRow],
         \A v \in 1 .. MaxTexts : gate'[v].status = "awaiting" => v \in Texts' /\ Passed(v)',
         AwaitingHasGate',
         chapter' \in ChapterRow, chapter'.canon = chapter.canon, chapter'.current <= Len(version'),
         chapter'.settle # chapter.settle => chapter.settle # "settled" /\ chapter'.settle = "awaiting",
         run'.phase \in {"review", "facts"} /\ run'.text # 0 =>
           version'[run'.text].passed,
         chapter.settle = "settled" /\ Op \notin Explicit =>
           run'.text = 0 /\ run'.epoch # "held" /\ run'.phase \in {"preflight", "rewrite", "completed"}
  PROVE  Inductive' /\ Kept
<1> USE DEF Inductive
<1>1. /\ task' \in Seq(TaskRow) /\ Len(task') = Len(task)
      /\ DOMAIN task' = DOMAIN task /\ exec' \in ExecRow /\ revision' = revision
      /\ \A t \in DOMAIN task : /\ task'[t].op = task[t].op /\ task'[t].bound = task[t].bound
                                /\ task'[t].status = task[t].status
      /\ exec' # Idle /\ exec'.step = "loop" /\ exec'.task = exec.task
  BY ContinueKeeps DEF Continued
<1>3. Len(version) \in Nat /\ DOMAIN version = 1 .. Len(version)
      /\ Len(version') \in Nat /\ DOMAIN version' = 1 .. Len(version')
      /\ Len(panel) \in Nat /\ Len(panel') \in Nat
  BY Tables, <1>1 DEF TextsKept, PanelsKept, Grown
<1>4. Rows'
  BY <1>1 DEF Rows, TextsKept, PanelsKept, Grown, ChoicesKept, MaxTexts
<1>5. References'
  <2>1. \A t \in DOMAIN task' : task'[t].bound <= Len(version')
    BY <1>1, <1>3, Tables DEF References, TextsKept, TaskRow
  <2>3. /\ Len(task') <= MaxTasks' /\ Len(version') <= MaxTexts' /\ Len(panel') <= MaxPanels'
        /\ revision' <= MaxRevision'
    BY <1>1 DEF References, TextsKept, PanelsKept, Grown, MaxTexts, MaxPanels, MaxTasks, MaxRevision
  <2>4. run'.canon <= revision' /\ run'.task <= Len(task')
    BY <1>1 DEF References
  <2>5. best' <= Len(version') /\ chapter'.canon <= Len(version')
    BY <1>1, <1>3 DEF References, TextsKept, ChoicesKept, Rows, ChapterRow
  <2> QED
    BY <1>1, <2>1, <2>3, <2>4, <2>5 DEF References
<1>6. Executing'
  BY <1>1 DEF Executing, Idle
<1>11. Checked'
  BY <1>1 DEF Checked, Awaiting, ChoicesKept, PanelsKept, Grown, Passed
<1>12. chapter.canon # 0 => chapter.canon \in Texts
  BY <1>3 DEF References, Rows, ChapterRow, Texts
<1>13. Settled'
  <2>1. chapter'.canon # 0 <=> chapter'.settle = "settled"
    BY <1>1 DEF Settled
  <2>2. chapter'.canon # 0 => Passed(chapter.canon)' /\ Stands(version'[chapter'.canon])
    <3> SUFFICES ASSUME chapter.canon # 0
                 PROVE  Passed(chapter.canon)' /\ Stands(version'[chapter'.canon])
      BY <1>1
    <3>1. version'[chapter.canon].passed
      BY <1>12, PassedStays DEF Settled
    <3> QED
      BY <1>1, <3>1 DEF TextsKept, Passed
  <2>3. ASSUME NEW t \in DOMAIN task', chapter'.settle = "settled", run'.task = t,
               task'[t].status \notin Over, task'[t].op \notin Explicit
        PROVE  run'.text = 0 /\ run'.epoch # "held" /\ run'.phase \in {"preflight", "rewrite", "completed"}
    <3>1. exec.task = t /\ Op \notin Explicit
      BY <2>3, <1>1 DEF Executing, Op
    <3> QED
      BY <3>1, <2>3, <1>1
  <2> QED
    BY <2>1, <2>2, <2>3 DEF Settled
<1>15. RequestsAreServed'
  BY <1>1 DEF RequestsAreServed, Executing
<1>16. TasksStand
  BY <1>1 DEF TasksStand
<1> QED
  BY <1>4, <1>5, <1>6, <1>11, <1>13, <1>15, <1>16 DEF Kept, RunStands

LEMMA SameTexts ==
  ASSUME Inductive
  PROVE  /\ version' = version => TextsKept
         /\ UNCHANGED texts => TextsKept /\ ChoicesKept
         /\ Grown(panel, panel)
<1>1. version' = version => TextsKept
  <2>1. \A v \in Texts : Keeps(version[v], version[v])
    BY TextFacts, Tables DEF Inductive, Texts
  <2> QED
    BY <2>1 DEF Inductive, Rows, References, Settled, TextsKept
<1>2. UNCHANGED texts => ChoicesKept
  BY DEF Inductive, Rows, References, Checked, ChoicesKept, texts, Texts, Passed
<1>3. Grown(panel, panel)
  BY DEF Inductive, Rows, References, Checked, Grown
<1> QED
  BY <1>1, <1>2, <1>3 DEF texts

\* Panels that are blocked keep their reports.
LEMMA BlockedKept ==
  ASSUME NEW S, NEW ps, NEW qs, Grown(ps, qs)
  PROVE  /\ Grown(ps, Blocked(qs, S)) /\ Blocked(qs, S) \in [DOMAIN qs -> PanelRow]
         /\ Len(Blocked(qs, S)) = Len(qs)
         /\ \A p \in DOMAIN qs :
              Blocked(qs, S)[p].asked = qs[p].asked /\ Blocked(qs, S)[p].text = qs[p].text
<1>1. \A p \in DOMAIN qs : qs[p] \in PanelRow
  BY DEF Grown
<1>2. Blocked(qs, S) \in [DOMAIN qs -> PanelRow]
  BY <1>1 DEF Blocked, PanelRow
<1>3. Blocked(qs, S) \in Seq(PanelRow) /\ Len(Blocked(qs, S)) = Len(qs) /\ DOMAIN Blocked(qs, S) = DOMAIN qs
  BY <1>2, SameLength DEF Grown
<1>4. \A p \in DOMAIN qs : /\ Blocked(qs, S)[p].text = qs[p].text /\ Blocked(qs, S)[p].full = qs[p].full
                           /\ Blocked(qs, S)[p].merged = qs[p].merged
                           /\ Blocked(qs, S)[p].recorded = qs[p].recorded
                           /\ Blocked(qs, S)[p].asked = qs[p].asked
  BY <1>1 DEF Blocked, PanelRow
<1>5. Len(qs) \in Nat /\ DOMAIN qs = 1 .. Len(qs)
  BY DEF Grown
<1> QED
  BY <1>2, <1>3, <1>4, <1>5 DEF Grown

\* An execution that fails with its run and its chapter as they are: the catch block
\* blocks a panel of ps, what the phase had made of the panels.
LEMMA PlainFailure ==
  ASSUME Inductive, scenario' = scenario, exec # Idle, Failing,
         NEW ps, NEW doomed, Grown(panel, ps), Len(ps) = Len(panel), panel' = Blocked(ps, {doomed}),
         run' = [run EXCEPT !.status = "failed"],
         NEW failed \in BOOLEAN, chapter' = chapter \/ chapter' = [chapter EXCEPT !.failed = failed],
         version' = version, ChoicesKept
  PROVE  Inductive' /\ Kept
<1>1. /\ run' \in RunRow /\ run'.task = run.task /\ run'.phase = run.phase /\ run'.epoch = run.epoch
      /\ run'.panel = run.panel /\ run'.canon = run.canon /\ run'.text = run.text
  BY DEF Inductive, Rows, RunRow
<1>2. /\ chapter' \in ChapterRow /\ chapter'.canon = chapter.canon
      /\ chapter'.settle = chapter.settle /\ chapter'.current <= Len(version')
  <2>1. chapter \in ChapterRow /\ chapter.current <= Len(version')
    BY DEF Inductive, Rows, References
  <2>2. CASE chapter' = chapter
    BY <2>1, <2>2
  <2>3. CASE chapter' = [chapter EXCEPT !.failed = failed]
    <3>1. chapter' \in ChapterRow
      BY <2>1, <2>3 DEF ChapterRow
    <3>2. chapter'.canon = chapter.canon /\ chapter'.settle = chapter.settle
          /\ chapter'.current = chapter.current
      BY <2>1, <2>3 DEF ChapterRow
    <3> QED
      BY <2>1, <3>1, <3>2
  <2> QED
    BY <2>2, <2>3
<1>3. TextsKept
  BY SameTexts
<1>4. PanelsKept
  BY BlockedKept DEF PanelsKept, Inductive, References
<1> QED
  BY <1>1, <1>2, <1>3, <1>4, FailureKeeps

LEMMA PlainFailures ==
  ASSUME Inductive, scenario' = scenario,
         PreflightBlocked \/ ExecutionThrows \/ WriterBlocked \/ SynthesisBlocked
  PROVE  Inductive' /\ Kept
<1>1. exec.step \in {"loop", "draft", "rewrite", "candidate", "synthesis"} /\ UNCHANGED texts
  <2>1. CASE PreflightBlocked
    BY <2>1 DEF PreflightBlocked, Phase, Step
  <2>2. CASE ExecutionThrows
    BY <2>2 DEF ExecutionThrows
  <2>3. CASE WriterBlocked
    BY <2>3 DEF WriterBlocked
  <2>4. CASE SynthesisBlocked
    BY <2>4 DEF SynthesisBlocked, Step
  <2> QED
    BY <2>1, <2>2, <2>3, <2>4
<1>2. exec # Idle
  BY <1>1 DEF Idle
<1>3. Throw(TRUE, run, panel, chapter) \/ Throw(FALSE, run, panel, chapter)
  BY Zenon DEF PreflightBlocked, ExecutionThrows, WriterBlocked, SynthesisBlocked
<1>4. /\ Failing /\ run' = [run EXCEPT !.status = "failed"]
      /\ \E failed \in BOOLEAN : chapter' = chapter \/ chapter' = [chapter EXCEPT !.failed = failed]
      /\ \E doomed : panel' = Blocked(panel, {doomed})
  BY <1>3 DEF Throw, Failing, Ended
<1>5. Grown(panel, panel) /\ ChoicesKept /\ version' = version
  BY <1>1, SameTexts DEF texts
<1> QED
  BY <1>2, <1>4, <1>5, PlainFailure

LEMMA ReviewsExhaustedStep ==
  ASSUME Inductive, scenario' = scenario, ReviewsExhausted
  PROVE  Inductive' /\ Kept
<1>1. exec # Idle
  BY DEF ReviewsExhausted, Phase, Step, Idle
<1>2. PICK ps : ps = Blocked(panel, {run.panel})
  OBVIOUS
<1>3. /\ Failing /\ run' = [run EXCEPT !.status = "failed"] /\ UNCHANGED texts
      /\ \E failed \in BOOLEAN : chapter' = chapter \/ chapter' = [chapter EXCEPT !.failed = failed]
      /\ \E doomed : panel' = Blocked(ps, {doomed})
  BY <1>2 DEF ReviewsExhausted, Throw, Failing, Ended
<1>4. Grown(panel, ps) /\ Len(ps) = Len(panel)
  BY <1>2, SameTexts, BlockedKept
<1> QED
  BY <1>1, <1>3, <1>4, SameTexts, PlainFailure DEF texts

\* The reports are in.
LEMMA ReportedKept ==
  ASSUME Inductive, Step("seats")
  PROVE  /\ Grown(panel, Reported) /\ Len(Reported) = Len(panel)
         /\ DOMAIN Reported = DOMAIN panel /\ run.panel \in DOMAIN panel
         /\ \A p \in DOMAIN panel : Reported[p].asked = panel[p].asked
         /\ Reported[run.panel].full /\ Reported[run.panel].text = run.text
<1>1. run.panel \in DOMAIN panel /\ panel[run.panel].text = run.text
  BY Tables DEF Inductive, Executing, Step, References, Rows, RunRow
<1>2. \A p \in DOMAIN panel : panel[p] \in PanelRow
  BY Tables DEF Inductive
<1>3. Reported \in [DOMAIN panel -> PanelRow]
  BY <1>1, <1>2 DEF Reported, PanelRow
<1>4. Reported \in Seq(PanelRow) /\ Len(Reported) = Len(panel) /\ DOMAIN Reported = DOMAIN panel
  BY <1>3, SameLength DEF Inductive, Rows
<1>5. \A p \in DOMAIN panel : /\ Reported[p].text = panel[p].text
                              /\ panel[p].full => Reported[p].full
                              /\ Reported[p].merged = panel[p].merged
                              /\ Reported[p].recorded = panel[p].recorded
                              /\ Reported[p].asked = panel[p].asked
  BY <1>1, <1>2 DEF Reported, PanelRow
<1>6. Reported[run.panel].full
  BY <1>1, <1>2 DEF Reported, PanelRow
<1>7. \A p \in DOMAIN Reported : Reported[p].recorded => Reported[p].full /\ Reported[p].merged
  BY <1>4, <1>5 DEF Inductive, Checked
<1> QED
  BY <1>1, <1>4, <1>5, <1>6, <1>7 DEF Grown, Inductive, Rows

LEMMA SeatsFailStep ==
  ASSUME Inductive, scenario' = scenario, SeatsFail
  PROVE  Inductive' /\ Kept
<1>1. exec # Idle /\ UNCHANGED texts /\ Step("seats")
  BY DEF SeatsFail, Step, Idle
<1>2. PICK qs \in {panel, Reported} :
        /\ Failing /\ run' = [run EXCEPT !.status = "failed"]
        /\ \E failed \in BOOLEAN : chapter' = chapter \/ chapter' = [chapter EXCEPT !.failed = failed]
        /\ \E doomed : panel' = Blocked(Blocked(qs, {run.panel}), {doomed})
  BY DEF SeatsFail, Throw, Failing, Ended
<1>3. PICK ps : ps = Blocked(qs, {run.panel})
  OBVIOUS
<1>4. Grown(panel, qs) /\ Len(qs) = Len(panel)
  BY <1>1, SameTexts, ReportedKept
<1>5. Grown(panel, ps) /\ Len(ps) = Len(panel)
  BY <1>3, <1>4, BlockedKept
<1> QED
  BY <1>1, <1>2, <1>3, <1>5, SameTexts, PlainFailure DEF texts

LEMMA SynthesisFailsStep ==
  ASSUME Inductive, scenario' = scenario, SynthesisFails
  PROVE  Inductive' /\ Kept
<1>1. exec # Idle
  BY DEF SynthesisFails, Step, Idle
<1>2. PICK ps : ps = Blocked(panel, {run.panel})
  OBVIOUS
<1>3. /\ Failing /\ run' = [run EXCEPT !.status = "failed"] /\ UNCHANGED texts
      /\ \E failed \in BOOLEAN : chapter' = chapter \/ chapter' = [chapter EXCEPT !.failed = failed]
      /\ \E doomed : panel' = Blocked(ps, {doomed})
  BY <1>2 DEF SynthesisFails, Throw, Failing, Ended
<1>4. Grown(panel, ps) /\ Len(ps) = Len(panel)
  BY <1>2, SameTexts, BlockedKept
<1> QED
  BY <1>1, <1>3, <1>4, SameTexts, PlainFailure DEF texts

\* What a synthesis makes of the panels.
LEMMA SynthesizedKept ==
  ASSUME Inductive, Step("synthesis"), NEW o \in Outcomes
  PROVE  /\ run.text \in Texts /\ Passed(run.text) /\ run.panel \in DOMAIN panel
         /\ panel[run.panel].text = run.text
         /\ \A ps \in {Synthesized(panel), Merged(o), Recorded(o)} :
              /\ Grown(panel, ps) /\ Len(ps) = Len(panel) /\ DOMAIN ps = DOMAIN panel
              /\ ps[run.panel].full /\ ps[run.panel].merged
              /\ \A p \in DOMAIN panel : ps[p].asked = panel[p].asked
<1> DEFINE Fine(ps) ==
      /\ ps \in [DOMAIN panel -> PanelRow]
      /\ \A p \in DOMAIN panel :
           /\ ps[p].text = panel[p].text /\ ps[p].full = panel[p].full
           /\ ps[p].asked = panel[p].asked
           /\ p # run.panel => ps[p] = panel[p]
      /\ ps[run.panel].merged
<1>1. run.panel \in DOMAIN panel /\ panel[run.panel].full /\ panel[run.panel].text = run.text
  BY Tables DEF Inductive, Executing, Step, References, Rows, RunRow
<1>2. run.text \in Texts /\ Passed(run.text)
  BY Tables DEF Inductive, Executing, Step, References, Rows, RunRow, Texts
<1>3. Fine(Synthesized(panel))
  BY <1>1, Tables DEF Inductive, Synthesized, PanelRow
<1>4. Fine(Merged(o))
  <2>1. CASE Synthesized(panel)[run.panel].status # "working"
    BY <2>1, <1>3 DEF Merged
  <2>2. CASE Synthesized(panel)[run.panel].status = "working"
    <3> DEFINE st == IF o.verdict = "blocked" THEN "blocked" ELSE "complete"
               ps == Synthesized(panel)
    <3>1. Merged(o) = [ps EXCEPT ![run.panel].status = st]
      BY <2>2 DEF Merged
    <3>2. st \in {"blocked", "complete"}
      OBVIOUS
    <3> HIDE DEF st, ps
    <3>3. Fine(ps)
      BY <1>3 DEF ps
    <3> QED
      BY <3>1, <3>2, <3>3, <1>1, Tables DEF PanelRow
  <2> QED
    BY <2>1, <2>2
<1>5. Fine(Recorded(o))
  <2> DEFINE ps == Merged(o)
             qs == [ps EXCEPT ![run.panel].recorded = TRUE]
             row == [ps[run.panel] EXCEPT !.recorded = TRUE]
  <2>1. Fine(ps) /\ Recorded(o) = qs
    BY <1>4 DEF Recorded
  <2> HIDE DEF ps
  <2>2. \A p \in DOMAIN panel : ps[p] \in PanelRow
    BY <2>1
  <2>3. /\ row \in PanelRow /\ row.text = ps[run.panel].text /\ row.full = ps[run.panel].full
        /\ row.merged = ps[run.panel].merged /\ row.asked = ps[run.panel].asked
        /\ qs = [ps EXCEPT ![run.panel] = row]
    BY <2>2, <1>1 DEF PanelRow
  <2> HIDE DEF row, qs
  <2>4. qs \in [DOMAIN panel -> PanelRow]
    BY <2>1, <2>3, <1>1
  <2>5. \A p \in DOMAIN panel : /\ qs[p].text = ps[p].text /\ qs[p].full = ps[p].full
                                /\ qs[p].merged = ps[p].merged /\ qs[p].asked = ps[p].asked
                                /\ p # run.panel => qs[p] = ps[p]
    BY <2>1, <2>3, <1>1
  <2>6. qs[run.panel].merged
    BY <2>1, <2>5, <1>1
  <2>7. Fine(qs)
    BY <2>1, <2>4, <2>5, <2>6
  <2> QED
    BY <2>1, <2>7
<1>6. ASSUME NEW ps, Fine(ps)
      PROVE  /\ Grown(panel, ps) /\ Len(ps) = Len(panel) /\ DOMAIN ps = DOMAIN panel
             /\ ps[run.panel].full /\ ps[run.panel].merged
             /\ \A p \in DOMAIN panel : ps[p].asked = panel[p].asked
  <2>1. ps \in Seq(PanelRow) /\ Len(ps) = Len(panel) /\ DOMAIN ps = DOMAIN panel
    BY <1>6, SameLength DEF Inductive, Rows
  <2>2. \A p \in DOMAIN ps : ps[p].recorded => ps[p].full /\ ps[p].merged
    BY <2>1, <1>6, <1>1 DEF Inductive, Checked
  <2>3. \A p \in DOMAIN panel : panel[p].merged => ps[p].merged
    BY <1>6
  <2>4. /\ \A p \in DOMAIN panel : ps[p].text = panel[p].text /\ (panel[p].full => ps[p].full)
        /\ \A p \in DOMAIN panel : ps[p].asked = panel[p].asked
    BY <1>6
  <2>5. Len(panel) <= Len(ps)
    BY <2>1, Tables DEF Inductive
  <2>6. Grown(panel, ps)
    BY <2>1, <2>2, <2>3, <2>4, <2>5 DEF Grown
  <2>7. ps[run.panel].full /\ ps[run.panel].merged
    BY <1>1, <1>6
  <2> QED
    BY <2>1, <2>4, <2>6, <2>7
<1> HIDE DEF Fine
<1> QED
  BY <1>1, <1>2, <1>3, <1>4, <1>5, <1>6

LEMMA MergeRefusedStep ==
  ASSUME Inductive, scenario' = scenario, MergeRefused
  PROVE  Inductive' /\ Kept
<1>1. exec # Idle /\ Step("synthesis")
  BY DEF MergeRefused, Step, Idle
<1>2. PICK ps : ps = Synthesized(panel)
  OBVIOUS
<1>3. /\ Failing /\ run' = [run EXCEPT !.status = "failed"] /\ UNCHANGED texts
      /\ \E failed \in BOOLEAN : chapter' = chapter \/ chapter' = [chapter EXCEPT !.failed = failed]
      /\ \E doomed : panel' = Blocked(ps, {doomed})
  BY <1>2 DEF MergeRefused, Throw, Failing, Ended
<1>4. Grown(panel, ps) /\ Len(ps) = Len(panel)
  <2>1. [verdict |-> "rewrite", hard |-> FALSE, regressed |-> FALSE] \in Outcomes
    BY DEF Outcomes
  <2> QED
    BY <1>1, <1>2, <2>1, SynthesizedKept
<1> QED
  BY <1>1, <1>3, <1>4, SameTexts, PlainFailure DEF texts

LEMMA MergedOnlyStep ==
  ASSUME Inductive, scenario' = scenario, MergedOnly
  PROVE  Inductive' /\ Kept
<1>1. exec # Idle /\ UNCHANGED <<version, best>> /\ Step("synthesis")
  BY DEF MergedOnly, Step, Idle
<1>2. PICK o \in Outcomes :
        /\ orders' = MergedOrders(o)
        /\ Failing /\ run' = [run EXCEPT !.status = "failed"]
        /\ \E failed \in BOOLEAN : chapter' = chapter \/ chapter' = [chapter EXCEPT !.failed = failed]
        /\ \E doomed : panel' = Blocked(Merged(o), {doomed})
  BY DEF MergedOnly, Throw, Failing, Ended
<1>3. PICK ps : ps = Merged(o)
  OBVIOUS
<1>4. Grown(panel, ps) /\ Len(ps) = Len(panel) /\ run.text \in Texts
  BY <1>1, <1>3, SynthesizedKept
<1>5. ChoicesKept
  BY <1>1, <1>2, <1>4 DEF Inductive, Rows, References, Checked, ChoicesKept, MergedOrders, Texts, Passed
<1> QED
  BY <1>1, <1>2, <1>3, <1>4, <1>5, PlainFailure
-----------------------------------------------------------------------------
(* The phases that end.                                                    *)

\* What an execution is, whatever its phase; in a settled chapter it is a revision,
\* or it writes nothing.
LEMMA ExecutingFacts ==
  ASSUME Inductive, exec # Idle
  PROVE  /\ exec.task \in DOMAIN task /\ run.task = exec.task /\ task[exec.task].status = "working"
         /\ task[exec.task] \in TaskRow /\ Op \in AllOperations /\ Bound \in Nat /\ Bound <= Len(version)
         /\ run \in RunRow /\ chapter \in ChapterRow /\ exec \in ExecRow
         /\ run.text <= Len(version) /\ run.panel <= Len(panel)
         /\ chapter.current <= Len(version) /\ chapter.canon <= Len(version)
         /\ run.text # 0 => run.text \in Texts
         /\ chapter.settle = "settled" /\ Op \notin Explicit =>
              run.text = 0 /\ run.epoch # "held" /\ run.phase \in {"preflight", "rewrite", "completed"}
         /\ exec.step \in {"draft", "rewrite", "candidate", "seats", "synthesis"} => run.epoch = "held"
<1>1. exec.task \in DOMAIN task /\ run.task = exec.task /\ task[exec.task].status = "working"
  BY DEF Inductive, Executing
<1>2. task[exec.task] \in TaskRow /\ Op \in AllOperations /\ Bound \in Nat /\ Bound <= Len(version)
  BY <1>1, Tables DEF Inductive, References, TaskRow, Op, Bound
<1>3. run \in RunRow /\ chapter \in ChapterRow /\ exec \in ExecRow
  BY DEF Inductive, Rows
<1>4. run.text # 0 => run.text \in Texts
  BY <1>3, Tables DEF Inductive, References, RunRow, Texts
<1>5. chapter.settle = "settled" /\ Op \notin Explicit =>
        run.text = 0 /\ run.epoch # "held" /\ run.phase \in {"preflight", "rewrite", "completed"}
  BY <1>1 DEF Inductive, Settled, Op, Over
<1> QED
  BY <1>1, <1>2, <1>3, <1>4, <1>5 DEF Inductive, Executing, References

\* What a phase leaves alone: gates that await the author hold texts that passed.
LEMMA GatesKept ==
  ASSUME Inductive, TextsKept, gate' = gate, chapter'.settle = chapter.settle, scenario' = scenario
  PROVE  /\ gate' \in [1 .. MaxTexts -> GateRow]
         /\ \A v \in 1 .. MaxTexts : gate'[v].status = "awaiting" => v \in Texts' /\ Passed(v)'
         /\ AwaitingHasGate'
<1>1. gate' \in [1 .. MaxTexts -> GateRow]
  BY DEF Inductive, Rows
<1>2. \A v \in 1 .. MaxTexts : gate[v].status = "awaiting" => v \in Texts /\ Passed(v)
  BY DEF Inductive, Rows, Checked, Awaiting
<1>3. \A v \in Texts : Passed(v) => v \in Texts' /\ version'[v].passed
  BY PassedStays DEF Inductive
<1> QED
  BY <1>1, <1>2, <1>3 DEF Inductive, AwaitingHasGate, Awaiting, Passed

LEMMA PreflightStep ==
  ASSUME Inductive, scenario' = scenario, Preflight
  PROVE  Inductive' /\ Kept
<1>1. exec # Idle /\ run.phase = "preflight" /\ UNCHANGED <<texts, panel, gate>>
  BY DEF Preflight, Phase, Step, Idle
<1> USE <1>1, ExecutingFacts
<1>2. TextsKept /\ ChoicesKept /\ PanelsKept
  BY SameTexts DEF PanelsKept, Inductive, References
<1>3. CASE chapter.settle = "settled" /\ Op \notin Explicit
  <2>1. Continued /\ run' = [run EXCEPT !.phase = "completed"] /\ chapter' = chapter
    BY <1>3 DEF Preflight, Continue, Continued
  <2>2. /\ run' \in RunRow /\ run'.task = run.task /\ run'.canon = run.canon /\ run'.phase = "completed"
        /\ run'.text = run.text /\ run'.panel = run.panel /\ run'.epoch = run.epoch
    BY <2>1 DEF RunRow, Phases
  <2> QED
    BY <1>2, <1>3, <2>1, <2>2, GatesKept, PhaseKeeps DEF texts
<1>4. CASE chapter.settle # "settled" \/ Op \in Explicit
  <2>1. PICK phase \in {"hard_check", "context"}, writer \in Writers :
          run' = [run EXCEPT !.text = Bound, !.epoch = "held", !.writer = writer, !.phase = phase]
    <3>1. CASE Op = "review_existing"
      <4>1. NearestByModel(Bound) # 0
        BY <3>1 DEF Preflight
      <4> DEFINE S == {u \in Lineage(Bound) : version[u].author # "owner"}
      <4>2. S \subseteq 1 .. Len(version) /\ Len(version) \in Nat
        BY Tables DEF Inductive, Lineage, Texts
      <4>3. NearestByModel(Bound) \in S
        BY <4>1, <4>2, NearestIsOne DEF NearestByModel
      <4>4. version[NearestByModel(Bound)].author \in Writers
        BY <4>2, <4>3, Tables, TextFacts DEF Inductive, TextFields
      <4>5. run' = [run EXCEPT !.text = Bound, !.epoch = "held",
                      !.writer = version[NearestByModel(Bound)].author, !.phase = "hard_check"]
        BY <1>4, <3>1 DEF Preflight, Continue
      <4> QED
        BY <4>4, <4>5
    <3>2. CASE Op # "review_existing"
      <4>1. run' = [run EXCEPT !.text = Bound, !.epoch = "held", !.writer = run.writer, !.phase = "context"]
        BY <1>4, <3>2 DEF Preflight, Continue
      <4>2. run.writer \in Writers
        BY DEF RunRow
      <4> QED
        BY <4>1, <4>2
    <3> QED
      BY <3>1, <3>2
  <2>2. Continued
    BY <1>4 DEF Preflight, Continue, Continued
  <2>3. chapter' = [chapter EXCEPT !.failed = FALSE]
    BY <1>4 DEF Preflight
  <2>4. /\ run' \in RunRow /\ run'.task = run.task /\ run'.canon = run.canon
        /\ run'.text = Bound /\ run'.panel = run.panel /\ run'.phase \in {"hard_check", "context"}
    BY <2>1 DEF RunRow, Phases
  <2>5. /\ chapter' \in ChapterRow /\ chapter'.canon = chapter.canon /\ chapter'.settle = chapter.settle
        /\ chapter'.current = chapter.current
    BY <2>3 DEF ChapterRow
  <2> QED
    BY <1>2, <1>4, <2>2, <2>4, <2>5, GatesKept, PhaseKeeps DEF texts
<1> QED
  BY <1>3, <1>4

LEMMA StillKept ==
  ASSUME Inductive, UNCHANGED <<texts, panel>>
  PROVE  version' = version /\ TextsKept /\ ChoicesKept /\ PanelsKept
BY SameTexts DEF PanelsKept, Inductive, References, texts

\* A phase that writes no text.
LEMMA MoveKeeps ==
  ASSUME Inductive, scenario' = scenario, exec # Idle, Continued,
         version' = version, ChoicesKept, PanelsKept, UNCHANGED <<gate, chapter>>,
         run' \in RunRow, run'.task = run.task, run'.canon = run.canon,
         run'.text = run.text, run'.panel \in {0, run.panel},
         run'.phase \in {"review", "facts"} /\ run.text # 0 => Passed(run.text),
         chapter.settle = "settled" => Op \in Explicit
  PROVE  Inductive' /\ Kept
<1>1. TextsKept
  BY SameTexts
<1>2. chapter' \in ChapterRow /\ chapter'.current <= Len(version') /\ run'.text <= Len(version')
  BY ExecutingFacts
<1>3. run'.panel <= Len(panel')
  BY ExecutingFacts, Tables DEF PanelsKept, Grown, Inductive, RunRow
<1>4. run'.phase \in {"review", "facts"} /\ run'.text # 0 =>
        version'[run'.text].passed
  BY DEF Passed
<1> QED
  BY <1>1, <1>2, <1>3, <1>4, GatesKept, PhaseKeeps

LEMMA ContextStep ==
  ASSUME Inductive, scenario' = scenario, Context
  PROVE  Inductive' /\ Kept
<1>1. /\ exec # Idle /\ run.phase = "context" /\ UNCHANGED <<texts, panel, gate, chapter>>
      /\ run' = [run EXCEPT !.phase = "draft"] /\ Continued
  <2>1. exec # Idle /\ run.phase = "context"
    BY DEF Context, Phase, Step, Idle
  <2>2. UNCHANGED <<texts, panel, gate, chapter>> /\ run' = [run EXCEPT !.phase = "draft"]
    BY DEF Context, Continue
  <2>3. Continued
    BY DEF Context, Continue, Continued
  <2> QED
    BY <2>1, <2>2, <2>3
<1>2. /\ run' \in RunRow /\ run'.task = run.task /\ run'.canon = run.canon
      /\ run'.text = run.text /\ run'.panel = run.panel /\ run'.phase = "draft"
  BY <1>1, ExecutingFacts DEF RunRow, Phases
<1> QED
  BY <1>1, <1>2, ExecutingFacts, StillKept, MoveKeeps

LEMMA SettleStep ==
  ASSUME Inductive, scenario' = scenario, Settle
  PROVE  Inductive' /\ Kept
<1>1. /\ exec # Idle /\ run.phase = "settlement" /\ UNCHANGED <<texts, panel, gate, chapter>>
      /\ run' = [run EXCEPT !.phase = "completed"] /\ Continued
  <2>1. exec # Idle /\ run.phase = "settlement"
    BY DEF Settle, Phase, Step, Idle
  <2>2. UNCHANGED <<texts, panel, gate, chapter>> /\ run' = [run EXCEPT !.phase = "completed"]
    BY DEF Settle, Continue
  <2>3. Continued
    BY DEF Settle, Continue, Continued
  <2> QED
    BY <2>1, <2>2, <2>3
<1>2. /\ run' \in RunRow /\ run'.task = run.task /\ run'.canon = run.canon
      /\ run'.text = run.text /\ run'.panel = run.panel /\ run'.phase = "completed"
  BY <1>1, ExecutingFacts DEF RunRow, Phases
<1> QED
  BY <1>1, <1>2, ExecutingFacts, StillKept, MoveKeeps

LEMMA WriterTakenOverStep ==
  ASSUME Inductive, scenario' = scenario, WriterTakenOver
  PROVE  Inductive' /\ Kept
<1>1. exec.step \in {"draft", "rewrite"} /\ UNCHANGED <<texts, panel, gate, chapter>>
  BY DEF WriterTakenOver
<1>2. exec # Idle
  BY <1>1 DEF Idle
<1>3. PICK phase \in {"context", "rewrite"} :
        run' = [run EXCEPT !.writer = "backup", !.taken = 1, !.panel = 0, !.phase = phase]
  BY DEF WriterTakenOver, Continue
<1>4. Continued
  BY DEF WriterTakenOver, Continue, Continued
<1>5. /\ run' \in RunRow /\ run'.task = run.task /\ run'.canon = run.canon
      /\ run'.text = run.text /\ run'.panel = 0 /\ run'.phase \in {"context", "rewrite"}
  <2>1. run \in RunRow
    BY <1>2, ExecutingFacts
  <2>2. phase \in Phases /\ "backup" \in Writers
    BY DEF Phases, Writers
  <2> DEFINE one == 1
             none == 0
  <2>3. one \in 0 .. 1 /\ none \in Nat
    OBVIOUS
  <2>4. run' = [run EXCEPT !.writer = "backup", !.taken = one, !.panel = none, !.phase = phase]
    BY <1>3
  <2> HIDE DEF one, none
  <2>5. run' \in RunRow /\ run'.panel = none /\ run'.phase = phase
    BY <2>1, <2>2, <2>3, <2>4 DEF RunRow
  <2> QED
    BY <2>1, <2>4, <2>5 DEF RunRow, none
<1> QED
  BY <1>1, <1>2, <1>4, <1>5, ExecutingFacts, StillKept, MoveKeeps

\* boundedRewriteCountAfterAttempt keeps the count within the schema's bounds.
LEMMA SpentBounded ==
  ASSUME run \in RunRow
  PROVE  Spent \in 0 .. 2
<1>1. run.rewrites \in 0 .. 2
  BY DEF RunRow
<1> QED
  BY <1>1 DEF Spent, Min

\* What an answer of the writer is promoted to.
LEMMA PromotedKept ==
  ASSUME Inductive, exec # Idle, NEW parent \in Nat, NEW promoted \in Promoted(parent)
  PROVE  /\ promoted[1] \in Seq(TextRow) /\ Len(version) <= Len(promoted[1])
         /\ Len(promoted[1]) <= MaxTexts /\ promoted[2] \in 1 .. Len(promoted[1])
         /\ \A v \in Texts : promoted[1][v] = version[v]
<1>1. Len(version) \in Nat /\ DOMAIN version = 1 .. Len(version) /\ version \in Seq(TextRow)
      /\ Len(version) <= MaxTexts /\ MaxTexts \in Nat
  BY Tables DEF Inductive, Rows, References
<1>2. CASE \E v \in Texts : promoted = <<version, v>>
  BY <1>1, <1>2 DEF Texts
<1>3. CASE \E g \in Grades, c \in Clashes :
        Len(version) < MaxTexts /\ promoted = <<Register(parent, run.writer, g, c), Len(version) + 1>>
  <2>1. PICK g \in Grades, c \in Clashes :
          Len(version) < MaxTexts /\ promoted = <<Register(parent, run.writer, g, c), Len(version) + 1>>
    BY <1>3
  <2>2. g \in AllGrades /\ run.writer \in Writers
    BY ScenariosAssumption, ExecutingFacts DEF Grades, Inductive, Rows, RunRow
  <2>3. PICK row \in TextRow : Register(parent, run.writer, g, c) = Append(version, row)
    BY <2>2, TextRegistered
  <2> QED
    BY <1>1, <2>1, <2>3 DEF Texts
<1> QED
  BY <1>2, <1>3 DEF Promoted

LEMMA DraftAnsweredStep ==
  ASSUME Inductive, scenario' = scenario, DraftAnswered
  PROVE  Inductive' /\ Kept
<1>1. exec # Idle /\ exec.step = "draft" /\ UNCHANGED <<panel, orders, best, gate>>
  BY DEF DraftAnswered, Step, Idle
<1>2. PICK promoted \in Promoted(Bound) :
        /\ version' = promoted[1]
        /\ chapter' = [chapter EXCEPT !.current = promoted[2], !.failed = FALSE]
        /\ run' = [run EXCEPT !.text = promoted[2], !.phase = "hard_check"]
        /\ Continued
  BY DEF DraftAnswered, Shown, Continue, Continued
<1>3. /\ promoted[1] \in Seq(TextRow) /\ Len(version) <= Len(promoted[1])
      /\ Len(promoted[1]) <= MaxTexts /\ promoted[2] \in 1 .. Len(promoted[1])
      /\ \A v \in Texts : promoted[1][v] = version[v]
  BY <1>1, <1>2, PromotedKept, ExecutingFacts
<1>4. Len(version) \in Nat /\ DOMAIN version = 1 .. Len(version) /\ Len(version') \in Nat
      /\ promoted[2] \in Nat /\ promoted[2] <= Len(version') /\ DOMAIN version' = 1 .. Len(version')
  BY <1>2, <1>3, Tables DEF Inductive
<1>5. chapter.canon # 0 => chapter.canon \in Texts
  BY <1>1, <1>4, ExecutingFacts DEF ChapterRow, Texts
<1>6. TextsKept
  <2>1. \A v \in Texts : version'[v] = version[v] /\ Keeps(version[v], version[v])
    BY <1>2, <1>3, Tables, TextFacts DEF Inductive, Texts
  <2> QED
    BY <1>2, <1>3, <1>5, <2>1 DEF TextsKept, Inductive, Settled
<1>7. ChoicesKept /\ PanelsKept
  <2>1. best # 0 => best \in Texts
    BY <1>4 DEF Inductive, Rows, References, Texts
  <2> QED
    BY <1>1, <1>2, <1>3, <1>4, <2>1, SameTexts DEF ChoicesKept, PanelsKept, Inductive, Rows, References, Checked,
         Texts, Passed
<1>8. /\ run' \in RunRow /\ run'.task = run.task /\ run'.canon = run.canon
      /\ run'.text = promoted[2] /\ run'.panel = run.panel /\ run'.phase = "hard_check"
  BY <1>1, <1>2, <1>4, ExecutingFacts DEF RunRow, Phases
<1>9. /\ chapter' \in ChapterRow /\ chapter'.canon = chapter.canon /\ chapter'.settle = chapter.settle
      /\ chapter'.current = promoted[2]
  BY <1>1, <1>2, <1>4, ExecutingFacts DEF ChapterRow
<1>10. run'.panel <= Len(panel')
  BY <1>1, <1>8, ExecutingFacts
<1>11. chapter.settle = "settled" => Op \in Explicit
  BY <1>1, ExecutingFacts
<1> QED
  BY <1>1, <1>2, <1>4, <1>6, <1>7, <1>8, <1>9, <1>10, <1>11, GatesKept, PhaseKeeps

LEMMA FactsStep ==
  ASSUME Inductive, scenario' = scenario, Facts
  PROVE  Inductive' /\ Kept
<1> DEFINE v == run.text
           row == [status |-> "awaiting", panel |-> run.panel, task |-> exec.task,
                   canon |-> run.canon, open |-> TRUE]
<1>1. /\ exec # Idle /\ run.phase = "facts" /\ UNCHANGED <<texts, panel>> /\ v # 0
      /\ run' = [run EXCEPT !.gated = TRUE, !.phase = "settlement"] /\ Continued
  <2>1. exec # Idle /\ run.phase = "facts" /\ v # 0
    BY DEF Facts, Reviewed, Phase, Step, Idle
  <2>2. UNCHANGED <<texts, panel>> /\ run' = [run EXCEPT !.gated = TRUE, !.phase = "settlement"]
    BY DEF Facts, Continue
  <2>3. Continued
    BY DEF Facts, Continue, Continued
  <2> QED
    BY <2>1, <2>2, <2>3
<1>2. gate' = [gate EXCEPT ![v] = row]
  BY DEF Facts
<1>3. v \in Texts /\ Passed(v) /\ (chapter.settle = "settled" => Op \in Explicit)
  BY <1>1, ExecutingFacts DEF Inductive, Checked
<1>4. v \in 1 .. MaxTexts /\ gate \in [1 .. MaxTexts -> GateRow]
  BY <1>3, Tables DEF Inductive, Rows, References, Texts
<1>5. PICK settle \in {"unsettled", "awaiting", "settled"} :
        /\ chapter' = [chapter EXCEPT !.settle = settle]
        /\ settle # chapter.settle => chapter.settle # "settled" /\ settle = "awaiting"
  BY <1>1, <1>3, ExecutingFacts DEF Facts, Revising, ChapterRow
<1>6. TextsKept /\ ChoicesKept /\ PanelsKept
  BY <1>1, SameTexts DEF PanelsKept, Inductive, References
<1>7. row \in GateRow /\ row.status = "awaiting"
  BY <1>1, ExecutingFacts DEF GateRow, RunRow, ExecRow
<1> HIDE DEF row
<1>8. gate' \in [1 .. MaxTexts -> GateRow] /\ gate'[v].status = "awaiting"
      /\ \A u \in 1 .. MaxTexts : u # v => gate'[u] = gate[u]
  BY <1>2, <1>4, <1>7
<1>9. \A u \in 1 .. MaxTexts : gate'[u].status = "awaiting" => u \in Texts' /\ Passed(u)'
  <2> SUFFICES ASSUME NEW u \in 1 .. MaxTexts, gate'[u].status = "awaiting"
               PROVE  u \in Texts /\ Passed(u)
    BY <1>1 DEF texts, Texts, Passed
  <2>1. CASE u = v
    BY <2>1, <1>3
  <2>2. CASE u # v
    BY <2>2, <1>4, <1>8 DEF Inductive, Checked, Awaiting
  <2> QED
    BY <2>1, <2>2
<1>10. AwaitingHasGate'
  BY <1>4, <1>8 DEF AwaitingHasGate, Awaiting
<1>11. /\ run' \in RunRow /\ run'.task = run.task /\ run'.canon = run.canon
       /\ run'.text = v /\ run'.panel = run.panel /\ run'.phase = "settlement"
  BY <1>1, ExecutingFacts DEF RunRow, Phases
<1>12. /\ chapter' \in ChapterRow /\ chapter'.canon = chapter.canon /\ chapter'.settle = settle
       /\ chapter'.current = chapter.current
  BY <1>1, <1>5, ExecutingFacts DEF ChapterRow
<1>13. run'.text <= Len(version') /\ run'.panel <= Len(panel') /\ chapter'.current <= Len(version')
  BY <1>1, <1>11, <1>12, ExecutingFacts DEF texts
<1> QED
  BY <1>1, <1>3, <1>5, <1>6, <1>8, <1>9, <1>10, <1>11, <1>12, <1>13, PhaseKeeps

\* A text that is written: its row, of the same grade, with no check lost.
LEMMA TextWritten ==
  ASSUME Inductive, NEW v \in Texts, NEW row \in TextRow, version' = [version EXCEPT ![v] = row],
         Keeps(version[v], row), v = chapter.canon => Stands(row)
  PROVE  /\ TextsKept /\ Len(version') = Len(version) /\ DOMAIN version' = DOMAIN version
         /\ version'[v] = row /\ \A u \in Texts : u # v => version'[u] = version[u]
<1>1. Len(version) \in Nat /\ DOMAIN version = 1 .. Len(version)
  BY Tables DEF Inductive
<1>2. version' \in [DOMAIN version -> TextRow]
  BY Tables DEF Inductive
<1>3. version' \in Seq(TextRow) /\ Len(version') = Len(version) /\ DOMAIN version' = DOMAIN version
  BY <1>2, SameLength DEF Inductive, Rows
<1>4. version'[v] = row /\ \A u \in Texts : u # v => version'[u] = version[u]
  BY <1>1 DEF Texts
<1>5. chapter.canon # 0 => chapter.canon \in Texts
  BY <1>1 DEF Inductive, Rows, References, ChapterRow, Texts
<1>6. \A u \in Texts : Keeps(version[u], version'[u])
  BY <1>4, TextFacts, Tables DEF Inductive, Texts
<1> QED
  BY <1>1, <1>3, <1>4, <1>5, <1>6 DEF TextsKept, Inductive, References, Settled

\* The best text and the orders when texts were only written to.
LEMMA ChoicesStay ==
  ASSUME Inductive, TextsKept, best' = best, orders' \subseteq orders
  PROVE  ChoicesKept
<1>1. best # 0 => best \in Texts
  BY Tables DEF Inductive, Rows, References, Texts
<1>2. best # 0 => version'[best].passed
  BY <1>1, PassedStays DEF Inductive, Checked
<1> QED
  BY <1>2, Tables DEF ChoicesKept, Inductive, Rows, References, TextsKept, Texts, Passed

\* An ancestor that is restored is another text, and passed.
LEMMA AncestorPassed ==
  ASSUME Inductive, NEW v \in Texts, NearestPassed(v) # 0
  PROVE  /\ NearestPassed(v) \in Texts \ {v} /\ Passed(NearestPassed(v))
         /\ NearestPassed(v) \in Nat /\ NearestPassed(v) <= Len(version)
<1> DEFINE S == {u \in Lineage(v) \ {v} : Passed(u)}
<1>1. S \subseteq 1 .. Len(version) /\ Len(version) \in Nat
  BY Tables DEF Inductive, Lineage, Texts
<1>2. NearestPassed(v) \in S
  BY <1>1, NearestIsOne DEF NearestPassed
<1> QED
  BY <1>1, <1>2 DEF Lineage

\* The run goes on with another text of the chapter, which passed, and the chapter
\* shows it; a text that was written to makes place.
LEMMA RestoreKeeps ==
  ASSUME Inductive, scenario' = scenario, exec # Idle, Continued,
         NEW a \in Texts, version'[a].passed,
         TextsKept, ChoicesKept, PanelsKept, gate' = gate,
         chapter' = [chapter EXCEPT !.current = a, !.failed = FALSE],
         run' \in RunRow, run'.task = run.task, run'.canon = run.canon,
         run'.text = a, run'.panel <= Len(panel'),
         chapter.settle = "settled" => Op \in Explicit
  PROVE  Inductive' /\ Kept
<1>1. a \in Nat /\ a <= Len(version) /\ Len(version) <= Len(version') /\ Len(version') \in Nat
  BY Tables DEF TextsKept, Inductive, Texts
<1>2. /\ chapter' \in ChapterRow /\ chapter'.canon = chapter.canon /\ chapter'.settle = chapter.settle
      /\ chapter'.current = a
  BY <1>1, ExecutingFacts DEF ChapterRow
<1>3. chapter'.current <= Len(version') /\ run'.text <= Len(version')
  BY <1>1, <1>2, Tables DEF Inductive
<1> QED
  BY <1>2, <1>3, GatesKept, PhaseKeeps

\* A text that failed a check, its row written, gives way to an ancestor that passed;
\* without one the run is blocked.
LEMMA RestoreAncestorStep ==
  ASSUME Inductive, scenario' = scenario, exec # Idle, best' = best, run.text # 0,
         NEW row \in TextRow, Keeps(version[run.text], row),
         row.status = version[run.text].status, row.failed \/ ~row.passed,
         RestoreAncestor([version EXCEPT ![run.text] = row]),
         chapter.settle = "settled" => Op \in Explicit
  PROVE  Inductive' /\ Kept
<1> DEFINE v == run.text
           a == NearestPassed(v)
           vs == [version EXCEPT ![v] = row]
<1>1. v \in Texts /\ (v = chapter.canon => row.failed) /\ version[v] \in TextRow
  BY ExecutingFacts, Tables DEF Inductive, Settled, Texts, Passed, Keeps
<1>2. CASE a = 0
  <2>1. /\ Failing /\ run' = [run EXCEPT !.status = "failed"] /\ version' = vs /\ orders' = orders
        /\ \E failed \in BOOLEAN : chapter' = chapter \/ chapter' = [chapter EXCEPT !.failed = failed]
        /\ \E doomed : panel' = Blocked(panel, {doomed})
    BY <1>2 DEF RestoreAncestor, Throw, Failing, Ended
  <2> HIDE DEF v
  <2>4. TextsKept /\ DOMAIN version' = DOMAIN version
    BY <2>1, <1>1, TextWritten DEF Stands, Inductive, Settled, v
  <2>5. ChoicesKept
    BY <2>1, <2>4, ChoicesStay
  <2>6. PanelsKept
    <3>1. Grown(panel, panel) /\ Len(panel) <= MaxPanels
      BY SameTexts DEF Inductive, References
    <3>2. \A S : Grown(panel, Blocked(panel, S)) /\ Len(Blocked(panel, S)) = Len(panel)
      BY <3>1, BlockedKept
    <3> QED
      BY <2>1, <3>1, <3>2 DEF PanelsKept
  <2>7. /\ run' \in RunRow /\ run'.task = run.task /\ run'.phase = run.phase /\ run'.epoch = run.epoch
        /\ run'.panel = run.panel /\ run'.canon = run.canon /\ run'.text = run.text
    BY <2>1, ExecutingFacts DEF RunRow
  <2>8. /\ chapter' \in ChapterRow /\ chapter'.canon = chapter.canon
        /\ chapter'.settle = chapter.settle /\ chapter'.current = chapter.current
    BY <2>1, ExecutingFacts DEF ChapterRow
  <2>9. chapter'.current <= Len(version')
    <3>1. chapter.current \in Nat /\ chapter.current <= Len(version)
      BY ExecutingFacts DEF ChapterRow
    <3>2. Len(version) <= Len(version') /\ Len(version) \in Nat /\ Len(version') \in Nat
      BY <2>4, Tables DEF TextsKept, Inductive
    <3> QED
      BY <2>8, <3>1, <3>2
  <2> QED
    BY <2>1, <2>4, <2>5, <2>6, <2>7, <2>8, <2>9, FailureKeeps
<1>3. CASE a # 0
  <2>1. /\ version' = [vs EXCEPT ![v].status = "rejected"] /\ orders' = orders \ {v}
        /\ chapter' = [chapter EXCEPT !.current = a, !.failed = FALSE]
        /\ run' = [run EXCEPT !.text = a, !.panel = 0, !.phase = "review"]
        /\ panel' = panel /\ gate' = gate
    BY <1>3 DEF RestoreAncestor, Shown, Continue
  <2>2. Continued
    BY <1>3 DEF RestoreAncestor, Continue, Continued
  <2>3. a \in Texts \ {v} /\ Passed(a) /\ a \in Nat /\ a <= Len(version)
    BY <1>1, <1>3, AncestorPassed
  <2> DEFINE rejected == [row EXCEPT !.status = "rejected"]
  <2>4. /\ rejected \in TextRow /\ Keeps(version[v], rejected)
        /\ v = chapter.canon => Stands(rejected)
    BY <1>1, TextPlaced DEF Keeps, Stands
  <2>10. version' = [version EXCEPT ![v] = rejected]
    BY <2>1, <1>1, Tables DEF Inductive, Texts
  <2> HIDE DEF rejected
  <2> HIDE DEF v, a
  <2>5. TextsKept /\ DOMAIN version' = DOMAIN version
    BY <1>1, <2>4, <2>10, TextWritten
  <2>6. version'[a].passed
    BY <2>3, <2>5, PassedStays DEF Inductive
  <2>7. ChoicesKept /\ PanelsKept
    BY <2>1, <2>5, ChoicesStay, SameTexts DEF PanelsKept, Inductive, References
  <2>8. /\ run' \in RunRow /\ run'.task = run.task /\ run'.canon = run.canon
        /\ run'.text = a /\ run'.panel = 0
    BY <2>1, <2>3, ExecutingFacts DEF RunRow, Phases
  <2>9. run'.panel <= Len(panel')
    BY <2>1, <2>8, Tables DEF Inductive
  <2> QED
    BY <2>1, <2>2, <2>3, <2>5, <2>6, <2>7, <2>8, <2>9, RestoreKeeps
<1> QED
  BY <1>2, <1>3

LEMMA HardCheckStep ==
  ASSUME Inductive, scenario' = scenario, HardCheck
  PROVE  Inductive' /\ Kept
<1> DEFINE v == run.text
           row == WithCheck(version[v])
           checked == [version EXCEPT ![v] = WithCheck(@)]
<1>1. exec # Idle /\ run.phase = "hard_check" /\ v # 0 /\ best' = best
  BY DEF HardCheck, Phase, Step, Idle
<1>2. v \in Texts /\ (chapter.settle = "settled" => Op \in Explicit) /\ version[v] \in TextRow
  BY <1>1, ExecutingFacts, Tables DEF Inductive, Texts
<1>5. /\ row \in TextRow /\ Keeps(version[v], row) /\ row.status = version[v].status
      /\ Sound(v) => row.passed
      /\ ~Sound(v) => row.failed
  BY <1>2, TextChecked DEF Sound
<1>6. checked = [version EXCEPT ![v] = row]
  OBVIOUS
<1> HIDE DEF row
<1>3. CASE ~Sound(v) /\ RepairIsOver
  <2>1. RestoreAncestor(checked)
    BY <1>3, Zenon DEF HardCheck
  <2> QED
    BY <1>1, <1>2, <1>3, <1>5, <1>6, <2>1, RestoreAncestorStep
<1>4. CASE ~(~Sound(v) /\ RepairIsOver)
  <2>1. PICK phase \in {"rewrite", "completed", "review"} :
          run' = [run EXCEPT !.phase = phase] /\ (phase = "review" => Sound(v))
    BY <1>4 DEF HardCheck, Continue
  <2>2. Continued
    BY <1>4 DEF HardCheck, Continue, Continued
  <2>3. UNCHANGED <<orders, panel, gate, chapter>> /\ version' = checked
    BY <1>4 DEF HardCheck
  <2>6. v = chapter.canon => Stands(row)
    BY <1>1, <1>5 DEF Inductive, Settled, Stands, Keeps
  <2>7. TextsKept /\ DOMAIN version' = DOMAIN version /\ version'[v] = row /\ Len(version') = Len(version)
    BY <1>2, <1>5, <1>6, <2>3, <2>6, TextWritten
  <2>8. ChoicesKept /\ PanelsKept
    BY <1>1, <2>3, <2>7, ChoicesStay, SameTexts DEF PanelsKept, Inductive, References
  <2>9. /\ run' \in RunRow /\ run'.task = run.task /\ run'.canon = run.canon
        /\ run'.text = v /\ run'.panel = run.panel /\ run'.phase = phase
    BY <1>1, <2>1, ExecutingFacts DEF RunRow, Phases
  <2>10. /\ chapter' \in ChapterRow /\ chapter'.current <= Len(version') /\ run'.text <= Len(version')
         /\ run'.panel <= Len(panel')
    BY <1>1, <2>3, <2>7, <2>9, ExecutingFacts
  <2>11. run'.phase \in {"review", "facts"} /\ run'.text # 0 =>
           version'[run'.text].passed
    BY <1>5, <2>1, <2>7, <2>9
  <2> QED
    BY <1>1, <1>2, <2>2, <2>3, <2>7, <2>8, <2>9, <2>10, <2>11, GatesKept, PhaseKeeps
<1> QED
  BY <1>3, <1>4

\* The check is on record when the phase fails after it.
LEMMA CopyrightBlockedStep ==
  ASSUME Inductive, scenario' = scenario, CopyrightBlocked
  PROVE  Inductive' /\ Kept
<1> DEFINE v == run.text
           row == WithCheck(version[v])
<1>1. /\ exec # Idle /\ v # 0 /\ best' = best /\ orders' = orders
      /\ version' = [version EXCEPT ![v] = row]
  BY DEF CopyrightBlocked, Phase, Step, Idle
<1>2. v \in Texts /\ version[v] \in TextRow
  BY <1>1, ExecutingFacts, Tables DEF Inductive, Texts
<1>3. row \in TextRow /\ Keeps(version[v], row) /\ row.status = version[v].status
  BY <1>2, TextChecked
<1> HIDE DEF row
<1>4. v = chapter.canon => Stands(row)
  BY <1>1, <1>3 DEF Inductive, Settled, Stands, Keeps
<1>5. TextsKept /\ DOMAIN version' = DOMAIN version /\ Len(version') = Len(version)
  BY <1>1, <1>2, <1>3, <1>4, TextWritten
<1>6. ChoicesKept
  BY <1>1, <1>5, ChoicesStay
<1>7. /\ Failing /\ run' = [run EXCEPT !.status = "failed"]
      /\ \E failed \in BOOLEAN : chapter' = chapter \/ chapter' = [chapter EXCEPT !.failed = failed]
      /\ \E doomed : panel' = Blocked(panel, {doomed})
  BY DEF CopyrightBlocked, Throw, Failing, Ended
<1>8. PanelsKept
  <2>1. Grown(panel, panel) /\ Len(panel) <= MaxPanels
    BY SameTexts DEF Inductive, References
  <2>2. \A S : Grown(panel, Blocked(panel, S)) /\ Len(Blocked(panel, S)) = Len(panel)
    BY <2>1, BlockedKept
  <2> QED
    BY <1>7, <2>1, <2>2 DEF PanelsKept
<1>9. /\ run' \in RunRow /\ run'.task = run.task /\ run'.phase = run.phase /\ run'.epoch = run.epoch
      /\ run'.panel = run.panel /\ run'.canon = run.canon /\ run'.text = run.text
  BY <1>1, <1>7, ExecutingFacts DEF RunRow
<1>10. /\ chapter' \in ChapterRow /\ chapter'.canon = chapter.canon
       /\ chapter'.settle = chapter.settle /\ chapter'.current <= Len(version')
  BY <1>1, <1>5, <1>7, ExecutingFacts DEF ChapterRow
<1> QED
  BY <1>1, <1>5, <1>6, <1>7, <1>8, <1>9, <1>10, FailureKeeps

\* The answer to a rewrite is the text itself.
LEMMA UnchangedStep ==
  ASSUME Inductive, scenario' = scenario, exec # Idle, best' = best, run.text # 0, Unchanged,
         chapter.settle = "settled" => Op \in Explicit
  PROVE  Inductive' /\ Kept
<1>1. /\ run.text \in Texts /\ version[run.text] \in TextRow
      /\ version = [version EXCEPT ![run.text] = version[run.text]]
  BY ExecutingFacts, Tables DEF Inductive, Rows, Texts
<1>2. CASE ~LatestPassed(run.text)
  <2>1. RestoreAncestor(version)
    BY <1>2, Zenon DEF Unchanged
  <2>2. PICK row \in TextRow : row = version[run.text]
    BY <1>1
  <2>3. RestoreAncestor([version EXCEPT ![run.text] = row])
    BY <1>1, <2>1, <2>2
  <2>4. /\ Keeps(version[run.text], row) /\ (row.failed \/ ~row.passed)
        /\ row.status = version[run.text].status
    BY <1>2, <2>2, TextFacts DEF LatestPassed
  <2> QED
    BY <2>3, <2>4, RestoreAncestorStep
<1>3. CASE LatestPassed(run.text)
  <2>1. /\ orders' \subseteq orders /\ UNCHANGED <<version, panel, gate, chapter>>
        /\ \E phase \in {"rewrite", "facts"} : run' = [run EXCEPT !.rewrites = Spent, !.phase = phase]
    BY <1>3 DEF Unchanged, Continue
  <2>2. Continued
    BY <1>3 DEF Unchanged, Continue, Continued
  <2>3. Spent \in 0 .. 2
    BY SpentBounded, ExecutingFacts
  <2>4. /\ run' \in RunRow /\ run'.task = run.task /\ run'.canon = run.canon
        /\ run'.text = run.text /\ run'.panel = run.panel
    BY <2>1, <2>3, ExecutingFacts DEF RunRow, Phases
  <2>5. ChoicesKept /\ PanelsKept
    BY <2>1, SameTexts, ChoicesStay DEF PanelsKept, Inductive, References
  <2>6. Passed(run.text)
    BY <1>1, <1>3, TextFacts DEF LatestPassed, Passed
  <2> QED
    BY <2>1, <2>2, <2>4, <2>5, <2>6, MoveKeeps
<1> QED
  BY <1>2, <1>3

\* The answer is another text, over the texts vs.
LEMMA CandidateStep ==
  ASSUME Inductive, scenario' = scenario, exec # Idle, best' = best, run.text # 0,
         NEW vs \in Seq(TextRow), Len(version) <= Len(vs), Len(vs) <= MaxTexts,
         NEW c \in 1 .. Len(vs), \A u \in Texts : vs[u] = version[u],
         Candidate(vs, c), chapter.settle = "settled" => Op \in Explicit
  PROVE  Inductive' /\ Kept
<1> DEFINE v == run.text
           accept == ~LatestPassed(v) \/ Verdict(vs[c]) = "sound"
<1>1. v \in Texts /\ Len(version) \in Nat /\ DOMAIN version = 1 .. Len(version)
      /\ Len(vs) \in Nat /\ DOMAIN vs = 1 .. Len(vs) /\ vs[c] \in TextRow
  BY ExecutingFacts, Tables DEF Inductive
<1>2. PICK row \in TextRow :
        /\ version' = [vs EXCEPT ![c] = row] /\ Keeps(vs[c], row)
        /\ accept => row = vs[c]
        /\ ~accept => row.failed /\ row.status \in {vs[c].status, "rejected"}
  <2>1. CASE accept
    <3>1. version' = vs
      BY <2>1 DEF Candidate
    <3>2. vs = [vs EXCEPT ![c] = vs[c]]
      BY <1>1
    <3> QED
      BY <1>1, <2>1, <3>1, <3>2, TextFacts
  <2>2. CASE ~accept
    <3> DEFINE checked == WithCheck(vs[c])
               refused == WithCheck([vs[c] EXCEPT !.status = "rejected"])
    <3>1. version' = [vs EXCEPT ![c] = checked] \/ version' = [vs EXCEPT ![c] = refused]
      <4>1. \/ version' = [vs EXCEPT ![c] = WithCheck(@)]
            \/ version' = [vs EXCEPT ![c] = WithCheck([@ EXCEPT !.status = "rejected"])]
        BY <2>2 DEF Candidate
      <4> QED
        BY <4>1
    <3>2. /\ checked \in TextRow /\ Keeps(vs[c], checked) /\ checked.failed
          /\ checked.status = vs[c].status
      BY <1>1, <2>2, TextChecked
    <3>3. refused \in TextRow /\ Keeps(vs[c], refused) /\ refused.failed /\ refused.status = "rejected"
      <4> DEFINE rejected == [vs[c] EXCEPT !.status = "rejected"]
      <4>1. /\ rejected \in TextRow /\ Keeps(vs[c], rejected) /\ Verdict(rejected) = Verdict(vs[c])
            /\ rejected.status = "rejected"
        BY <1>1, TextPlaced
      <4> HIDE DEF rejected
      <4>2. /\ WithCheck(rejected) \in TextRow /\ Keeps(rejected, WithCheck(rejected))
            /\ WithCheck(rejected).failed /\ WithCheck(rejected).status = "rejected"
        BY <2>2, <4>1, TextChecked
      <4>3. Keeps(vs[c], WithCheck(rejected))
        BY <4>1, <4>2 DEF Keeps
      <4> QED
        BY <4>2, <4>3 DEF rejected
    <3> HIDE DEF checked, refused
    <3> QED
      BY <2>2, <3>1, <3>2, <3>3
  <2> QED
    BY <2>1, <2>2
<1>3. PICK t \in {v, c}, phase \in {"hard_check", "rewrite", "facts"} :
        /\ run' = [run EXCEPT !.text = t, !.rewrites = Spent, !.phase = phase]
        /\ chapter' = [chapter EXCEPT !.current = t, !.failed = FALSE]
        /\ phase = "facts" => t = v /\ LatestPassed(v)
  BY DEF Candidate, Shown, Continue
<1>4. /\ Continued /\ UNCHANGED <<panel, gate>> /\ orders' \subseteq orders
  BY DEF Candidate, Continue, Continued
<1>5. /\ version' \in [DOMAIN vs -> TextRow] /\ version'[c] = row
      /\ \A u \in DOMAIN vs : u # c => version'[u] = vs[u]
  BY <1>1, <1>2
<1>6. version' \in Seq(TextRow) /\ Len(version') = Len(vs) /\ DOMAIN version' = DOMAIN vs
  BY <1>5, SameLength
<1>7. chapter.canon # 0 => chapter.canon \in Texts
  BY <1>1, ExecutingFacts DEF ChapterRow, Texts
<1>8. chapter.canon # 0 => Stands(version'[chapter.canon])
  <2> SUFFICES ASSUME chapter.canon # 0 PROVE Stands(version'[chapter.canon])
    OBVIOUS
  <2>1. chapter.canon \in DOMAIN vs /\ Stands(vs[chapter.canon])
    BY <1>1, <1>7 DEF Inductive, Settled, Texts
  <2>2. CASE c = chapter.canon
    BY <2>1, <2>2, <1>2, <1>5 DEF Stands
  <2>3. CASE c # chapter.canon
    BY <2>1, <2>3, <1>5
  <2> QED
    BY <2>2, <2>3
<1>9. \A u \in Texts : Keeps(version[u], version'[u])
  <2> SUFFICES ASSUME NEW u \in Texts PROVE Keeps(version[u], version'[u])
    OBVIOUS
  <2>1. u \in DOMAIN vs /\ vs[u] = version[u] /\ version[u] \in TextRow
    BY <1>1, Tables DEF Texts, Inductive
  <2> QED
    BY <2>1, <1>2, <1>5, TextFacts
<1>10. TextsKept
  BY <1>6, <1>8, <1>9 DEF TextsKept
<1>11. ChoicesKept /\ PanelsKept
  BY <1>4, <1>10, ChoicesStay, SameTexts DEF PanelsKept, Inductive, References
<1>12. t \in Nat /\ t <= Len(version') /\ (t # 0 => t \in 1 .. Len(version'))
  BY <1>1, <1>6 DEF Texts
<1>13. Spent \in 0 .. 2
  BY SpentBounded, ExecutingFacts
<1>14. /\ run' \in RunRow /\ run'.task = run.task /\ run'.canon = run.canon
       /\ run'.text = t /\ run'.panel = run.panel /\ run'.phase = phase
  BY <1>3, <1>12, <1>13, ExecutingFacts DEF RunRow, Phases
<1>15. /\ chapter' \in ChapterRow /\ chapter'.canon = chapter.canon /\ chapter'.settle = chapter.settle
       /\ chapter'.current = t
  BY <1>3, <1>12, ExecutingFacts DEF ChapterRow
<1>16. run'.phase \in {"review", "facts"} /\ run'.text # 0 =>
         version'[run'.text].passed
  <2>0. version[v] \in TextRow
    BY <1>1, Tables DEF Inductive, Texts
  <2>1. LatestPassed(v) => Passed(v)
    BY <2>0, TextFacts DEF LatestPassed, Passed
  <2> QED
    BY <1>1, <1>3, <1>10, <1>14, <2>1, PassedStays DEF Inductive
<1>17. run'.panel <= Len(panel')
  BY <1>4, <1>14, ExecutingFacts
<1> QED
  BY <1>4, <1>10, <1>11, <1>12, <1>14, <1>15, <1>16, <1>17, GatesKept, PhaseKeeps

LEMMA RewritePromotedStep ==
  ASSUME Inductive, scenario' = scenario, RewritePromoted
  PROVE  Inductive' /\ Kept
<1>1. exec.step = "candidate" /\ best' = best
  BY DEF RewritePromoted, Step
<1>2. exec # Idle
  BY <1>1 DEF Idle
<1>3. run.text # 0 /\ run.text \in Nat /\ (chapter.settle = "settled" => Op \in Explicit)
  BY <1>1, <1>2, ExecutingFacts DEF Inductive, Executing, RunRow
<1>4. Unchanged \/ \E promoted \in Promoted(run.text) : Candidate(promoted[1], promoted[2])
  BY Zenon DEF RewritePromoted
<1>5. ASSUME NEW promoted \in Promoted(run.text), Candidate(promoted[1], promoted[2])
      PROVE  Inductive' /\ Kept
  <2>1. PICK vs, c : vs = promoted[1] /\ c = promoted[2]
    OBVIOUS
  <2>2. Candidate(vs, c)
    BY <1>5, <2>1
  <2>3. /\ vs \in Seq(TextRow) /\ Len(version) <= Len(vs) /\ Len(vs) <= MaxTexts
        /\ c \in 1 .. Len(vs) /\ \A u \in Texts : vs[u] = version[u]
    BY <1>2, <1>3, <2>1, PromotedKept
  <2> QED
    BY <1>1, <1>2, <1>3, <2>2, <2>3, CandidateStep
<1> QED
  BY <1>1, <1>2, <1>3, <1>4, <1>5, UnchangedStep

\* The texts after the review of a text that passed: it is rejected for the best one,
\* unless it is canon.
LEMMA RestoreBestStep ==
  ASSUME Inductive, scenario' = scenario, exec # Idle, Step("synthesis"), best' = best,
         NEW o \in Outcomes, RetainsBest(o), RestoreBest(o),
         chapter.settle = "settled" => Op \in Explicit
  PROVE  Inductive' /\ Kept
<1> DEFINE v == run.text
<1>1. /\ v \in Texts /\ best # 0 /\ best # v /\ best \in Texts /\ Passed(best)
      /\ best \in Nat /\ best <= Len(version) /\ version[v] \in TextRow
      /\ Len(version) \in Nat
  BY SynthesizedKept, Tables DEF RetainsBest, Inductive, Rows, References, Checked, Texts
<1>2. PICK ps : ps = Recorded(o)
  OBVIOUS
<1>3. Grown(panel, ps) /\ Len(ps) = Len(panel)
  BY <1>2, SynthesizedKept
<1>4. \/ version' = version
      \/ version[v].status # "canon" /\ version' = [version EXCEPT ![v].status = "rejected"]
  BY DEF RestoreBest
<1>5. TextsKept
  <2>1. CASE version' = version
    BY <2>1, SameTexts
  <2>2. CASE version[v].status # "canon" /\ version' = [version EXCEPT ![v].status = "rejected"]
    <3> DEFINE row == [version[v] EXCEPT !.status = "rejected"]
    <3>1. row \in TextRow /\ Keeps(version[v], row)
      BY <1>1, TextPlaced
    <3>2. version' = [version EXCEPT ![v] = row]
      BY <2>2
    <3>3. v = chapter.canon => Stands(row)
      BY <1>1, <2>2, <3>1, Tables DEF Inductive, Settled, Texts, Stands, Keeps
    <3> HIDE DEF row, v
    <3> QED
      BY <1>1, <3>1, <3>2, <3>3, TextWritten
  <2> QED
    BY <1>4, <2>1, <2>2
<1>6. version'[best].passed /\ Len(version) <= Len(version') /\ Len(version') \in Nat
  BY <1>1, <1>5, PassedStays DEF Inductive, TextsKept
<1>7. ChoicesKept
  <2>1. orders' \subseteq Texts
    BY <1>1 DEF RestoreBest, MergedOrders, Inductive, Rows
  <2> QED
    BY <1>1, <1>5, <1>6, <2>1, Tables DEF ChoicesKept, TextsKept, Texts, Passed, Inductive
<1>8. CASE o.hard
  <2>1. /\ Failing /\ run' = [run EXCEPT !.text = best, !.status = "failed"]
        /\ \E doomed : panel' = Blocked(ps, {doomed})
    BY <1>2, <1>8 DEF RestoreBest, Throw, Failing, Ended
  <2>2. \E failed \in BOOLEAN : chapter' = [chapter EXCEPT !.current = best, !.failed = failed]
    <3>1. chapter' = Shown(best) \/ \E failed \in BOOLEAN : chapter' = [Shown(best) EXCEPT !.failed = failed]
      BY <1>8 DEF RestoreBest, Throw
    <3>2. Shown(best) = [chapter EXCEPT !.current = best, !.failed = FALSE]
      BY DEF Shown
    <3>3. \A failed : [Shown(best) EXCEPT !.failed = failed] = [chapter EXCEPT !.current = best, !.failed = failed]
      BY <3>2, ExecutingFacts DEF ChapterRow
    <3> QED
      BY <3>1, <3>2, <3>3
  <2>3. PanelsKept
    BY <1>3, <2>1, BlockedKept DEF PanelsKept, Inductive, References
  <2>4. /\ run' \in RunRow /\ run'.task = run.task /\ run'.phase = run.phase /\ run'.epoch = run.epoch
        /\ run'.panel = run.panel /\ run'.canon = run.canon /\ run'.text = best
    BY <1>1, <2>1, ExecutingFacts DEF RunRow
  <2>5. /\ chapter' \in ChapterRow /\ chapter'.canon = chapter.canon
        /\ chapter'.settle = chapter.settle /\ chapter'.current = best
    BY <1>1, <2>2, ExecutingFacts DEF ChapterRow
  <2>6. chapter'.current <= Len(version')
    BY <1>1, <1>6, <2>5
  <2> QED
    BY <1>1, <1>5, <1>7, <2>1, <2>3, <2>4, <2>5, <2>6, FailureKeeps
<1>9. CASE ~o.hard
  <2>1. /\ Continued /\ panel' = ps /\ gate' = gate
        /\ chapter' = [chapter EXCEPT !.current = best, !.failed = FALSE]
    BY <1>2, <1>9 DEF RestoreBest, Continue, Continued, Shown
  <2>2. run' = [run EXCEPT !.text = best, !.panel = SnapshotOf(best), !.phase = "facts"]
    BY <1>9 DEF RestoreBest, Continue
  <2>3. SnapshotOf(best) \in Nat /\ SnapshotOf(best) <= Len(panel)
    <3> DEFINE S == {p \in PanelsOf(best) : panel[p].recorded}
    <3>1. S \subseteq 1 .. Len(panel) /\ Len(panel) \in Nat
      BY Tables DEF Inductive, PanelsOf
    <3>2. Nearest(S) \in S \/ Nearest(S) = 0
      BY <3>1, NearestIsOne
    <3> QED
      BY <3>1, <3>2 DEF SnapshotOf
  <2>4. PanelsKept
    BY <1>3, <2>1 DEF PanelsKept, Inductive, References
  <2>5. /\ run' \in RunRow /\ run'.task = run.task /\ run'.canon = run.canon
        /\ run'.text = best /\ run'.panel = SnapshotOf(best)
    BY <1>1, <2>2, <2>3, ExecutingFacts DEF RunRow, Phases
  <2>6. run'.panel <= Len(panel')
    BY <1>3, <2>1, <2>3, <2>5
  <2> QED
    BY <1>1, <1>5, <1>6, <1>7, <2>1, <2>4, <2>5, <2>6, RestoreKeeps
<1> QED
  BY <1>8, <1>9

\* The texts stay and the verdict is followed.
LEMMA FollowVerdictStep ==
  ASSUME Inductive, scenario' = scenario, exec # Idle, Step("synthesis"), best' \in {best, run.text},
         NEW o \in Outcomes, FollowVerdict(o),
         chapter.settle = "settled" => Op \in Explicit
  PROVE  Inductive' /\ Kept
<1>1. PICK ps : ps = Recorded(o)
  OBVIOUS
<1>2. Grown(panel, ps) /\ Len(ps) = Len(panel) /\ run.text \in Texts /\ Passed(run.text)
  BY <1>1, SynthesizedKept
<1>3. version' = version /\ orders' = MergedOrders(o)
  BY DEF FollowVerdict
<1>4. ChoicesKept
  <2>1. run.text \in Nat /\ run.text <= Len(version)
    BY <1>2, Tables DEF Inductive, Texts
  <2> QED
    BY <1>2, <1>3, <2>1 DEF ChoicesKept, MergedOrders, Inductive, Rows, References, Checked, Texts, Passed
<1>5. CASE o.verdict = "blocked" /\ o.hard
  <2>1. /\ Failing /\ run' = [run EXCEPT !.status = "failed"]
        /\ \E failed \in BOOLEAN : chapter' = chapter \/ chapter' = [chapter EXCEPT !.failed = failed]
        /\ \E doomed : panel' = Blocked(ps, {doomed})
    BY <1>1, <1>5 DEF FollowVerdict, Throw, Failing, Ended
  <2> QED
    BY <1>2, <1>3, <1>4, <2>1, PlainFailure
<1>6. CASE ~(o.verdict = "blocked" /\ o.hard)
  <2>1. PICK phase \in {"rewrite", "facts"} : run' = [run EXCEPT !.phase = phase]
    BY <1>6 DEF FollowVerdict, Continue
  <2>2. Continued
    BY <1>6 DEF FollowVerdict, Continue, Continued
  <2>3. panel' = ps /\ UNCHANGED <<gate, chapter>>
    BY <1>1, <1>6 DEF FollowVerdict
  <2>4. PanelsKept
    BY <1>2, <2>3 DEF PanelsKept, Inductive, References
  <2>5. /\ run' \in RunRow /\ run'.task = run.task /\ run'.canon = run.canon
        /\ run'.text = run.text /\ run'.panel = run.panel
    BY <2>1, ExecutingFacts DEF RunRow, Phases
  <2> QED
    BY <1>2, <1>3, <1>4, <2>2, <2>3, <2>4, <2>5, MoveKeeps
<1> QED
  BY <1>5, <1>6

LEMMA MergeStep ==
  ASSUME Inductive, scenario' = scenario, Merge
  PROVE  Inductive' /\ Kept
<1>1. Step("synthesis") /\ exec.step = "synthesis"
  BY DEF Merge, Step
<1>2. exec # Idle
  BY <1>1 DEF Idle
<1>3. chapter.settle = "settled" => Op \in Explicit
  BY <1>1, <1>2, ExecutingFacts
<1>4. PICK o \in Outcomes :
        /\ best' = IF o.hard \/ RetainsBest(o) THEN best ELSE run.text
        /\ IF RetainsBest(o) /\ Op # "review_existing" THEN RestoreBest(o) ELSE FollowVerdict(o)
  BY DEF Merge
<1>5. CASE RetainsBest(o) /\ Op # "review_existing"
  BY <1>1, <1>2, <1>3, <1>4, <1>5, RestoreBestStep
<1>6. CASE ~(RetainsBest(o) /\ Op # "review_existing")
  BY <1>1, <1>2, <1>3, <1>4, <1>6, FollowVerdictStep
<1> QED
  BY <1>5, <1>6
-----------------------------------------------------------------------------
(* Steps that write no text and no gate.                                   *)

\* The row of a task is written.
LEMMA TaskWritten ==
  ASSUME Inductive, NEW t \in DOMAIN task, NEW row \in TaskRow, row.bound <= Len(version),
         task' = [task EXCEPT ![t] = row]
  PROVE  /\ task' \in Seq(TaskRow) /\ Len(task') = Len(task) /\ DOMAIN task' = DOMAIN task
         /\ task'[t] = row /\ \A u \in DOMAIN task : u # t => task'[u] = task[u]
         /\ \A u \in DOMAIN task' : task'[u].bound <= Len(version)
<1>1. task' \in [DOMAIN task -> TaskRow]
  BY Tables DEF Inductive
<1>2. task' \in Seq(TaskRow) /\ Len(task') = Len(task) /\ DOMAIN task' = DOMAIN task
  BY <1>1, SameLength DEF Inductive, Rows
<1>3. task'[t] = row /\ \A u \in DOMAIN task : u # t => task'[u] = task[u]
  OBVIOUS
<1> QED
  BY <1>2, <1>3 DEF Inductive, References

Waits(row) == row.status = "waiting_confirmation"

\* The tasks after a step: none is lost, none over is taken up again, none is another.
TasksKept ==
  /\ task' \in Seq(TaskRow) /\ Len(task) <= Len(task') /\ Len(task') <= MaxTasks
  /\ \A t \in DOMAIN task' : task'[t].bound <= Len(version)
  /\ \A t \in DOMAIN task : /\ task[t].op = task'[t].op /\ task[t].bound = task'[t].bound
                            /\ task[t].status \in Over => task'[t].status \in Over
                            /\ t = exec.task \/ (Waits(task'[t]) => Waits(task[t]))

LEMMA TasksWritten ==
  ASSUME Inductive, NEW t \in DOMAIN task, NEW row \in TaskRow, row.bound = task[t].bound,
         row.op = task[t].op, task[t].status \in Over => row.status \in Over,
         t = exec.task \/ (Waits(row) => Waits(task[t])),
         task' = [task EXCEPT ![t] = row]
  PROVE  TasksKept /\ task'[t] = row /\ \A u \in DOMAIN task : u # t => task'[u] = task[u]
<1>1. row.bound <= Len(version)
  BY DEF Inductive, References
<1>2. /\ task' \in Seq(TaskRow) /\ Len(task') = Len(task) /\ DOMAIN task' = DOMAIN task
      /\ task'[t] = row /\ \A u \in DOMAIN task : u # t => task'[u] = task[u]
      /\ \A u \in DOMAIN task' : task'[u].bound <= Len(version)
  BY <1>1, TaskWritten
<1>3. Len(task) \in Nat /\ Len(task) <= MaxTasks
  BY Tables DEF Inductive, References
<1>4. \A u \in DOMAIN task : /\ task[u].op = task'[u].op /\ task[u].bound = task'[u].bound
                             /\ task[u].status \in Over => task'[u].status \in Over
                             /\ u = exec.task \/ (Waits(task'[u]) => Waits(task[u]))
  BY <1>2
<1> QED
  BY <1>2, <1>3, <1>4 DEF TasksKept

\* Neither a text nor a gate is written, and the run is about a text it may be about.
LEMMA RuntimeKeeps ==
  ASSUME Inductive, scenario' = scenario, version' = version, ChoicesKept, PanelsKept,
         gate' = gate, chapter' \in ChapterRow, chapter'.canon = chapter.canon,
         chapter'.settle = chapter.settle, chapter'.current = chapter.current,
         revision' \in Nat, revision <= revision', revision' <= MaxRevision,
         TasksKept, exec' \in ExecRow,
         run' \in RunRow, run'.task <= Len(task'), run'.text <= Len(version),
         run'.panel <= Len(panel'), run'.canon <= revision',
         run'.phase \in {"review", "facts"} /\ run'.text # 0 => Passed(run'.text),
         /\ \/ run'.task # run.task \/ run'.text # run.text \/ run'.phase # run.phase
            \/ run'.epoch # run.epoch /\ run'.epoch = "held"
         /\ chapter.settle = "settled" /\ run'.task \in DOMAIN task'
         =>
             \/ task'[run'.task].status \in Over \/ task'[run'.task].op \in Explicit
             \/ /\ run'.text = 0 /\ run'.epoch # "held"
                /\ run'.phase \in {"preflight", "rewrite", "completed"},
         run'.task = run.task \/ (exec = Idle /\ exec' # Idle /\ run'.task = exec'.task),
         Executing', RequestsAreServed'
  PROVE  Inductive' /\ Kept
<1> USE DEF Inductive
<1>1. TextsKept
  BY SameTexts
<1>2. Rows'
  BY DEF Rows, TasksKept, ChoicesKept, PanelsKept, Grown, MaxTexts
<1>3. References'
  BY Tables DEF References, TasksKept, ChoicesKept, PanelsKept, Grown, MaxTexts, MaxTasks, MaxPanels, MaxRevision
<1>4. Checked'
  <2>1. run'.phase \in {"review", "facts"} /\ run'.text # 0 => Passed(run.text)'
    BY DEF Passed
  <2>2. \A v \in Awaiting' : v \in Texts' /\ Passed(v)'
    BY DEF Checked, Awaiting, Passed, Texts
  <2>3. \A p \in DOMAIN panel' : panel'[p].recorded => panel'[p].full /\ panel'[p].merged
    BY DEF PanelsKept, Grown
  <2> QED
    BY <2>1, <2>2, <2>3 DEF Checked, ChoicesKept
<1>5. Settled'
  <2>1. ASSUME NEW t \in DOMAIN task', chapter.settle = "settled", run'.task = t,
               task'[t].status \notin Over, task'[t].op \notin Explicit
        PROVE  run'.text = 0 /\ run'.epoch # "held" /\ run'.phase \in {"preflight", "rewrite", "completed"}
    <3>1. CASE run'.task # run.task \/ run'.text # run.text \/ run'.phase # run.phase
                 \/ (run'.epoch # run.epoch /\ run'.epoch = "held")
      BY <2>1, <3>1
    <3>2. CASE run'.task = run.task /\ run'.text = run.text /\ run'.phase = run.phase
                 /\ (run'.epoch = run.epoch \/ run'.epoch # "held")
      <4>1. t \in DOMAIN task
        BY <2>1, <3>2, Tables DEF References, TasksKept
      <4>2. task[t].op \notin Explicit /\ task[t].status \notin Over
        BY <4>1, <2>1 DEF TasksKept
      <4>3. run.text = 0 /\ run.epoch # "held" /\ run.phase \in {"preflight", "rewrite", "completed"}
        BY <4>1, <4>2, <2>1, <3>2 DEF Settled
      <4> QED
        BY <4>3, <3>2
    <3> QED
      BY <3>1, <3>2
  <2>2. chapter'.canon # 0 => Passed(chapter.canon)' /\ Stands(version'[chapter'.canon])
    BY DEF Settled, Passed
  <2> QED
    BY <2>1, <2>2 DEF Settled
<1>6. AwaitingHasGate'
  BY DEF AwaitingHasGate, Awaiting
<1>7. TasksStand
  <2>1. \A t \in DOMAIN task : t \in DOMAIN task'
    BY Tables DEF TasksKept
  <2> QED
    BY <2>1 DEF TasksStand, TasksKept, Waits
<1> QED
  BY <1>1, <1>2, <1>3, <1>4, <1>5, <1>6, <1>7 DEF Kept, RunStands

\* The tasks are not touched.
LEMMA SameTasks ==
  ASSUME Inductive, scenario' = scenario, task' = task
  PROVE  TasksKept
BY Tables DEF Inductive, Rows, References, TasksKept

LEMMA SendStep ==
  ASSUME Inductive, scenario' = scenario, SendDraft \/ SendRewrite
  PROVE  Inductive' /\ Kept
<1>1. /\ exec.step = "loop" /\ run.epoch = "held" /\ UNCHANGED <<run, texts, panel, gate, chapter, task, revision>>
      /\ \/ exec' = [exec EXCEPT !.step = "draft", !.panel = 0]
         \/ exec' = [exec EXCEPT !.step = "rewrite", !.panel = 0] /\ run.text # 0
  <2>1. CASE SendDraft
    BY <2>1 DEF SendDraft, Phase, Step, Wait
  <2>2. CASE SendRewrite
    BY <2>2 DEF SendRewrite, Phase, Step, Wait
  <2> QED
    BY <2>1, <2>2
<1>2. exec # Idle
  BY <1>1 DEF Idle
<1>3. exec' \in ExecRow /\ exec'.task = exec.task /\ exec'.step \in {"draft", "rewrite"} /\ exec' # Idle
      /\ (exec'.step = "rewrite" => run.text # 0)
  <2>1. exec \in ExecRow
    BY <1>2, ExecutingFacts
  <2>2. CASE exec' = [exec EXCEPT !.step = "draft", !.panel = 0]
    BY <2>1, <2>2 DEF ExecRow, Idle
  <2>3. CASE exec' = [exec EXCEPT !.step = "rewrite", !.panel = 0] /\ run.text # 0
    BY <2>1, <2>3 DEF ExecRow, Idle
  <2> QED
    BY <1>1, <2>2, <2>3
<1>4. Executing'
  BY <1>1, <1>2, <1>3 DEF Executing, Inductive
<1>5. RequestsAreServed'
  BY <1>1 DEF RequestsAreServed, Inductive
<1>6. version' = version /\ ChoicesKept /\ PanelsKept
  BY <1>1, StillKept
<1> QED
  BY <1>1, <1>2, <1>3, <1>4, <1>5, <1>6, SameTasks, RuntimeKeeps, Tables DEF Inductive, Rows, References, Checked

LEMMA RewriteReceivedStep ==
  ASSUME Inductive, scenario' = scenario, RewriteReceived
  PROVE  Inductive' /\ Kept
<1>1. exec.step = "rewrite" /\ UNCHANGED <<run, texts, panel, gate, chapter, revision>>
      /\ exec' = [exec EXCEPT !.step = "candidate"]
  BY DEF RewriteReceived, Step
<1>2. exec # Idle
  BY <1>1 DEF Idle
<1>3. PICK third \in BOOLEAN : task' = [task EXCEPT ![exec.task].third = third]
  <2>1. (task[exec.task].third \/ run.rewrites >= 2) \in BOOLEAN
    OBVIOUS
  <2>2. task' = [task EXCEPT ![exec.task].third = (task[exec.task].third \/ run.rewrites >= 2)]
    BY Zenon DEF RewriteReceived
  <2> QED
    BY <2>1, <2>2
<1>4. PICK row \in TaskRow : /\ task' = [task EXCEPT ![exec.task] = row] /\ row.bound = task[exec.task].bound
                             /\ row.op = task[exec.task].op /\ row.status = task[exec.task].status
  <2> DEFINE row == [task[exec.task] EXCEPT !.third = third]
  <2>1. row \in TaskRow /\ row.bound = task[exec.task].bound
        /\ row.op = task[exec.task].op /\ row.status = task[exec.task].status
    BY <1>2, ExecutingFacts DEF TaskRow
  <2> QED
    BY <1>3, <2>1
<1>5. TasksKept /\ task'[exec.task] = row /\ \A u \in DOMAIN task : u # exec.task => task'[u] = task[u]
  BY <1>2, <1>4, ExecutingFacts, TasksWritten
<1>6. exec' \in ExecRow /\ exec'.task = exec.task /\ exec'.step = "candidate" /\ exec' # Idle
  BY <1>1, <1>2, ExecutingFacts DEF ExecRow, Idle
<1>7. DOMAIN task' = DOMAIN task
  BY <1>4
<1>8. Executing'
  BY <1>1, <1>2, <1>4, <1>5, <1>6, <1>7 DEF Executing, Inductive
<1>9. RequestsAreServed'
  BY <1>1, <1>2, <1>4, <1>5, <1>7, ExecutingFacts DEF RequestsAreServed, Inductive
<1>10. version' = version /\ ChoicesKept /\ PanelsKept
  BY <1>1, StillKept
<1> QED
  BY <1>1, <1>5, <1>6, <1>7, <1>8, <1>9, <1>10, RuntimeKeeps, Tables DEF Inductive, Rows, References, Checked, TasksKept

LEMMA OpenPanelStep ==
  ASSUME Inductive, scenario' = scenario, OpenPanel
  PROVE  Inductive' /\ Kept
<1> DEFINE ps == Blocked(panel, {run.panel})
           p == Nearest(Resumable(ps))
<1>1. /\ exec.step = "loop" /\ run.phase = "review" /\ run.text # 0 /\ run.epoch = "held"
      /\ UNCHANGED <<texts, gate, chapter, task, revision>>
      /\ exec' = [exec EXCEPT !.step = "seats", !.panel = run.panel]
  BY DEF OpenPanel, Phase, Step, Wait
<1>2. exec # Idle
  BY <1>1 DEF Idle
<1>3. Grown(panel, ps) /\ ps \in [DOMAIN panel -> PanelRow] /\ Len(ps) = Len(panel) /\ ps \in Seq(PanelRow)
  BY SameTexts, BlockedKept DEF Grown
<1>4. run.text \in Texts /\ Passed(run.text)
  BY <1>1, <1>2, ExecutingFacts DEF Inductive, Checked
<1>5. PICK q : /\ q \in DOMAIN panel' /\ q # 0 /\ panel'[q].text = run.text
               /\ run' = [run EXCEPT !.panel = q] /\ PanelsKept /\ q \in Nat /\ q <= Len(panel')
  <2>1. CASE p # 0
    <3>1. Resumable(ps) \subseteq 1 .. Len(panel) /\ Len(panel) \in Nat /\ DOMAIN panel = 1 .. Len(panel)
      BY <1>3, Tables DEF Inductive, Resumable
    <3>2. p \in Resumable(ps)
      BY <2>1, <3>1, NearestIsOne DEF Nearest
    <3>3. panel' = [ps EXCEPT ![p].status = "working"] /\ run' = [run EXCEPT !.panel = p]
      BY <2>1 DEF OpenPanel
    <3>4. p \in 1 .. Len(panel) /\ ps[p].text = run.text /\ DOMAIN ps = 1 .. Len(panel)
      BY <1>3, <3>1, <3>2 DEF Resumable
    <3> HIDE DEF p, ps
    <3>5. panel' \in [DOMAIN ps -> PanelRow]
      BY <1>3, <3>1, <3>3, <3>4 DEF PanelRow
    <3>6. panel' \in Seq(PanelRow) /\ Len(panel') = Len(panel) /\ DOMAIN panel' = 1 .. Len(panel)
      BY <1>3, <3>4, <3>5, SameLength
    <3>7. \A s \in DOMAIN ps : /\ panel'[s].text = ps[s].text /\ panel'[s].full = ps[s].full
                               /\ panel'[s].merged = ps[s].merged /\ panel'[s].recorded = ps[s].recorded
      BY <1>3, <3>1, <3>3, <3>4 DEF PanelRow
    <3>8. PanelsKept
      BY <1>3, <3>1, <3>4, <3>6, <3>7 DEF PanelsKept, Grown, Inductive, References
    <3>9. p \in DOMAIN panel' /\ p # 0 /\ panel'[p].text = run.text /\ p \in Nat /\ p <= Len(panel')
      BY <3>1, <3>4, <3>6, <3>7
    <3> QED
      BY <3>3, <3>8, <3>9
  <2>2. CASE p = 0
    <3>1. Len(panel) < MaxPanels /\ panel' = Append(ps, NewPanel) /\ run' = [run EXCEPT !.panel = Len(panel) + 1]
      BY <2>2 DEF OpenPanel
    <3>2. NewPanel \in PanelRow /\ NewPanel.text = run.text /\ ~NewPanel.recorded
      BY <1>2, ExecutingFacts DEF NewPanel, PanelRow, RunRow
    <3>3. Len(panel) \in Nat /\ MaxPanels \in Nat
      BY Tables DEF Inductive
    <3> HIDE DEF ps
    <3>4. /\ panel' \in Seq(PanelRow) /\ Len(panel') = Len(panel) + 1
          /\ panel'[Len(panel) + 1] = NewPanel /\ \A s \in 1 .. Len(panel) : panel'[s] = ps[s]
      BY <1>3, <3>1, <3>2, <3>3
    <3>5. DOMAIN panel' = 1 .. (Len(panel) + 1) /\ DOMAIN panel = 1 .. Len(panel) /\ DOMAIN ps = 1 .. Len(panel)
      BY <1>3, <3>3, <3>4, Tables DEF Inductive
    <3>6. \A s \in DOMAIN panel' : panel'[s].recorded => panel'[s].full /\ panel'[s].merged
      BY <1>3, <3>2, <3>3, <3>4, <3>5 DEF Grown
    <3>7. \A s \in DOMAIN panel : /\ panel'[s].text = panel[s].text /\ (panel[s].full => panel'[s].full)
                                  /\ panel[s].merged => panel'[s].merged
      BY <1>3, <3>4, <3>5 DEF Grown
    <3>8. PanelsKept
      BY <3>1, <3>3, <3>4, <3>6, <3>7 DEF PanelsKept, Grown
    <3> DEFINE n == Len(panel) + 1
    <3>9. n \in DOMAIN panel' /\ n # 0 /\ panel'[n].text = run.text /\ n \in Nat /\ n <= Len(panel')
      BY <3>2, <3>3, <3>4, <3>5
    <3> QED
      BY <3>1, <3>8, <3>9
  <2> QED
    BY <2>1, <2>2
<1>6. exec' \in ExecRow /\ exec'.task = exec.task /\ exec'.step = "seats" /\ exec' # Idle
  BY <1>1, <1>2, ExecutingFacts DEF ExecRow, RunRow, Idle
<1>7. /\ run' \in RunRow /\ run'.task = run.task /\ run'.text = run.text /\ run'.phase = run.phase
      /\ run'.epoch = run.epoch /\ run'.panel = q /\ run'.canon = run.canon
  BY <1>2, <1>5, ExecutingFacts DEF RunRow
<1>8. Executing'
  BY <1>1, <1>2, <1>4, <1>5, <1>6, <1>7, ExecutingFacts DEF Executing, Passed, texts
<1>9. RequestsAreServed'
  BY <1>1, <1>2, <1>7, ExecutingFacts DEF RequestsAreServed
<1>10. version' = version /\ ChoicesKept
  BY <1>1, SameTexts DEF texts
<1>11. /\ run'.task <= Len(task') /\ run'.text <= Len(version) /\ run'.canon <= revision'
       /\ chapter' = chapter /\ chapter' \in ChapterRow /\ revision' = revision /\ revision' \in Nat
       /\ revision <= revision' /\ revision' <= MaxRevision /\ gate' = gate /\ TasksKept
  BY <1>1, <1>7, SameTasks DEF Inductive, Rows, References
<1> QED
  BY <1>1, <1>4, <1>5, <1>6, <1>7, <1>8, <1>9, <1>10, <1>11, RuntimeKeeps

\* The reports are in: the synthesis begins, or the task waits for the author's request.
LEMMA SeatsReportStep ==
  ASSUME Inductive, scenario' = scenario, SeatsReport
  PROVE  Inductive' /\ Kept
<1>1. exec.step = "seats" /\ Step("seats") /\ panel' = Reported /\ UNCHANGED <<texts, gate, chapter>>
  BY DEF SeatsReport, Step
<1>2. exec # Idle /\ run.text # 0 /\ run.panel # 0 /\ Passed(run.text)
  BY <1>1 DEF Idle, Inductive, Executing
<1>3. /\ Grown(panel, panel') /\ Len(panel') = Len(panel) /\ DOMAIN panel' = DOMAIN panel
      /\ \A p \in DOMAIN panel : panel'[p].asked = panel[p].asked
      /\ run.panel \in DOMAIN panel /\ panel'[run.panel].full /\ panel'[run.panel].text = run.text
  BY <1>1, ReportedKept
<1>4. PanelsKept /\ version' = version /\ ChoicesKept
  BY <1>1, <1>3, SameTexts DEF PanelsKept, Inductive, References, texts
<1>5. /\ run.task <= Len(task) /\ run.text <= Len(version) /\ run.panel <= Len(panel) /\ run.canon <= revision
      /\ chapter \in ChapterRow /\ revision \in Nat /\ revision <= MaxRevision /\ run \in RunRow
  BY DEF Inductive, Rows, References
<1>6. CASE panel[run.panel].asked
  <2>1. exec' = [exec EXCEPT !.step = "synthesis", !.panel = exec.panel] /\ UNCHANGED <<task, revision, run>>
    BY <1>6 DEF SeatsReport, Wait
  <2>2. exec' \in ExecRow /\ exec'.task = exec.task /\ exec'.step = "synthesis" /\ exec' # Idle
    BY <2>1, <1>2, ExecutingFacts DEF ExecRow, Idle
  <2>3. Executing'
    BY <1>1, <1>2, <1>3, <2>1, <2>2, ExecutingFacts DEF Executing, Passed, texts
  <2>4. RequestsAreServed'
    BY <1>2, <2>1, ExecutingFacts DEF RequestsAreServed
  <2> QED
    BY <1>1, <1>2, <1>3, <1>4, <1>5, <2>1, <2>2, <2>3, <2>4, SameTasks, RuntimeKeeps
<1>7. CASE ~panel[run.panel].asked
  <2>1. /\ exec' = Idle /\ revision' = revision /\ run' = [run EXCEPT !.status = "paused"]
        /\ task' = [task EXCEPT ![exec.task].status = "paused", ![exec.task].reviewing = TRUE]
    BY <1>7 DEF SeatsReport
  <2>2. PICK row \in TaskRow : /\ task' = [task EXCEPT ![exec.task] = row] /\ row.bound = task[exec.task].bound
                               /\ row.op = task[exec.task].op
    <3> DEFINE row == [task[exec.task] EXCEPT !.status = "paused", !.reviewing = TRUE]
    <3>1. row \in TaskRow /\ row.bound = task[exec.task].bound /\ row.op = task[exec.task].op
      BY <1>2, ExecutingFacts DEF TaskRow, TaskStatuses, InProgress
    <3>2. task' = [task EXCEPT ![exec.task] = row]
      BY <2>1, <1>2, ExecutingFacts
    <3> QED
      BY <3>1, <3>2
  <2>3. TasksKept /\ \A u \in DOMAIN task : u # exec.task => task'[u] = task[u]
    BY <1>2, <2>2, ExecutingFacts, TasksWritten DEF Over
  <2>4. exec' \in ExecRow /\ Executing' /\ DOMAIN task' = DOMAIN task /\ Len(task) <= Len(task')
        /\ Len(task) \in Nat /\ Len(task') \in Nat
    BY <2>1, <2>2, <2>3, Tables DEF ExecRow, Executing, Idle, TasksKept, Inductive
  <2>5. /\ run' \in RunRow /\ run'.task = run.task /\ run'.text = run.text /\ run'.phase = run.phase
        /\ run'.epoch = run.epoch /\ run'.panel = run.panel /\ run'.canon = run.canon
    BY <1>5, <2>1 DEF RunRow
  <2>6. RequestsAreServed'
    BY <1>2, <1>3, <1>7, <2>3, <2>4, <2>5, ExecutingFacts DEF RequestsAreServed, Inductive
  <2>7. run'.task <= Len(task') /\ run'.panel <= Len(panel')
    BY <1>3, <1>5, <2>4, <2>5 DEF RunRow
  <2> QED
    BY <1>1, <1>2, <1>4, <1>5, <2>1, <2>3, <2>4, <2>5, <2>6, <2>7, RuntimeKeeps
<1> QED
  BY <1>6, <1>7

\* A step that writes one task, its run and whose task it is, and nothing of the texts:
\* the row of the task, with its status, and the run it leaves.
LEMMA TaskStepKeeps ==
  ASSUME Inductive, scenario' = scenario, UNCHANGED <<texts, panel, gate, chapter, revision>>,
         NEW t \in DOMAIN task, NEW row \in TaskRow, row.bound = task[t].bound, row.op = task[t].op,
         task[t].status \in Over => row.status \in Over,
         t = exec.task \/ (Waits(row) => Waits(task[t])),
         task' = [task EXCEPT ![t] = row],
         exec' = Idle \/ (exec' = [Idle EXCEPT !.task = t, !.step = "loop"] /\ row.status = "working"),
         run' \in RunRow,
         \/ /\ run'.task = run.task /\ run'.text = run.text /\ run'.panel = run.panel
            /\ run'.epoch = run.epoch /\ run'.canon = run.canon
            /\ \/ run'.phase = run.phase
               \/ run.task = t /\ run.phase = "facts" /\ run'.phase = "review"
         \/ /\ run'.task = t /\ run'.text = 0 /\ run'.panel = 0 /\ run'.epoch = "none"
            /\ run'.phase = "preflight" /\ run'.canon = revision /\ exec = Idle /\ exec' # Idle,
         run'.task = t => row.status # "paused",
         exec' # Idle => run'.task = t
  PROVE  Inductive' /\ Kept
<1>1. /\ TasksKept /\ task'[t] = row /\ DOMAIN task' = DOMAIN task
      /\ \A u \in DOMAIN task : u # t => task'[u] = task[u]
  BY TasksWritten
<1>2. /\ Len(task) <= Len(task') /\ Len(task) \in Nat /\ Len(task') \in Nat /\ DOMAIN task = 1 .. Len(task)
  BY <1>1, Tables DEF TasksKept, Inductive
<1>3. /\ run.task <= Len(task) /\ run.text <= Len(version) /\ run.panel <= Len(panel) /\ run.canon <= revision
      /\ chapter \in ChapterRow /\ revision \in Nat /\ revision <= MaxRevision /\ run \in RunRow
      /\ Len(version) \in Nat /\ Len(panel) \in Nat
  BY Tables DEF Inductive, Rows, References
<1>4. version' = version /\ ChoicesKept /\ PanelsKept
  BY StillKept
<1>5. exec' \in ExecRow /\ (exec' = Idle \/ (exec'.task = t /\ exec'.step = "loop" /\ row.status = "working"))
  <2>1. CASE exec' = Idle
    BY <2>1 DEF Idle, ExecRow
  <2>2. CASE exec' = [Idle EXCEPT !.task = t, !.step = "loop"] /\ row.status = "working"
    <3>1. t \in Nat
      BY <1>2
    <3>2. exec' = [task |-> t, step |-> "loop", panel |-> 0]
      BY <2>2 DEF Idle
    <3> QED
      BY <2>2, <3>1, <3>2 DEF ExecRow
  <2> QED
    BY <2>1, <2>2
<1>50. Executing'
  <2>1. CASE exec' = Idle
    BY <2>1 DEF Executing, Idle
  <2>2. CASE exec' # Idle
    BY <1>1, <1>5, <2>2 DEF Executing
  <2> QED
    BY <2>1, <2>2
<1>6. RequestsAreServed'
  <2> SUFFICES ASSUME NEW u \in DOMAIN task', run'.task = u, task'[u].status = "paused",
                      run'.phase = "review", run'.panel # 0
               PROVE  ~panel'[run'.panel].asked
    BY DEF RequestsAreServed
  <2>1. u # t /\ task[u].status = "paused" /\ u \in DOMAIN task
    BY <1>1
  <2>2. run'.task = run.task /\ run'.panel = run.panel /\ run'.phase = run.phase
    BY <2>1
  <2> QED
    BY <2>1, <2>2 DEF RequestsAreServed, Inductive
<1>7. /\ run'.task <= Len(task') /\ run'.text <= Len(version) /\ run'.panel <= Len(panel') /\ run'.canon <= revision'
  BY <1>2, <1>3 DEF RunRow
<1>8. run'.phase \in {"review", "facts"} /\ run'.text # 0 => Passed(run'.text)
  BY DEF Inductive, Checked
<1>9. ASSUME run'.task # run.task \/ run'.text # run.text \/ run'.phase # run.phase
               \/ (run'.epoch # run.epoch /\ run'.epoch = "held"),
             chapter.settle = "settled", run'.task \in DOMAIN task'
      PROVE  \/ task'[run'.task].status \in Over \/ task'[run'.task].op \in Explicit
             \/ /\ run'.text = 0 /\ run'.epoch # "held"
                /\ run'.phase \in {"preflight", "rewrite", "completed"}
  <2>1. CASE run.task = t /\ run'.task = t /\ run.phase = "facts"
    BY <1>1, <2>1, <1>9 DEF Inductive, Settled
  <2>2. CASE run'.text = 0 /\ run'.epoch = "none" /\ run'.phase = "preflight"
    BY <2>2
  <2> QED
    BY <2>1, <2>2, <1>9
<1> QED
  BY <1>1, <1>2, <1>3, <1>4, <1>5, <1>50, <1>6, <1>7, <1>8, <1>9, RuntimeKeeps

\* The row of a task that gets the status st.
LEMMA StatusRow ==
  ASSUME Inductive, NEW t \in DOMAIN task, NEW st \in TaskStatuses, NEW row,
         row = [task[t] EXCEPT !.status = st]
  PROVE  /\ row \in TaskRow /\ row.bound = task[t].bound /\ row.op = task[t].op /\ row.status = st
BY Tables DEF Inductive, TaskRow

LEMMA CloseStep ==
  ASSUME Inductive, scenario' = scenario, Close
  PROVE  Inductive' /\ Kept
<1>1. exec # Idle /\ run.phase = "completed"
  BY DEF Close, Phase, Step, Idle
<1>2. UNCHANGED <<texts, panel, gate, chapter, revision>> /\ run' = [run EXCEPT !.status = "completed"]
      /\ exec' = Idle
  BY DEF Close
<1>3. PICK st \in {"waiting_confirmation", "cancelled", "succeeded"} :
        task' = [task EXCEPT ![exec.task].reviewing = FALSE, ![exec.task].status = st]
  BY DEF Close
<1>4. PICK row \in TaskRow : /\ task' = [task EXCEPT ![exec.task] = row] /\ row.bound = task[exec.task].bound
                             /\ row.op = task[exec.task].op /\ row.status = st
  <2> DEFINE row == [task[exec.task] EXCEPT !.reviewing = FALSE, !.status = st]
  <2>1. row \in TaskRow /\ row.bound = task[exec.task].bound /\ row.op = task[exec.task].op /\ row.status = st
    BY <1>1, ExecutingFacts DEF TaskRow, TaskStatuses
  <2>2. task' = [task EXCEPT ![exec.task] = row]
    BY <1>3, <1>1, ExecutingFacts
  <2> QED
    BY <2>1, <2>2
<1>5. /\ run' \in RunRow /\ run'.task = run.task /\ run'.text = run.text /\ run'.panel = run.panel
      /\ run'.epoch = run.epoch /\ run'.canon = run.canon /\ run'.phase = run.phase
  BY <1>1, <1>2, ExecutingFacts DEF RunRow
<1>6. task[exec.task].status \notin Over
  BY <1>1, ExecutingFacts DEF Over
<1> QED
  BY <1>1, <1>2, <1>4, <1>5, <1>6, ExecutingFacts, TaskStepKeeps

LEMMA ClaimStep ==
  ASSUME Inductive, scenario' = scenario, NEW t \in DOMAIN task, Claim(t)
  PROVE  Inductive' /\ Kept
<1>1. /\ exec = Idle /\ task[t].status = "queued" /\ UNCHANGED <<texts, panel, gate, chapter, revision>>
      /\ exec' = [Idle EXCEPT !.task = t, !.step = "loop"]
      /\ task' = [task EXCEPT ![t].status = "working", ![t].attempts = @ + 1]
  BY DEF Claim, Claimable
<1>2. PICK row \in TaskRow : /\ task' = [task EXCEPT ![t] = row] /\ row.bound = task[t].bound
                             /\ row.op = task[t].op /\ row.status = "working"
  <2>0. task[t] \in TaskRow /\ task[t].attempts + 1 \in Nat /\ "working" \in TaskStatuses
    BY Tables DEF Inductive, TaskRow, TaskStatuses, InProgress
  <2> DEFINE n == task[t].attempts + 1
             row == [task[t] EXCEPT !.status = "working", !.attempts = n]
  <2>2. task' = [task EXCEPT ![t] = row]
    BY <1>1
  <2>3. n \in Nat
    BY <2>0
  <2> HIDE DEF n
  <2>1. row \in TaskRow /\ row.bound = task[t].bound /\ row.op = task[t].op /\ row.status = "working"
    BY <2>0, <2>3 DEF TaskRow
  <2> QED
    BY <2>1, <2>2
<1>3. run \in RunRow /\ revision \in Nat /\ t \in Nat
  BY Tables DEF Inductive, Rows
<1>4. CASE \E n \in 0 .. 2 : run' = FreshRun(t, n)
  <2>1. /\ run' \in RunRow /\ run'.task = t /\ run'.text = 0 /\ run'.panel = 0 /\ run'.epoch = "none"
        /\ run'.phase = "preflight" /\ run'.canon = revision
    BY <1>3, <1>4 DEF FreshRun, RunRow, Phases, Writers
  <2>2. exec' # Idle
    BY <1>1 DEF Idle
  <2> QED
    BY <1>1, <1>2, <2>1, <2>2, TaskStepKeeps DEF Over, Waits
<1>5. CASE run.task = t /\ \E phase : /\ run' = [run EXCEPT !.phase = phase, !.status = "working"]
                                      /\ phase = run.phase \/ (run.phase = "facts" /\ phase = "review")
  <2>1. PICK phase : /\ run' = [run EXCEPT !.phase = phase, !.status = "working"]
                     /\ phase = run.phase \/ (run.phase = "facts" /\ phase = "review")
    BY <1>5
  <2>2. phase \in Phases
    BY <1>3, <2>1 DEF RunRow, Phases
  <2>3. /\ run' \in RunRow /\ run'.task = run.task /\ run'.text = run.text /\ run'.panel = run.panel
        /\ run'.epoch = run.epoch /\ run'.canon = run.canon /\ run'.phase = phase
    BY <1>3, <2>1, <2>2 DEF RunRow
  <2>4. run'.phase = run.phase \/ (run.task = t /\ run.phase = "facts" /\ run'.phase = "review")
    BY <1>5, <2>1, <2>3
  <2>5. run'.task = t /\ row.status # "paused" /\ task[t].status \notin Over
    BY <1>1, <1>2, <1>5, <2>3 DEF Over
  <2> QED
    BY <1>1, <1>2, <2>3, <2>4, <2>5, TaskStepKeeps DEF Waits
<1>6. CASE run.task = t /\ run' = run
  BY <1>1, <1>2, <1>3, <1>6, TaskStepKeeps DEF Over, Waits
<1>7. \/ \E n \in 0 .. 2 : run' = FreshRun(t, n)
      \/ Resumes(t) /\ run' = [Converted EXCEPT !.status = "working"]
      \/ run.task = t /\ run' = run
  <2>1. KeptRewrites(t) \in 0 .. 2 /\ 0 \in 0 .. 2
    BY <1>3 DEF KeptRewrites, RunRow
  <2> QED
    BY <2>1 DEF Claim
<1>8. ASSUME Resumes(t), run' = [Converted EXCEPT !.status = "working"]
      PROVE  run.task = t /\ \E phase : /\ run' = [run EXCEPT !.phase = phase, !.status = "working"]
                                        /\ phase = run.phase \/ (run.phase = "facts" /\ phase = "review")
  <2>1. CASE Converted = run
    <3>1. run' = [run EXCEPT !.phase = run.phase, !.status = "working"]
      BY <1>3, <1>8, <2>1 DEF RunRow
    <3> QED
      BY <1>8, <3>1 DEF Resumes
  <2>2. CASE run.phase = "facts" /\ Converted = [run EXCEPT !.phase = "review"]
    <3>1. run' = [run EXCEPT !.phase = "review", !.status = "working"]
      BY <1>3, <1>8, <2>2 DEF RunRow
    <3> QED
      BY <1>8, <2>2, <3>1 DEF Resumes
  <2> QED
    BY <2>1, <2>2 DEF Converted
<1> QED
  BY <1>4, <1>5, <1>6, <1>7, <1>8

LEMMA ClaimRefusedStep ==
  ASSUME Inductive, scenario' = scenario, NEW t \in DOMAIN task, ClaimRefused(t)
  PROVE  Inductive' /\ Kept
<1>1. /\ exec = Idle /\ exec' = exec /\ task[t].status = "queued"
      /\ UNCHANGED <<texts, panel, gate, chapter, revision>>
      /\ task' = [task EXCEPT ![t].status = "failed", ![t].attempts = @ + 1]
  BY DEF ClaimRefused, Claimable
<1>2. PICK row \in TaskRow : /\ task' = [task EXCEPT ![t] = row] /\ row.bound = task[t].bound
                             /\ row.op = task[t].op /\ row.status = "failed"
  <2>0. task[t] \in TaskRow /\ task[t].attempts + 1 \in Nat /\ "failed" \in TaskStatuses
    BY Tables DEF Inductive, TaskRow, TaskStatuses, InProgress
  <2> DEFINE n == task[t].attempts + 1
             row == [task[t] EXCEPT !.status = "failed", !.attempts = n]
  <2>2. task' = [task EXCEPT ![t] = row]
    BY <1>1
  <2>3. n \in Nat
    BY <2>0
  <2> HIDE DEF n
  <2>1. row \in TaskRow /\ row.bound = task[t].bound /\ row.op = task[t].op /\ row.status = "failed"
    BY <2>0, <2>3 DEF TaskRow
  <2> QED
    BY <2>1, <2>2
<1>3. run \in RunRow
  BY DEF Inductive, Rows
<1>4. CASE run' = run
  BY <1>1, <1>2, <1>3, <1>4, TaskStepKeeps DEF Over, Waits
<1>5. CASE run.task = t /\ run.phase = "facts" /\ run' = [run EXCEPT !.phase = "review"]
  <2>1. /\ run' \in RunRow /\ run'.task = run.task /\ run'.text = run.text /\ run'.panel = run.panel
        /\ run'.epoch = run.epoch /\ run'.canon = run.canon /\ run'.phase = "review"
    BY <1>3, <1>5 DEF RunRow, Phases
  <2> QED
    BY <1>1, <1>2, <1>5, <2>1, TaskStepKeeps DEF Over, Waits
<1> QED
  BY <1>4, <1>5 DEF ClaimRefused, Converted, Resumes

LEMMA RecoverStep ==
  ASSUME Inductive, scenario' = scenario, Recover
  PROVE  Inductive' /\ Kept
<1>1. /\ exec # Idle /\ exec' = Idle /\ UNCHANGED <<texts, panel, gate, chapter, revision>>
      /\ run' \in {run} \cup (IF Phase("completed") THEN {[run EXCEPT !.status = "completed"]} ELSE {})
  BY DEF Recover
<1>2. PICK st \in {"queued", "interrupted", "cancelled"} : task' = [task EXCEPT ![exec.task].status = st]
  BY DEF Recover
<1>3. exec.task \in DOMAIN task /\ run.task = exec.task /\ run \in RunRow
      /\ task[exec.task].status = "working"
  BY <1>1, ExecutingFacts
<1>4. PICK row \in TaskRow : /\ task' = [task EXCEPT ![exec.task] = row] /\ row.bound = task[exec.task].bound
                             /\ row.op = task[exec.task].op /\ row.status = st
  <2> DEFINE row == [task[exec.task] EXCEPT !.status = st]
  <2>1. row \in TaskRow /\ row.bound = task[exec.task].bound /\ row.op = task[exec.task].op /\ row.status = st
    BY <1>3, StatusRow DEF TaskStatuses, InProgress
  <2>2. task' = [task EXCEPT ![exec.task] = row]
    BY <1>2, <1>3
  <2> QED
    BY <2>1, <2>2
<1>5. /\ run' \in RunRow /\ run'.task = run.task /\ run'.text = run.text /\ run'.panel = run.panel
      /\ run'.epoch = run.epoch /\ run'.canon = run.canon /\ run'.phase = run.phase
  BY <1>1, <1>3 DEF RunRow
<1> QED
  BY <1>1, <1>3, <1>4, <1>5, TaskStepKeeps DEF Over

\* A process that dies between two writes fails an execution without a word: what it has
\* written stands, and its task is queued again.
LEMMA DiesFails ==
  ASSUME Inductive, exec # Idle, Dies
  PROVE  /\ Failing /\ best' = best
         /\ run' \in RunRow /\ run'.task = run.task /\ run'.phase = run.phase /\ run'.epoch = run.epoch
         /\ run'.panel = run.panel /\ run'.canon = run.canon /\ run'.text = run.text
BY DEF Dies, Failing, Ended, Inductive, Rows

LEMMA OrderOnlyStep ==
  ASSUME Inductive, scenario' = scenario, OrderOnly
  PROVE  Inductive' /\ Kept
<1>1. exec # Idle /\ Step("synthesis") /\ Dies /\ UNCHANGED <<version, chapter>>
  BY DEF OrderOnly, Step, Idle
<1>2. PICK o \in Outcomes : orders' = MergedOrders(o)
  BY DEF OrderOnly
<1>3. Grown(panel, panel') /\ Len(panel') = Len(panel) /\ run.text \in Texts
  <2>1. PICK ps : ps = Synthesized(panel)
    OBVIOUS
  <2> QED
    BY <1>1, <2>1, SynthesizedKept DEF OrderOnly
<1>4. ChoicesKept
  BY <1>1, <1>2, <1>3, DiesFails
     DEF Inductive, Rows, References, Checked, ChoicesKept, MergedOrders, Texts, Passed
<1>5. TextsKept
  BY <1>1, SameTexts
<1>6. PanelsKept
  BY <1>3 DEF PanelsKept, Inductive, References
<1>7. /\ chapter' \in ChapterRow /\ chapter'.canon = chapter.canon
      /\ chapter'.settle = chapter.settle /\ chapter'.current <= Len(version')
  BY <1>1 DEF Inductive, Rows, References
<1> QED
  BY <1>1, <1>4, <1>5, <1>6, <1>7, DiesFails, FailureKeeps

LEMMA RestoreOnlyStep ==
  ASSUME Inductive, scenario' = scenario, RestoreOnly
  PROVE  Inductive' /\ Kept
<1> DEFINE v == run.text
           a == NearestPassed(v)
<1>1. exec # Idle /\ Dies /\ UNCHANGED panel /\ a # 0 /\ orders' \subseteq orders
      /\ v # 0
  BY DEF RestoreOnly, Phase, Step, Idle, Inductive, Executing
<1>2. v \in Texts /\ version[v] \in TextRow /\ (v = chapter.canon => Passed(v) /\ Stands(version[v]))
  BY <1>1, ExecutingFacts, Tables DEF Inductive, Settled, Texts
<1>3. PICK row \in TextRow : /\ version' = [version EXCEPT ![v] = row] /\ Keeps(version[v], row)
                             /\ v = chapter.canon => Stands(row)
  <2>1. CASE Phase("hard_check")
    <3> DEFINE rejected == [version[v] EXCEPT !.status = "rejected"]
               row == WithCheck(rejected)
    <3>1. rejected \in TextRow /\ Keeps(version[v], rejected) /\ rejected.status = "rejected"
          /\ Verdict(rejected) = Verdict(version[v])
      BY <1>2, TextPlaced DEF Keeps, Verdict, TextRow, TextFields
    <3>2. ~Sound(v) /\ version' = [version EXCEPT ![v] = row]
      BY <2>1 DEF RestoreOnly, Phase, Step
    <3> HIDE DEF rejected
    <3>3. row \in TextRow /\ Keeps(rejected, row) /\ row.status = "rejected" /\ row.failed
      BY <3>1, <3>2, TextChecked DEF Sound
    <3> QED
      BY <3>1, <3>2, <3>3 DEF Keeps, Stands
  <2>2. CASE Step("candidate")
    <3> DEFINE row == [version[v] EXCEPT !.status = "rejected"]
    <3>1. row \in TextRow /\ Keeps(version[v], row) /\ row.status = "rejected"
          /\ row.failed = version[v].failed
      BY <1>2, TextPlaced DEF Keeps, TextRow, TextFields
    <3>2. ~LatestPassed(v) /\ version' = [version EXCEPT ![v] = row]
      BY <2>2 DEF RestoreOnly, Phase, Step
    <3>3. v = chapter.canon => row.failed
      BY <1>2, <3>1, <3>2, TextFacts DEF LatestPassed, Passed
    <3> QED
      BY <3>1, <3>2, <3>3 DEF Stands
  <2> QED
    BY <2>1, <2>2 DEF RestoreOnly
<1>4. TextsKept /\ Len(version') = Len(version)
  BY <1>2, <1>3, TextWritten
<1>5. ChoicesKept /\ PanelsKept
  BY <1>1, <1>4, DiesFails, ChoicesStay, SameTexts DEF PanelsKept, Inductive, References
<1>6. /\ chapter' \in ChapterRow /\ chapter'.canon = chapter.canon
      /\ chapter'.settle = chapter.settle /\ chapter'.current <= Len(version')
  <2>1. chapter' = chapter \/ chapter' = [chapter EXCEPT !.current = a, !.failed = FALSE]
    BY DEF RestoreOnly, Shown
  <2>2. a \in Nat /\ a <= Len(version) /\ chapter \in ChapterRow /\ chapter.current <= Len(version)
    BY <1>1, <1>2, AncestorPassed DEF Inductive, Rows, References
  <2> HIDE DEF a
  <2> QED
    BY <1>4, <2>1, <2>2 DEF ChapterRow
<1> QED
  BY <1>1, <1>4, <1>5, <1>6, DiesFails, FailureKeeps

\* Nothing that an execution relies on is touched: its task goes on working, the run is
\* about the same text, and the rows of its panel are kept.
LEMMA AsideKeeps ==
  ASSUME Inductive, scenario' = scenario, exec' = exec, version' = version, ChoicesKept, PanelsKept,
         gate' = gate, chapter' \in ChapterRow, chapter'.canon = chapter.canon,
         chapter'.settle = chapter.settle, chapter'.current = chapter.current,
         revision' \in Nat, revision <= revision', revision' <= MaxRevision, TasksKept,
         \A u \in DOMAIN task : task[u].status = "working" => task'[u].status = "working",
         run' \in RunRow, run'.task = run.task, run'.text = run.text, run'.phase = run.phase,
         run'.panel = run.panel, run'.canon = run.canon,
         run'.epoch = run.epoch \/ (exec = Idle /\ run'.epoch = "lost"),
         RequestsAreServed'
  PROVE  Inductive' /\ Kept
<1>1. /\ run.task <= Len(task) /\ run.text <= Len(version) /\ run.panel <= Len(panel) /\ run.canon <= revision
      /\ run \in RunRow /\ revision \in Nat /\ exec \in ExecRow
      /\ Len(task) \in Nat /\ DOMAIN task = 1 .. Len(task)
      /\ Len(panel) \in Nat /\ DOMAIN panel = 1 .. Len(panel)
  BY Tables DEF Inductive, Rows, References
<1>2. /\ run'.task <= Len(task') /\ run'.panel <= Len(panel') /\ run'.canon <= revision'
      /\ DOMAIN task \subseteq DOMAIN task'
  BY <1>1 DEF TasksKept, PanelsKept, Grown, RunRow
<1>3. \A p \in DOMAIN panel : panel'[p].text = panel[p].text /\ (panel[p].full => panel'[p].full)
  BY DEF PanelsKept, Grown
<1>4. run'.phase \in {"review", "facts"} /\ run'.text # 0 => Passed(run'.text)
  BY DEF Inductive, Checked
<1>5. exec.step \in {"seats", "synthesis"} => run.panel \in DOMAIN panel
  BY <1>1 DEF Inductive, Executing, RunRow
<1>6. Executing'
  <2>1. exec'.step = "none" => exec' = Idle
    BY DEF Inductive, Executing
  <2>2. exec' # Idle => /\ exec'.task \in DOMAIN task' /\ run'.task = exec'.task
                        /\ task'[exec'.task].status = "working"
    BY <1>2 DEF Inductive, Executing
  <2>3. exec'.step \in {"draft", "rewrite", "candidate", "seats", "synthesis"} => run'.epoch = "held"
    BY DEF Inductive, Executing, Idle
  <2>4. exec'.step \in {"rewrite", "candidate"} => run'.text # 0
    BY DEF Inductive, Executing
  <2>5. exec'.step \in {"seats", "synthesis"} =>
          /\ run'.text # 0 /\ Passed(run.text)'
          /\ run'.panel # 0 /\ panel'[run'.panel].text = run'.text
    BY <1>3, <1>5 DEF Inductive, Executing, Passed
  <2>6. exec'.step = "synthesis" => panel'[run'.panel].full
    BY <1>3, <1>5 DEF Inductive, Executing
  <2> QED
    BY <2>1, <2>2, <2>3, <2>4, <2>5, <2>6 DEF Executing
<1> QED
  BY <1>1, <1>2, <1>4, <1>6, RuntimeKeeps

\* Requests go on being served when no task is paused and no request is made.
LEMMA ServedKeeps ==
  ASSUME Inductive, run'.task = run.task, run'.phase = run.phase, run'.panel = run.panel,
         \A p \in DOMAIN panel : panel'[p].asked => panel[p].asked,
         \A u \in DOMAIN task' : task'[u].status = "paused" => u \in DOMAIN task /\ task[u].status = "paused"
  PROVE  RequestsAreServed'
<1>1. run.panel # 0 => run.panel \in DOMAIN panel
  BY Tables DEF Inductive, Rows, References, RunRow
<1> QED
  BY <1>1 DEF Inductive, RequestsAreServed

LEMMA StaleThrowsStep ==
  ASSUME Inductive, scenario' = scenario, StaleThrows
  PROVE  Inductive' /\ Kept
<1>1. /\ UNCHANGED <<texts, task, gate, revision, exec>>
      /\ run' = [run EXCEPT !.status = "failed"] /\ panel' = Blocked(panel, stale.panels)
      /\ \/ chapter' = chapter
         \/ chapter' = [chapter EXCEPT !.failed = TRUE]
  BY DEF StaleThrows
<1>2. run \in RunRow /\ chapter \in ChapterRow /\ revision \in Nat /\ revision <= MaxRevision
  BY DEF Inductive, Rows, References
<1>3. version' = version /\ ChoicesKept /\ TasksKept
  BY <1>1, SameTexts, SameTasks DEF texts
<1>4. PanelsKept
  BY <1>1, BlockedKept, SameTexts DEF PanelsKept, Inductive, References
<1>5. /\ chapter' \in ChapterRow /\ chapter'.canon = chapter.canon
      /\ chapter'.settle = chapter.settle /\ chapter'.current = chapter.current
  BY <1>1, <1>2 DEF ChapterRow
<1>6. /\ run' \in RunRow /\ run'.task = run.task /\ run'.text = run.text /\ run'.phase = run.phase
      /\ run'.panel = run.panel /\ run'.canon = run.canon /\ run'.epoch = run.epoch
  BY <1>1, <1>2 DEF RunRow
<1>7. \A p \in DOMAIN panel : panel'[p].asked => panel[p].asked
  BY <1>1, Tables DEF Blocked, Inductive, PanelRow
<1>8. RequestsAreServed'
  BY <1>1, <1>6, <1>7, ServedKeeps
<1> QED
  BY <1>1, <1>2, <1>3, <1>4, <1>5, <1>6, <1>8, AsideKeeps

LEMMA OtherChapterRunsStep ==
  ASSUME Inductive, scenario' = scenario, OtherChapterRuns
  PROVE  Inductive' /\ Kept
<1>1. /\ UNCHANGED <<version, best, task, panel, gate, chapter, exec, revision>> /\ orders' \in {orders, {}}
      /\ exec = Idle /\ run' = [run EXCEPT !.epoch = "lost"]
  BY DEF OtherChapterRuns
<1>2. run \in RunRow /\ chapter \in ChapterRow /\ revision \in Nat /\ revision <= MaxRevision
  BY DEF Inductive, Rows, References
<1>3. TextsKept /\ TasksKept /\ PanelsKept
  BY <1>1, SameTexts, SameTasks DEF PanelsKept, Inductive, References
<1>4. ChoicesKept
  BY <1>1, <1>3, ChoicesStay
<1>5. /\ run' \in RunRow /\ run'.task = run.task /\ run'.text = run.text /\ run'.phase = run.phase
      /\ run'.panel = run.panel /\ run'.canon = run.canon /\ run'.epoch = "lost"
  BY <1>1, <1>2 DEF RunRow
<1>6. RequestsAreServed'
  BY <1>1, <1>5, ServedKeeps
<1> QED
  BY <1>1, <1>2, <1>3, <1>4, <1>5, <1>6, AsideKeeps

\* A task that is created: the others stay as they are.
LEMMA TaskCreated ==
  ASSUME Inductive, NEW op \in Operations, NEW v \in Nat, v <= Len(version), Create(op, v)
  PROVE  /\ TasksKept
         /\ \A u \in DOMAIN task : task[u].status = "working" => task'[u].status = "working"
         /\ \A u \in DOMAIN task' : task'[u].status = "paused" => u \in DOMAIN task /\ task[u].status = "paused"
<1> DEFINE row == [status |-> "queued", op |-> op, bound |-> v, third |-> FALSE,
                   attempts |-> 0, cancel |-> FALSE, reviewing |-> FALSE]
<1>1. op \in AllOperations
  BY ScenariosAssumption DEF Operations, Inductive, Rows
<1>2. row \in TaskRow /\ row.status = "queued" /\ row.bound = v
  BY <1>1 DEF TaskRow, TaskStatuses, InProgress
<1>3. Len(task) < MaxTasks /\ task' = Append(task, row)
  BY DEF Create
<1>4. Len(task) \in Nat /\ MaxTasks \in Nat /\ task \in Seq(TaskRow) /\ DOMAIN task = 1 .. Len(task)
  BY Tables DEF Inductive, Rows
<1> HIDE DEF row
<1>5. /\ task' \in Seq(TaskRow) /\ Len(task') = Len(task) + 1
      /\ task'[Len(task) + 1] = row /\ \A u \in 1 .. Len(task) : task'[u] = task[u]
  BY <1>2, <1>3, <1>4
<1>6. DOMAIN task' = 1 .. (Len(task) + 1)
  BY <1>4, <1>5
<1>7. \A u \in DOMAIN task' : u \in DOMAIN task \/ u = Len(task) + 1
  BY <1>4, <1>6
<1>8. \A u \in DOMAIN task' : task'[u].bound <= Len(version)
  BY <1>2, <1>4, <1>5, <1>7 DEF Inductive, References
<1> QED
  BY <1>2, <1>3, <1>4, <1>5, <1>7, <1>8 DEF TasksKept

LEMMA ScheduleStep ==
  ASSUME Inductive, scenario' = scenario, NEW op \in Operations, ScheduleNew(op) \/ ScheduleRevision(op)
  PROVE  Inductive' /\ Kept
<1>1. PICK v \in Nat : v <= Len(version) /\ Create(op, v)
  <2>1. CASE ScheduleNew(op)
    BY <2>1, Tables DEF ScheduleNew, Inductive
  <2>2. CASE ScheduleRevision(op)
    <3> DEFINE v == IF chapter.settle = "settled" THEN chapter.canon ELSE chapter.current
    <3>1. v \in Texts /\ Create(op, v)
      BY <2>2 DEF ScheduleRevision, Active
    <3> QED
      BY <3>1, Tables DEF Inductive, Texts
  <2> QED
    BY <2>1, <2>2
<1>2. /\ UNCHANGED <<run, texts, panel, gate, revision, exec>>
      /\ \/ chapter' = chapter
         \/ chapter' = [chapter EXCEPT !.failed = FALSE]
  BY DEF ScheduleNew, ScheduleRevision
<1>3. run \in RunRow /\ chapter \in ChapterRow /\ revision \in Nat /\ revision <= MaxRevision
  BY DEF Inductive, Rows, References
<1>4. version' = version /\ ChoicesKept /\ PanelsKept
  BY <1>2, StillKept
<1>5. /\ chapter' \in ChapterRow /\ chapter'.canon = chapter.canon
      /\ chapter'.settle = chapter.settle /\ chapter'.current = chapter.current
  BY <1>2, <1>3 DEF ChapterRow
<1>6. /\ TasksKept
      /\ \A u \in DOMAIN task : task[u].status = "working" => task'[u].status = "working"
      /\ \A u \in DOMAIN task' : task'[u].status = "paused" => u \in DOMAIN task /\ task[u].status = "paused"
  BY <1>1, TaskCreated
<1>7. RequestsAreServed'
  BY <1>2, <1>6, ServedKeeps
<1> QED
  BY <1>2, <1>3, <1>4, <1>5, <1>6, <1>7, AsideKeeps

\* The author writes the status of a task that no execution works on.
LEMMA OrderedStep ==
  ASSUME Inductive, scenario' = scenario, NEW t \in DOMAIN task, RetryFailed(t) \/ Resume(t) \/ Cancel(t)
  PROVE  Inductive' /\ Kept
<1>1. /\ UNCHANGED <<run, texts, panel, gate, chapter, revision, exec>>
  BY DEF RetryFailed, Resume, Cancel
<1>2. task[t] \in TaskRow
  BY Tables DEF Inductive
<1>3. PICK st \in TaskStatuses, cancel \in BOOLEAN :
        /\ task' = [task EXCEPT ![t].status = st, ![t].cancel = cancel]
        /\ st # "paused" /\ (task[t].status = "working" => st = "working")
        /\ st = "waiting_confirmation" => task[t].status = "waiting_confirmation"
        /\ (task[t].status \in Over => st \in Over)
  <2>1. CASE RetryFailed(t)
    <3>1. task' = [task EXCEPT ![t].status = "queued", ![t].cancel = FALSE]
          /\ task[t].status \in {"failed", "interrupted", "blocked"}
      BY <2>1 DEF RetryFailed, Retriable
    <3>2. "queued" \in TaskStatuses /\ FALSE \in BOOLEAN /\ task[t].status \notin Over
      BY <3>1 DEF TaskStatuses, InProgress, Over
    <3> QED
      BY <3>1, <3>2
  <2>2. CASE Resume(t)
    <3>1. task' = [task EXCEPT ![t].status = "queued"] /\ task[t].status = "paused"
      BY <2>2 DEF Resume
    <3>2. task' = [task EXCEPT ![t].status = "queued", ![t].cancel = task[t].cancel]
      BY <1>2, <3>1 DEF TaskRow
    <3>3. task[t].cancel \in BOOLEAN
      BY <1>2 DEF TaskRow
    <3>4. "queued" \in TaskStatuses /\ task[t].status \notin Over
      BY <3>1 DEF TaskStatuses, InProgress, Over
    <3> QED
      BY <3>1, <3>2, <3>3, <3>4
  <2>3. CASE Cancel(t)
    <3> DEFINE st == IF task[t].status \in {"queued", "paused", "blocked", "waiting_confirmation"}
                     THEN "cancelled" ELSE task[t].status
    <3>1. task' = [task EXCEPT ![t].status = st, ![t].cancel = TRUE]
      BY <2>3 DEF Cancel
    <3>2. /\ st \in TaskStatuses /\ st # "paused" /\ (task[t].status = "working" => st = "working")
          /\ st = "waiting_confirmation" => task[t].status = "waiting_confirmation"
          /\ (task[t].status \in Over => st \in Over)
      BY <1>2 DEF TaskRow, TaskStatuses, InProgress, Over
    <3> HIDE DEF st
    <3> QED
      BY <3>1, <3>2
  <2> QED
    BY <2>1, <2>2, <2>3
<1>4. PICK row \in TaskRow : /\ task' = [task EXCEPT ![t] = row] /\ row.bound = task[t].bound
                             /\ row.op = task[t].op /\ row.status = st
  <2> DEFINE row == [task[t] EXCEPT !.status = st, !.cancel = cancel]
  <2>1. row \in TaskRow /\ row.bound = task[t].bound /\ row.op = task[t].op /\ row.status = st
    BY <1>2, <1>3 DEF TaskRow
  <2>2. task' = [task EXCEPT ![t] = row]
    BY <1>3
  <2> QED
    BY <2>1, <2>2
<1>5. TasksKept /\ task'[t] = row /\ \A u \in DOMAIN task : u # t => task'[u] = task[u]
  BY <1>3, <1>4, TasksWritten DEF Waits
<1>6. DOMAIN task' = DOMAIN task
  BY <1>4
<1>7. run \in RunRow /\ chapter \in ChapterRow /\ revision \in Nat /\ revision <= MaxRevision
  BY DEF Inductive, Rows, References
<1>8. version' = version /\ ChoicesKept /\ PanelsKept
  BY <1>1, StillKept
<1>9. \A u \in DOMAIN task : task[u].status = "working" => task'[u].status = "working"
  BY <1>3, <1>4, <1>5
<1>10. \A u \in DOMAIN task' : task'[u].status = "paused" => u \in DOMAIN task /\ task[u].status = "paused"
  BY <1>3, <1>4, <1>5, <1>6
<1>11. RequestsAreServed'
  BY <1>1, <1>10, ServedKeeps
<1> QED
  BY <1>1, <1>5, <1>7, <1>8, <1>9, <1>11, AsideKeeps

LEMMA RequestStep ==
  ASSUME Inductive, scenario' = scenario, RequestSynthesis
  PROVE  Inductive' /\ Kept
<1>1. /\ UNCHANGED <<run, texts, gate, chapter, revision, exec>>
      /\ run.panel # 0 /\ panel' = [panel EXCEPT ![run.panel].asked = TRUE]
      /\ task' = [task EXCEPT ![run.task].status = IF @ = "paused" THEN "queued" ELSE @]
  BY DEF RequestSynthesis
<1>2. /\ run \in RunRow /\ chapter \in ChapterRow /\ revision \in Nat /\ revision <= MaxRevision
      /\ run.panel \in DOMAIN panel /\ Len(panel) \in Nat /\ Len(panel) <= MaxPanels
      /\ Grown(panel, panel) /\ panel \in Seq(PanelRow)
      /\ \A p \in DOMAIN panel : panel[p] \in PanelRow
  BY <1>1, SameTexts, Tables DEF Inductive, Rows, References, RunRow
<1>3. panel' \in [DOMAIN panel -> PanelRow]
  BY <1>1, <1>2 DEF PanelRow
<1>4. /\ panel' \in Seq(PanelRow) /\ Len(panel') = Len(panel) /\ DOMAIN panel' = DOMAIN panel
      /\ \A p \in DOMAIN panel : /\ panel'[p].text = panel[p].text /\ panel'[p].full = panel[p].full
                                 /\ panel'[p].merged = panel[p].merged
                                 /\ panel'[p].recorded = panel[p].recorded
  BY <1>1, <1>2, <1>3, SameLength DEF PanelRow
<1>5. PanelsKept
  BY <1>2, <1>4 DEF PanelsKept, Grown
<1>6. version' = version /\ ChoicesKept
  BY <1>1, SameTexts DEF texts
<1>7. /\ TasksKept /\ DOMAIN task' = DOMAIN task
      /\ \A u \in DOMAIN task : task[u].status = "working" => task'[u].status = "working"
      /\ \A u \in DOMAIN task : u = run.task => task'[u].status # "paused"
  <2>1. CASE run.task \notin DOMAIN task
    <3>1. task \in Seq(TaskRow)
      BY DEF Inductive, Rows
    <3>2. task' = task
      BY <1>1, <2>1, <3>1
    <3> QED
      BY <2>1, <3>2, SameTasks
  <2>2. CASE run.task \in DOMAIN task
    <3> DEFINE st == IF task[run.task].status = "paused" THEN "queued" ELSE task[run.task].status
               row == [task[run.task] EXCEPT !.status = st]
    <3>1. task' = [task EXCEPT ![run.task] = row]
      BY <1>1, <2>2
    <3>2. /\ st \in TaskStatuses /\ st # "paused" /\ (task[run.task].status = "working" => st = "working")
          /\ st = "waiting_confirmation" => Waits(task[run.task])
          /\ (task[run.task].status \in Over => st \in Over)
      BY <2>2, Tables DEF Inductive, TaskRow, TaskStatuses, InProgress, Over, Waits
    <3> HIDE DEF st
    <3>3. row \in TaskRow /\ row.bound = task[run.task].bound /\ row.op = task[run.task].op /\ row.status = st
      BY <2>2, <3>2, StatusRow
    <3> HIDE DEF row
    <3>4. TasksKept /\ task'[run.task] = row /\ \A u \in DOMAIN task : u # run.task => task'[u] = task[u]
      BY <2>2, <3>1, <3>2, <3>3, TasksWritten DEF Waits
    <3> QED
      BY <3>1, <3>2, <3>3, <3>4
  <2> QED
    BY <2>1, <2>2
<1>8. RequestsAreServed'
  BY <1>1, <1>7 DEF RequestsAreServed
<1> QED
  BY <1>1, <1>2, <1>5, <1>6, <1>7, <1>8, AsideKeeps
-----------------------------------------------------------------------------
(* What the author decides of a text.                                      *)

\* Gates only stop awaiting the author, and the canon text, if any, is one that passed.
LEMMA DecisionKeeps ==
  ASSUME Inductive, scenario' = scenario, TextsKept, ChoicesKept, panel' = panel, exec' = exec,
         gate' \in [1 .. MaxTexts -> GateRow],
         \A v \in 1 .. MaxTexts : gate'[v].status = "awaiting" => gate[v].status = "awaiting",
         chapter' \in ChapterRow, chapter'.current <= Len(version'), chapter'.canon <= Len(version'),
         chapter'.canon # 0 <=> chapter'.settle = "settled",
         chapter'.canon # 0 => version'[chapter'.canon].passed /\ Stands(version'[chapter'.canon]),
         revision' \in Nat, revision <= revision', revision' <= MaxRevision,
         task' \in Seq(TaskRow), Len(task') = Len(task), DOMAIN task' = DOMAIN task,
         \A t \in DOMAIN task : task'[t].bound <= Len(version'), TasksStand,
         exec # Idle => task'[exec.task].status = "working",
         run' \in RunRow, run'.task = run.task, run'.text = run.text, run'.panel = run.panel,
         run'.canon = run.canon, run'.epoch = run.epoch, run'.phase \in {run.phase, "rewrite"},
         chapter'.settle = "settled" /\ run.task \in DOMAIN task /\ task'[run.task].status \notin Over
           /\ task'[run.task].op \notin Explicit =>
              /\ run.text = 0 /\ run.epoch # "held"
              /\ run'.phase \in {"preflight", "rewrite", "completed"},
         AwaitingHasGate', RequestsAreServed'
  PROVE  Inductive' /\ Kept
<1> USE DEF Inductive
<1>1. /\ run.text \in Nat /\ run.text <= Len(version) /\ run.panel <= Len(panel) /\ run.task <= Len(task)
      /\ run.canon <= revision /\ run.canon \in Nat /\ revision \in Nat
      /\ Len(version) \in Nat /\ DOMAIN version = 1 .. Len(version) /\ MaxRevision \in Nat
  BY Tables DEF Rows, References, RunRow
<1>2. Len(version') \in Nat /\ Len(version) <= Len(version')
  BY DEF TextsKept
<1>3. Rows'
  BY DEF Rows, TextsKept, ChoicesKept, MaxTexts
<1>4. References'
  <2>1. run'.text <= Len(version') /\ run'.panel <= Len(panel') /\ run'.task <= Len(task')
        /\ run'.canon <= revision'
    BY <1>1, <1>2
  <2>2. /\ Len(task') <= MaxTasks' /\ Len(version') <= MaxTexts' /\ Len(panel') <= MaxPanels'
        /\ revision' <= MaxRevision' /\ best' <= Len(version')
    BY DEF References, TextsKept, ChoicesKept, MaxTexts, MaxTasks, MaxPanels, MaxRevision
  <2> QED
    BY <2>1, <2>2 DEF References
<1>5. run.text # 0 => run.text \in Texts
  BY <1>1 DEF Texts
<1>6. ASSUME NEW v \in Texts, Passed(v)
      PROVE  v \in Texts' /\ version'[v].passed
  BY <1>6, PassedStays
<1>7. Executing'
  <2>1. exec.step \in {"seats", "synthesis"} => run'.text # 0 /\ Passed(run.text)'
    BY <1>5, <1>6 DEF Executing, Passed
  <2> QED
    BY <2>1 DEF Executing
<1>8. Checked'
  <2>1. run'.phase \in {"review", "facts"} /\ run'.text # 0 => Passed(run.text)'
    BY <1>5, <1>6 DEF Checked, Passed
  <2>2. \A v \in Awaiting' : v \in Texts' /\ Passed(v)'
    BY <1>6 DEF Checked, Awaiting, Rows, Passed
  <2> QED
    BY <2>1, <2>2 DEF Checked, ChoicesKept
<1>9. Settled'
  BY DEF Settled, Passed
<1>10. Kept
  BY SameTexts DEF Kept, PanelsKept, References, RunStands
<1> QED
  BY <1>3, <1>4, <1>7, <1>8, <1>9, <1>10

LEMMA AlignOutlineStep ==
  ASSUME Inductive, scenario' = scenario, NEW v \in Texts, AlignOutline(v)
  PROVE  Inductive' /\ Kept
<1>1. UNCHANGED <<run, task, texts, panel, chapter, revision, exec>> /\ gate' = [gate EXCEPT ![v].open = FALSE]
  BY DEF AlignOutline
<1>2. gate \in [1 .. MaxTexts -> GateRow]
  BY DEF Inductive, Rows
<1>3. /\ gate' \in [1 .. MaxTexts -> GateRow]
      /\ \A u \in 1 .. MaxTexts : gate'[u].status = gate[u].status
  BY <1>1, <1>2 DEF GateRow
<1>4. AwaitingHasGate' /\ RequestsAreServed'
  BY <1>1, <1>2, <1>3 DEF Inductive, AwaitingHasGate, RequestsAreServed, Awaiting
<1>5. TextsKept /\ ChoicesKept /\ version' = version
  BY <1>1, SameTexts DEF texts
<1>6. /\ run \in RunRow /\ chapter \in ChapterRow /\ revision \in Nat /\ revision <= MaxRevision
      /\ chapter.current <= Len(version) /\ chapter.canon <= Len(version) /\ task \in Seq(TaskRow)
      /\ \A t \in DOMAIN task : task[t].bound <= Len(version)
  BY DEF Inductive, Rows, References
<1>7. /\ exec # Idle => task[exec.task].status = "working"
      /\ chapter.canon # 0 <=> chapter.settle = "settled"
      /\ chapter.canon # 0 => Passed(chapter.canon) /\ Stands(version[chapter.canon])
      /\ chapter.settle = "settled" /\ run.task \in DOMAIN task /\ task[run.task].status \notin Over
           /\ task[run.task].op \notin Explicit =>
              /\ run.text = 0 /\ run.epoch # "held"
              /\ run.phase \in {"preflight", "rewrite", "completed"}
  BY DEF Inductive, Executing, Settled
<1> QED
  BY <1>1, <1>3, <1>4, <1>5, <1>6, <1>7, DecisionKeeps DEF Passed, TasksStand

\* Another chapter settles: texts may clash with it, but keep their words and checks.
LEMMA OtherChapterSettlesStep ==
  ASSUME Inductive, scenario' = scenario, OtherChapterSettles
  PROVE  Inductive' /\ Kept
<1>1. /\ UNCHANGED <<run, task, orders, best, panel, gate, chapter, exec>>
      /\ revision < MaxRevision /\ revision' = revision + 1
  BY DEF OtherChapterSettles
<1>2. PICK S \in SUBSET Texts : version' = [v \in Texts |-> [version[v] EXCEPT !.clash = v \in S]]
  BY DEF OtherChapterSettles
<1>3. /\ Len(version) \in Nat /\ DOMAIN version = 1 .. Len(version) /\ Len(version) <= MaxTexts
      /\ \A v \in Texts : version[v] \in TextRow
      /\ run \in RunRow /\ chapter \in ChapterRow /\ revision \in Nat /\ MaxRevision \in Nat
      /\ chapter.current <= Len(version) /\ chapter.canon <= Len(version)
      /\ task \in Seq(TaskRow) /\ gate \in [1 .. MaxTexts -> GateRow]
      /\ \A t \in DOMAIN task : task[t].bound <= Len(version)
  BY Tables DEF Inductive, Rows, References, Texts
<1>4. \A v \in Texts : /\ version'[v] \in TextRow /\ Keeps(version[v], version'[v])
                       /\ version'[v].status = version[v].status
  <2> SUFFICES ASSUME NEW v \in Texts
               PROVE  /\ version'[v] \in TextRow /\ Keeps(version[v], version'[v])
                      /\ version'[v].status = version[v].status
    OBVIOUS
  <2>1. version'[v] = [version[v] EXCEPT !.clash = v \in S]
    BY <1>2
  <2> DEFINE b == v \in S
  <2>2. b \in BOOLEAN /\ version'[v] = [version[v] EXCEPT !.clash = b]
    BY <2>1
  <2> HIDE DEF b
  <2> QED
    BY <1>3, <2>2, TextClashes
<1>5. version' \in Seq(TextRow) /\ Len(version') = Len(version)
  <2>1. version' \in [DOMAIN version -> TextRow]
    BY <1>2, <1>4 DEF Texts
  <2> QED
    BY <2>1, SameLength DEF Inductive, Rows
<1>6. /\ chapter.canon # 0 <=> chapter.settle = "settled"
      /\ chapter.canon # 0 => /\ chapter.canon \in Texts
                              /\ version[chapter.canon].passed /\ Stands(version[chapter.canon])
      /\ exec # Idle => task[exec.task].status = "working"
      /\ chapter.settle = "settled" /\ run.task \in DOMAIN task /\ task[run.task].status \notin Over
           /\ task[run.task].op \notin Explicit =>
              /\ run.text = 0 /\ run.epoch # "held"
              /\ run.phase \in {"preflight", "rewrite", "completed"}
  BY <1>3 DEF Inductive, Executing, Settled, ChapterRow, Texts, Passed
<1>7. chapter.canon # 0 => version'[chapter.canon].passed /\ Stands(version'[chapter.canon])
  BY <1>4, <1>6 DEF Keeps, Stands
<1>8. TextsKept
  BY <1>3, <1>4, <1>5, <1>7 DEF TextsKept
<1>9. ChoicesKept
  BY <1>1, <1>8, ChoicesStay
<1>10. AwaitingHasGate' /\ RequestsAreServed'
  BY <1>1 DEF Inductive, AwaitingHasGate, RequestsAreServed, Awaiting
<1>11. revision' \in Nat /\ revision <= revision' /\ revision' <= MaxRevision
  BY <1>1, <1>3
<1>12. TasksStand
  BY <1>1 DEF TasksStand
<1> QED
  BY <1>1, <1>3, <1>5, <1>6, <1>7, <1>8, <1>9, <1>10, <1>11, <1>12, DecisionKeeps

\* Superseding the gates: none awaits the author, and tasks that waited are cancelled.
LEMMA SupersededKeeps ==
  ASSUME Inductive, Superseded
  PROVE  /\ gate' \in [1 .. MaxTexts -> GateRow] /\ \A v \in 1 .. MaxTexts : gate'[v].status # "awaiting"
         /\ task' \in Seq(TaskRow) /\ Len(task') = Len(task) /\ DOMAIN task' = DOMAIN task
         /\ \A t \in DOMAIN task : /\ task'[t].bound = task[t].bound
                                   /\ task'[t].op = task[t].op
                                   /\ task'[t].status \in {task[t].status, "cancelled"}
<1>1. gate \in [1 .. MaxTexts -> GateRow] /\ DOMAIN gate = 1 .. MaxTexts
  BY DEF Inductive, Rows
<1>2. gate' = [v \in DOMAIN gate |-> IF v \notin Awaiting THEN gate[v]
                 ELSE [gate[v] EXCEPT !.status = "superseded", !.open = FALSE]]
  BY DEF Superseded
<1>3. \A v \in 1 .. MaxTexts : gate'[v] \in GateRow /\ gate'[v].status # "awaiting"
  BY <1>1, <1>2 DEF Awaiting, GateRow
<1>4. gate' \in [1 .. MaxTexts -> GateRow]
  BY <1>1, <1>2, <1>3
<1> DEFINE left == {gate[v].task : v \in Awaiting}
<1>5. task' = [t \in DOMAIN task |->
                 IF t \in left /\ task[t].status = "waiting_confirmation"
                 THEN [task[t] EXCEPT !.status = "cancelled", !.cancel = TRUE] ELSE task[t]]
  BY DEF Superseded
<1> HIDE DEF left
<1>6. \A t \in DOMAIN task : /\ task'[t] \in TaskRow /\ task'[t].bound = task[t].bound
                             /\ task'[t].op = task[t].op
                             /\ task'[t].status \in {task[t].status, "cancelled"}
  BY <1>5, Tables DEF Inductive, TaskRow, TaskStatuses
<1>7. task' \in [DOMAIN task -> TaskRow]
  BY <1>5, <1>6
<1>8. task' \in Seq(TaskRow) /\ Len(task') = Len(task) /\ DOMAIN task' = DOMAIN task
  BY <1>7, SameLength DEF Inductive, Rows
<1> QED
  BY <1>3, <1>4, <1>6, <1>8

\* The author edits or withdraws a chapter that has no canon, between two executions.
LEMMA EditKeeps ==
  ASSUME Inductive, scenario' = scenario, chapter.settle # "settled", ~Busy(InProgress), Superseded,
         UNCHANGED <<run, orders, best, panel, revision, exec>>, TextsKept, ChoicesKept,
         chapter' \in ChapterRow, chapter'.current <= Len(version'), chapter'.canon = chapter.canon,
         chapter'.settle = "unsettled"
  PROVE  Inductive' /\ Kept
<1>1. /\ gate' \in [1 .. MaxTexts -> GateRow] /\ \A v \in 1 .. MaxTexts : gate'[v].status # "awaiting"
      /\ task' \in Seq(TaskRow) /\ Len(task') = Len(task) /\ DOMAIN task' = DOMAIN task
      /\ \A t \in DOMAIN task : /\ task'[t].bound = task[t].bound
                                /\ task'[t].op = task[t].op
                                /\ task'[t].status \in {task[t].status, "cancelled"}
  BY SupersededKeeps
<1>2. exec = Idle
  BY DEF Busy, InProgress, Inductive, Executing
<1>3. chapter.canon = 0 /\ run \in RunRow /\ revision \in Nat /\ revision <= MaxRevision
  BY DEF Inductive, Rows, References, Settled
<1>4. RequestsAreServed'
  BY <1>1 DEF RequestsAreServed, Busy, InProgress
<1>5. AwaitingHasGate'
  BY DEF AwaitingHasGate
<1>6. \A t \in DOMAIN task : task'[t].bound <= Len(version')
  BY <1>1, Tables DEF Inductive, References, TaskRow, TextsKept
<1>7. chapter'.canon <= Len(version')
  BY <1>3 DEF TextsKept
<1>8. TasksStand
  BY <1>1 DEF TasksStand
<1> QED
  BY <1>1, <1>2, <1>3, <1>4, <1>5, <1>6, <1>7, <1>8, DecisionKeeps

LEMMA WithdrawStep ==
  ASSUME Inductive, scenario' = scenario, Withdraw
  PROVE  Inductive' /\ Kept
<1>1. /\ chapter.settle # "settled" /\ ~Busy(InProgress) /\ Superseded
      /\ UNCHANGED <<run, texts, panel, revision, exec>>
      /\ chapter' = [chapter EXCEPT !.current = 0, !.settle = "unsettled", !.failed = FALSE]
  BY DEF Withdraw
<1>2. /\ chapter' \in ChapterRow /\ chapter'.canon = chapter.canon /\ chapter'.settle = "unsettled"
      /\ chapter'.current = 0
  BY <1>1 DEF Inductive, Rows, ChapterRow
<1>3. TextsKept /\ ChoicesKept /\ chapter'.current <= Len(version')
  BY <1>1, <1>2, SameTexts, Tables DEF texts, Inductive
<1> QED
  BY <1>1, <1>2, <1>3, EditKeeps DEF texts

LEMMA SaveDraftStep ==
  ASSUME Inductive, scenario' = scenario, SaveDraft
  PROVE  Inductive' /\ Kept
<1>1. /\ chapter.settle # "settled" /\ ~Busy(InProgress) /\ Superseded /\ Len(version) < MaxTexts
      /\ UNCHANGED <<run, orders, best, panel, revision, exec>>
      /\ chapter' = [chapter EXCEPT !.current = Len(version'), !.settle = "unsettled", !.failed = FALSE]
  BY DEF SaveDraft
<1>2. PICK row \in TextRow : version' = Append(version, row)
  <2>1. PICK g \in Grades, c \in Clashes : version' = Register(chapter.current, "owner", g, c)
    BY DEF SaveDraft
  <2>2. g \in AllGrades /\ chapter.current \in Nat
    BY ScenariosAssumption DEF Grades, Inductive, Rows, ChapterRow
  <2> QED
    BY <2>1, <2>2, TextRegistered
<1>3. /\ Len(version) \in Nat /\ version \in Seq(TextRow) /\ DOMAIN version = 1 .. Len(version)
      /\ MaxTexts \in Nat /\ chapter.canon = 0 /\ chapter \in ChapterRow
  BY <1>1, Tables DEF Inductive, Rows, Settled
<1>4. /\ version' \in Seq(TextRow) /\ Len(version') = Len(version) + 1
      /\ \A u \in 1 .. Len(version) : version'[u] = version[u]
  BY <1>2, <1>3
<1>5. TextsKept
  <2>1. \A u \in Texts : version'[u] = version[u] /\ Keeps(version[u], version[u])
    BY <1>3, <1>4, TextFacts DEF Texts
  <2> QED
    BY <1>1, <1>3, <1>4, <2>1 DEF TextsKept
<1>6. ChoicesKept
  BY <1>1, <1>5, ChoicesStay
<1>7. /\ chapter' \in ChapterRow /\ chapter'.canon = chapter.canon /\ chapter'.settle = "unsettled"
      /\ chapter'.current = Len(version')
  <2>1. PICK n \in Nat : n = Len(version')
    BY <1>3, <1>4
  <2>2. chapter' = [chapter EXCEPT !.current = n, !.settle = "unsettled", !.failed = FALSE]
    BY <1>1, <2>1
  <2>3. chapter' \in ChapterRow /\ chapter'.canon = chapter.canon /\ chapter'.settle = "unsettled"
        /\ chapter'.current = n
    BY <1>3, <2>2 DEF ChapterRow
  <2> QED
    BY <2>1, <2>3
<1> QED
  BY <1>1, <1>3, <1>4, <1>5, <1>6, <1>7, EditKeeps

LEMMA AcceptStep ==
  ASSUME Inductive, scenario' = scenario, NEW v \in Texts, Accept(v)
  PROVE  Inductive' /\ Kept
<1>1. /\ gate[v].status = "awaiting" /\ version[v].status = "candidate" /\ revision < MaxRevision
      /\ task[run.task].status = "waiting_confirmation" /\ revision' = revision + 1
      /\ version' = [version EXCEPT ![v].status = "canon"]
      /\ chapter' = [current |-> v, canon |-> v, settle |-> "settled", failed |-> FALSE]
      /\ gate' = [gate EXCEPT ![v].status = "settled", ![v].open = FALSE]
      /\ task' = [task EXCEPT ![run.task].status = "succeeded"]
      /\ UNCHANGED <<run, panel, orders, best, exec>>
  BY DEF Accept, Acceptable
<1>2. /\ run \in RunRow /\ revision \in Nat /\ MaxRevision \in Nat /\ gate \in [1 .. MaxTexts -> GateRow]
      /\ Len(version) \in Nat /\ DOMAIN version = 1 .. Len(version) /\ v \in Nat /\ v <= Len(version) /\ v # 0
      /\ v \in 1 .. MaxTexts /\ version[v] \in TextRow /\ task \in Seq(TaskRow)
      /\ \A t \in DOMAIN task : task[t] \in TaskRow
  BY Tables DEF Inductive, Rows, References, Texts
<1>3. Passed(v)
  BY <1>1, <1>2 DEF Inductive, Checked, Awaiting
<1>4. PICK text \in TextRow : /\ version' = [version EXCEPT ![v] = text] /\ Keeps(version[v], text)
                              /\ text.passed /\ Stands(text)
  <2> DEFINE text == [version[v] EXCEPT !.status = "canon"]
  <2>1. version' = [version EXCEPT ![v] = text]
    BY <1>1, <1>2
  <2>2. text \in TextRow /\ Keeps(version[v], text) /\ text.passed /\ Stands(text)
    <3>1. version[v].status # "rejected"
      BY <1>1
    <3>2. text \in TextRow /\ Keeps(version[v], text) /\ text.status = "canon"
      BY <1>2, <3>1, TextPlaced
    <3> QED
      BY <1>3, <3>2 DEF Keeps, Passed, Stands
  <2> QED
    BY <2>1, <2>2
<1>5. TextsKept /\ Len(version') = Len(version) /\ version'[v] = text
  BY <1>4, TextWritten
<1>6. ChoicesKept
  BY <1>1, <1>5, ChoicesStay
<1>7. /\ chapter' \in ChapterRow /\ chapter'.current = v /\ chapter'.canon = v /\ chapter'.settle = "settled"
  BY <1>1, <1>2 DEF ChapterRow
<1>8. /\ gate' \in [1 .. MaxTexts -> GateRow]
      /\ \A u \in 1 .. MaxTexts : gate'[u].status = "awaiting" => gate[u].status = "awaiting"
  BY <1>1, <1>2 DEF GateRow
<1>9. /\ task' \in Seq(TaskRow) /\ Len(task') = Len(task) /\ DOMAIN task' = DOMAIN task
      /\ \A t \in DOMAIN task : /\ task'[t].bound = task[t].bound /\ task'[t].op = task[t].op
                                /\ task'[t].status \in {task[t].status, "succeeded"}
      /\ run.task \in DOMAIN task => task'[run.task].status = "succeeded"
  <2>1. task' \in [DOMAIN task -> TaskRow]
    BY <1>1, <1>2 DEF TaskRow, TaskStatuses
  <2>2. task' \in Seq(TaskRow) /\ Len(task') = Len(task) /\ DOMAIN task' = DOMAIN task
    BY <1>2, <2>1, SameLength
  <2> QED
    BY <1>1, <1>2, <2>2 DEF TaskRow
<1>10. exec = Idle
  BY <1>1 DEF Inductive, Executing
<1>11. AwaitingHasGate' /\ RequestsAreServed'
  BY <1>1, <1>7, <1>9 DEF AwaitingHasGate, RequestsAreServed
<1>12. \A t \in DOMAIN task : task'[t].bound <= Len(version')
  BY <1>5, <1>9 DEF Inductive, References
<1>13. chapter'.current <= Len(version') /\ chapter'.canon <= Len(version')
       /\ revision' \in Nat /\ revision <= revision' /\ revision' <= MaxRevision
  BY <1>1, <1>2, <1>5, <1>7
<1>14. chapter'.canon # 0 <=> chapter'.settle = "settled"
  BY <1>2, <1>7
<1>15. version'[chapter'.canon].passed /\ Stands(version'[chapter'.canon])
  BY <1>4, <1>5, <1>7
<1>16. run.task \in DOMAIN task => task'[run.task].status \in Over
  BY <1>9 DEF Over
<1>17. TasksStand
  BY <1>9 DEF TasksStand
<1> QED
  BY <1>1, <1>2, <1>5, <1>6, <1>7, <1>8, <1>9, <1>10, <1>11, <1>12, <1>13, <1>14, <1>15, <1>16, <1>17, DecisionKeeps

LEMMA RejectStep ==
  ASSUME Inductive, scenario' = scenario, NEW v \in Texts, Reject(v)
  PROVE  Inductive' /\ Kept
<1> DEFINE t == run.task
           waiting == task[t].status = "waiting_confirmation"
<1>1. /\ gate' = [gate EXCEPT ![v].status = "rejected", ![v].open = FALSE] /\ t = gate[v].task
      /\ chapter' = [chapter EXCEPT !.settle = IF chapter.canon = 0 THEN "unsettled" ELSE @]
      /\ UNCHANGED <<version, best, panel, revision, exec>>
  BY DEF Reject, Refused, Unsettled
<1>2. /\ run \in RunRow /\ revision \in Nat /\ revision <= MaxRevision /\ gate \in [1 .. MaxTexts -> GateRow]
      /\ v \in 1 .. MaxTexts /\ v \in Nat /\ v <= Len(version) /\ task \in Seq(TaskRow)
      /\ chapter \in ChapterRow /\ chapter.current <= Len(version) /\ chapter.canon <= Len(version)
      /\ \A u \in DOMAIN task : task[u] \in TaskRow /\ task[u].bound <= Len(version)
  BY Tables DEF Inductive, Rows, References, Texts
<1>3. /\ gate' \in [1 .. MaxTexts -> GateRow]
      /\ \A u \in 1 .. MaxTexts : gate'[u].status = "awaiting" => gate[u].status = "awaiting"
  BY <1>1, <1>2 DEF GateRow
<1>4. /\ chapter' \in ChapterRow /\ chapter'.current = chapter.current /\ chapter'.canon = chapter.canon
      /\ chapter'.settle = IF chapter.canon = 0 THEN "unsettled" ELSE chapter.settle
  BY <1>1, <1>2 DEF ChapterRow
<1>5. /\ chapter.canon # 0 <=> chapter.settle = "settled"
      /\ chapter.canon # 0 => version[chapter.canon].passed /\ Stands(version[chapter.canon])
  BY DEF Inductive, Settled, Passed
<1>6. AwaitingHasGate'
  BY <1>4, <1>5 DEF AwaitingHasGate
<1>7. TextsKept
  BY <1>1, SameTexts
<1>8. /\ orders' \in {orders, {v}}
      /\ \/ run' = [run EXCEPT !.phase = "rewrite", !.status = "paused", !.gated = FALSE]
            /\ task' = IF ~waiting THEN task
                       ELSE [task EXCEPT ![t] = [@ EXCEPT !.status = "paused",
                               !.op = "rewrite_existing", !.bound = v, !.reviewing = FALSE]]
         \/ /\ run' = run
            /\ task' = IF ~waiting THEN task
                       ELSE [task EXCEPT ![t].status = "blocked", ![t].reviewing = FALSE]
  BY <1>1 DEF Reject
<1>9. ChoicesKept
  BY <1>1, <1>2, <1>8, Tables DEF ChoicesKept, Inductive, Rows, References, Checked, Passed, Texts
<1>10. /\ run' \in RunRow /\ run'.task = run.task /\ run'.text = run.text /\ run'.panel = run.panel
       /\ run'.canon = run.canon /\ run'.epoch = run.epoch
       /\ run'.phase \in {run.phase, "rewrite"}
  BY <1>2, <1>8 DEF RunRow, Phases
<1>11. \/ task' = task
       \/ /\ t \in DOMAIN task /\ waiting
          /\ \E row \in TaskRow : /\ task' = [task EXCEPT ![t] = row] /\ row.bound <= Len(version)
                                  /\ \/ /\ row.op = "rewrite_existing" /\ row.status = "paused"
                                        /\ run'.phase = "rewrite"
                                     \/ /\ row.op = task[t].op /\ row.bound = task[t].bound
                                        /\ row.status = "blocked" /\ run' = run
  <2>1. CASE ~waiting
    BY <1>8, <2>1
  <2>2. CASE t \notin DOMAIN task
    BY <1>2, <1>8, <2>2
  <2>3. CASE t \in DOMAIN task /\ waiting /\ run' = [run EXCEPT !.phase = "rewrite", !.status = "paused", !.gated = FALSE]
             /\ task' = [task EXCEPT ![t] = [@ EXCEPT !.status = "paused",
                               !.op = "rewrite_existing", !.bound = v, !.reviewing = FALSE]]
    <3> DEFINE row == [task[t] EXCEPT !.status = "paused", !.op = "rewrite_existing",
                                      !.bound = v, !.reviewing = FALSE]
    <3>1. task' = [task EXCEPT ![t] = row]
      BY <2>3
    <3>0. task[t] \in TaskRow /\ v \in Nat /\ "paused" \in TaskStatuses /\ "rewrite_existing" \in AllOperations
      BY <1>2, <2>3 DEF TaskStatuses, InProgress, AllOperations
    <3>2. row \in TaskRow /\ row.bound = v /\ row.op = "rewrite_existing" /\ row.status = "paused"
      BY <3>0 DEF TaskRow
    <3>3. run'.phase = "rewrite"
      BY <1>2, <2>3 DEF RunRow
    <3> QED
      BY <1>2, <2>3, <3>1, <3>2, <3>3
  <2>4. CASE t \in DOMAIN task /\ waiting /\ run' = run
             /\ task' = [task EXCEPT ![t].status = "blocked", ![t].reviewing = FALSE]
    <3> DEFINE row == [task[t] EXCEPT !.status = "blocked", !.reviewing = FALSE]
    <3>1. task' = [task EXCEPT ![t] = row]
      BY <2>4
    <3>2. row \in TaskRow /\ row.bound = task[t].bound /\ row.op = task[t].op /\ row.status = "blocked"
      BY <1>2, <2>4 DEF TaskRow, TaskStatuses
    <3> QED
      BY <1>2, <2>4, <3>1, <3>2
  <2> QED
    BY <1>8, <2>1, <2>2, <2>3, <2>4
<1>12. /\ task' \in Seq(TaskRow) /\ Len(task') = Len(task) /\ DOMAIN task' = DOMAIN task
       /\ \A u \in DOMAIN task : task'[u].bound <= Len(version')
  <2>1. CASE task' = task
    BY <1>1, <1>2, <2>1
  <2>2. CASE t \in DOMAIN task /\ \E row \in TaskRow : task' = [task EXCEPT ![t] = row] /\ row.bound <= Len(version)
    BY <1>1, <2>2, TaskWritten
  <2> QED
    BY <1>11, <2>1, <2>2
<1>13. exec # Idle => task'[exec.task].status = "working"
  <2> SUFFICES ASSUME exec # Idle PROVE task'[exec.task].status = "working"
    OBVIOUS
  <2>1. task[exec.task].status = "working" /\ run.task = exec.task
    BY DEF Inductive, Executing
  <2> QED
    BY <1>11, <2>1
<1>14. ASSUME chapter'.settle = "settled", t \in DOMAIN task, task'[t].status \notin Over, task'[t].op \notin Explicit
       PROVE  /\ run.text = 0 /\ run.epoch # "held"
              /\ run'.phase \in {"preflight", "rewrite", "completed"}
  <2>1. chapter.settle = "settled"
    BY <1>4, <1>5, <1>14
  <2>2. task[t].status \notin Over /\ task[t].op \notin Explicit
    BY <1>11, <1>14 DEF Explicit, Over
  <2> QED
    BY <1>10, <1>14, <2>1, <2>2 DEF Inductive, Settled
<1>15. RequestsAreServed'
  <2> SUFFICES ASSUME NEW u \in DOMAIN task', run'.task = u, task'[u].status = "paused",
                      run'.phase = "review", run'.panel # 0
               PROVE  ~panel'[run'.panel].asked
    BY DEF RequestsAreServed
  <2>1. run' = run /\ task' = task
    <3>1. run'.phase # "rewrite"
      OBVIOUS
    <3>2. run' = run
      BY <1>2, <1>8, <3>1 DEF RunRow
    <3> QED
      BY <1>10, <1>11, <3>1, <3>2
  <2> QED
    BY <1>1, <2>1 DEF Inductive, RequestsAreServed
<1>16. TasksStand
  <2>1. CASE task' = task
    BY <2>1 DEF TasksStand
  <2>2. CASE t \in DOMAIN task /\ \E row \in TaskRow :
               /\ task' = [task EXCEPT ![t] = row] /\ row.status \in {"paused", "blocked"}
               /\ \/ row.op = "rewrite_existing" /\ run'.phase = "rewrite"
                  \/ row.op = task[t].op /\ row.bound = task[t].bound
    <3>1. PICK row \in TaskRow :
            /\ task' = [task EXCEPT ![t] = row] /\ row.status \in {"paused", "blocked"}
            /\ \/ row.op = "rewrite_existing" /\ run'.phase = "rewrite"
               \/ row.op = task[t].op /\ row.bound = task[t].bound
      BY <2>2
    <3>2. \A u \in DOMAIN task : u \in DOMAIN task' /\ (u # t => task'[u] = task[u]) /\ task'[t] = row
      BY <2>2, <3>1
    <3> QED
      BY <1>2, <1>10, <2>2, <3>1, <3>2 DEF TasksStand
  <2> QED
    BY <1>11, <2>1, <2>2
<1> QED
  BY <1>1, <1>2, <1>3, <1>4, <1>5, <1>6, <1>7, <1>9, <1>10, <1>12, <1>13, <1>14, <1>15, <1>16, DecisionKeeps

-----------------------------------------------------------------------------
(* The theorems.                                                           *)

LEMMA StutterKeeps ==
  ASSUME Inductive, UNCHANGED vars
  PROVE  Inductive' /\ Kept
<1> USE DEF vars
<1>1. Rows' /\ References'
  BY DEF Inductive, Rows, References, Texts, MaxTexts, MaxTasks, MaxPanels, MaxRevision
<1>2. Executing'
  BY DEF Inductive, Executing, Passed
<1>3. Checked' /\ Settled'
  BY DEF Inductive, Checked, Settled, Awaiting, Passed, Texts
<1>4. AwaitingHasGate' /\ RequestsAreServed'
  BY DEF Inductive, AwaitingHasGate, Awaiting, RequestsAreServed
<1>5. Kept
  BY SameTexts DEF Kept, PanelsKept, TasksStand, RunStands, Inductive, References, texts
<1> QED
  BY <1>1, <1>2, <1>3, <1>4, <1>5 DEF Inductive

LEMMA ExecuteKeeps ==
  ASSUME Inductive, scenario' = scenario, Execute
  PROVE  Inductive' /\ Kept
<1>1. CASE Proceed
  BY <1>1, PreflightStep, PlainFailures, ContextStep, SendStep, DraftAnsweredStep, HardCheckStep,
     OpenPanelStep, ReviewsExhaustedStep, SeatsReportStep, MergeStep, RewriteReceivedStep,
     RewritePromotedStep, FactsStep, SettleStep, CloseStep DEF Proceed
<1>2. CASE Fail
  BY <1>2, PlainFailures, WriterTakenOverStep, CopyrightBlockedStep, SeatsFailStep,
     SynthesisFailsStep, MergeRefusedStep, MergedOnlyStep DEF Fail
<1> QED
  BY <1>1, <1>2 DEF Execute

LEMMA NextKeeps == Inductive /\ [Next]_vars => Inductive' /\ Kept
<1> SUFFICES ASSUME Inductive, [Next]_vars PROVE Inductive' /\ Kept
  OBVIOUS
<1>1. CASE UNCHANGED vars
  BY <1>1, StutterKeeps
<1>2. CASE Execute /\ UNCHANGED scenario
  BY <1>2, ExecuteKeeps
<1>3. CASE Runtime /\ UNCHANGED scenario
  BY <1>3, ClaimStep, ClaimRefusedStep, RecoverStep, OrderOnlyStep, RestoreOnlyStep, StaleThrowsStep,
     OtherChapterRunsStep, OtherChapterSettlesStep DEF Runtime
<1>4. CASE Author /\ UNCHANGED scenario
  BY <1>4, ScheduleStep, RequestStep, AcceptStep, RejectStep, OrderedStep, SaveDraftStep,
     WithdrawStep, AlignOutlineStep DEF Author
<1> QED
  BY <1>1, <1>2, <1>3, <1>4 DEF Next

THEOREM InductiveHolds == Spec => []Inductive
<1> QED
  BY InitHolds, NextKeeps, PTL DEF Spec

\* Every row keeps its type, however many tasks, texts and panels the chapter has; in
\* particular a run buys two rewrites and one change of writer at most, whatever
\* repairs, unchanged answers and requests of the author follow each other.
THEOREM TypeCorrect == Spec => []TypeOK
<1>1. Inductive => TypeOK
  <2> SUFFICES ASSUME Inductive PROVE TypeOK
    OBVIOUS
  <2>1. /\ Len(version) \in Nat /\ DOMAIN version = 1 .. Len(version) /\ Len(panel) \in Nat /\ Len(task) \in Nat
        /\ MaxTexts \in Nat /\ MaxTasks \in Nat /\ MaxPanels \in Nat /\ MaxRevision \in Nat
    BY Tables DEF Inductive
  <2>2. /\ run \in RunRow /\ chapter \in ChapterRow /\ revision \in Nat /\ best \in Nat /\ orders \subseteq Texts
        /\ Len(task) <= MaxTasks /\ Len(version) <= MaxTexts /\ Len(panel) <= MaxPanels
        /\ revision <= MaxRevision /\ run.canon <= revision
        /\ run.task <= Len(task) /\ run.text <= Len(version) /\ run.panel <= Len(panel)
        /\ best <= Len(version) /\ chapter.current <= Len(version) /\ chapter.canon <= Len(version)
    BY DEF Inductive, Rows, References
  <2>3. run.task \in TaskNo /\ run.text \in VersionNo /\ run.panel \in PanelNo /\ run.canon \in 0 .. MaxRevision
    BY <2>1, <2>2 DEF RunRow, TaskNo, VersionNo, PanelNo
  <2>4. run \in [task : TaskNo, text : VersionNo, panel : PanelNo, gated : BOOLEAN,
              status : {"working", "paused", "failed", "completed"},
              phase : {"preflight", "context", "draft", "hard_check", "review", "rewrite",
                       "facts", "settlement", "completed"},
              rewrites : 0 .. 2, taken : 0 .. 1, writer : {"lead", "backup"},
              epoch : {"none", "held", "lost"}, canon : 0 .. MaxRevision]
    BY <2>2, <2>3 DEF RunRow, Phases, Writers
  <2>5. chapter.current \in {0} \cup Texts /\ chapter.canon \in {0} \cup Texts /\ best \in {0} \cup Texts
    BY <2>1, <2>2 DEF ChapterRow, Texts
  <2>6. chapter \in [current : {0} \cup Texts, canon : {0} \cup Texts, failed : BOOLEAN,
                     settle : {"unsettled", "awaiting", "settled"}]
    BY <2>2, <2>5 DEF ChapterRow
  <2> QED
    BY <2>1, <2>2, <2>4, <2>5, <2>6 DEF TypeOK
<1> QED
  BY <1>1, InductiveHolds, PTL

\* A chapter with a canon text is settled, and its canon text passed a check and is rejected
\* only when another check of it failed, while any number of revisions of it are written,
\* refused by the author, restored or failed, by executions that lose their task too, and
\* whatever is settled in the chapters before it.
THEOREM CanonStaysSettled == Spec => []CanonIsSettled
<1>1. Inductive => CanonIsSettled
  BY DEF Inductive, Settled, Stands, FailedCheck, CanonIsSettled
<1> QED
  BY <1>1, InductiveHolds, PTL

\* A chapter that awaits its author has a gate the author can decide: no failure, lost
\* lease, edit or refusal leaves it in awaiting_confirmation with nothing to confirm.
THEOREM AwaitingHasAGate == Spec => []AwaitingHasGate
<1>1. Inductive => AwaitingHasGate
  BY DEF Inductive
<1> QED
  BY <1>1, InductiveHolds, PTL

\* An author who asks for the synthesis never finds the chapter paused for want of the
\* request, in whatever order the request, the last report, the pause, a failure, a
\* lost lease and the next attempt come.
THEOREM RequestsServed == Spec => []RequestsAreServed
<1>1. Inductive => RequestsAreServed
  BY DEF Inductive
<1> QED
  BY <1>1, InductiveHolds, PTL

\* What is offered for acceptance passed every hard check of that text, whatever was
\* restored, retried or handed over before it came to the gate, and while it stands there.
THEOREM OfferedPassed == Spec => [](\A v \in Awaiting : v \in Texts /\ Passed(v))
<1>1. Inductive => \A v \in Awaiting : v \in Texts /\ Passed(v)
  BY DEF Inductive, Checked
<1> QED
  BY <1>1, InductiveHolds, PTL

\* No step loses a text or what its checks found, takes back its rejection, rejects the
\* canon text without a failed check of it on record, makes a panel one of another text or
\* takes its reports or its synthesis back, binds a task to another text unless its run is
\* sent back to rewrite that one, lets a task that is not executed come to await the
\* author, or gives the run to another task without a claim of it: a stale execution that
\* fails, and a process that dies between two writes, included.
RecordsStand ==
  /\ \A v \in Texts : /\ v \in Texts' /\ version'[v].grade = version[v].grade
                      /\ version'[v].author = version[v].author
                      /\ version[v].status = "rejected" => version'[v].status = "rejected"
                      /\ version[v].passed => version'[v].passed
                      /\ version[v].failed => version'[v].failed
  /\ chapter.canon # 0 =>
       \/ version'[chapter.canon].status = "canon"
       \/ version'[chapter.canon].status = "rejected" /\ version'[chapter.canon].failed
  /\ \A p \in DOMAIN panel : /\ p \in DOMAIN panel' /\ panel'[p].text = panel[p].text
                             /\ panel[p].full => panel'[p].full
                             /\ panel[p].merged => panel'[p].merged
  /\ TasksStand /\ RunStands

LEMMA KeptStands == ASSUME Inductive, Kept PROVE RecordsStand
<1>1. Len(version) \in Nat /\ DOMAIN version = 1 .. Len(version)
      /\ Len(panel) \in Nat /\ DOMAIN panel = 1 .. Len(panel)
  BY Tables DEF Inductive
<1>2. /\ version' \in Seq(TextRow) /\ Len(version) <= Len(version')
      /\ panel' \in Seq(PanelRow) /\ Len(panel) <= Len(panel')
  BY DEF Kept, TextsKept, PanelsKept, Grown
<1>3. Len(version') \in Nat /\ DOMAIN version' = 1 .. Len(version')
      /\ Len(panel') \in Nat /\ DOMAIN panel' = 1 .. Len(panel')
  BY <1>2
<1>4. DOMAIN version \subseteq DOMAIN version' /\ DOMAIN panel \subseteq DOMAIN panel'
  BY <1>1, <1>2, <1>3
<1> QED
  BY <1>4 DEF Kept, TextsKept, Keeps, Stands, PanelsKept, Grown, RecordsStand, Texts

THEOREM RecordsAreKept == Spec => [][RecordsStand]_vars
<1>1. Inductive /\ [Next]_vars => RecordsStand
  BY NextKeeps, KeptStands
<1> QED
  BY <1>1, InductiveHolds, PTL DEF Spec
=============================================================================
