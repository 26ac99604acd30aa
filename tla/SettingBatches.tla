---------------------------- MODULE SettingBatches ----------------------------
(***************************************************************************)
(* The setting editorial: batches of setting entries a book's author       *)
(* orders, each entry designed by a screenwriter (several entries by one   *)
(* call where they belong together), reviewed by the chief editor and put  *)
(* before the author.  A batch is executed in the API under a lease of its *)
(* row; there is no worker: the page that polls a batch takes it up again  *)
(* when its lease ran out.                                                 *)
(*                                                                         *)
(* A logical task is what one member is asked about one entry or group; it *)
(* is asked once, and again only as a technical retry of a known failure.  *)
(* Between two awaits the API runs nothing else: a step of a queue that    *)
(* does not await is cut by a crash only (AllAwait).                       *)
(***************************************************************************)
EXTENDS Integers, Sequences, FiniteSetsExt

CONSTANTS
  NumItems,    \* entries of the catalogue
  NumWriters,  \* screenwriters of the roster
  NumBatches,  \* bound on the batches of the book
  NumRuns,     \* bound on the executions of a batch alive at a time
  Scenarios,   \* what a behaviour starts from and what may happen in it
  MaxCrashes   \* bound on restarts of the API

Items == 1 .. NumItems
Writers == 1 .. NumWriters
Batches == 1 .. NumBatches
Runs == 1 .. NumRuns

\* At most three writers try an entry (MAX_HANDOFFS), so that each has a turn.
ASSUME SettingAssumption ==
  /\ NumItems \in Nat /\ NumWriters \in 1 .. 3
  /\ NumBatches \in Nat /\ NumRuns \in Nat /\ MaxCrashes \in Nat
  /\ \A s \in Scenarios : s.designed \subseteq Items /\ s.deputy \subseteq Items

VARIABLES
  item,   \* v7_setting_items: the current version of each entry
  batch,  \* v7_setting_batches
  job,    \* v7_setting_item_jobs, with the outputs stored for each
  call,   \* v7_setting_model_calls by logical task, and what the provider still works on
  run,    \* API memory: the execute() of each batch, a queue of entries per writer
  crashes, \* restarts so far
  scenario \* entries designed before, entries the deputy looks at first, troubles

vars == <<item, batch, job, call, run, crashes, scenario>>

WriterNodes == {"writer", "writer_repair", "group", "group_repair"}
Nodes == WriterNodes \cup {"deputy", "chief", "chief_repair"}
Tasks == [batch : Batches, of : SUBSET Items, node : Nodes, by : 0 .. NumWriters]
NoTask == [batch |-> 0, of |-> {}, node |-> "none", by |-> 0]

NoJob == [state |-> "none", by |-> 0, brief |-> FALSE, proposal |-> NoTask,
          active |-> NoTask, failed |-> NoTask]
Idle == [todo |-> <<>>, at |-> "done", told |-> "ask", left |-> <<>>, past |-> NoTask]
NoRun == [open |-> FALSE, queue |-> [w \in Writers |-> Idle]]

Init ==
  /\ scenario \in Scenarios
  /\ item = [i \in Items |->
       [state |-> IF i \in scenario.designed THEN "candidate" ELSE "none", src |-> NoTask]]
  /\ batch = [b \in Batches |-> [status |-> "none", lease |-> "none", token |-> 0, revision |-> FALSE]]
  /\ job = [b \in Batches |-> [i \in Items |-> NoJob]]
  /\ call = <<>>
  /\ run = [b \in Batches |-> [k \in Runs |-> NoRun]]
  /\ crashes = 0

May(trouble) == trouble \in scenario.troubles

Unfinished(b) == batch[b].status \in {"queued", "working"}
Done(q) == q.at = "done"
Alive(b, k) == run[b][k].open \/ \E w \in Writers : ~Done(run[b][k].queue[w])

\* Every queue awaits a model or is done, and no execution has its end before it.
AllAwait ==
  \A b \in Batches, k \in Runs :
    /\ \A w \in Writers : Done(run[b][k].queue[w]) \/ run[b][k].queue[w].told = "wait"
    /\ run[b][k].open => \E w \in Writers : ~Done(run[b][k].queue[w])
-----------------------------------------------------------------------------
(* What the author does.                                                   *)

Fresh(b) == b = Cardinality({c \in Batches : batch[c].status # "none"}) + 1

Order(b, entries, revision) ==
  /\ Fresh(b)
  /\ batch' = [batch EXCEPT ![b].status = "queued", ![b].revision = revision]
  /\ job' = [job EXCEPT ![b] = [i \in Items |->
       IF i \in entries THEN [NoJob EXCEPT !.state = "queued"] ELSE NoJob]]

\* createBatch: entries that have a version are not designed again.
CreateBatch(b, selected) ==
  /\ AllAwait
  /\ LET entries == {i \in selected : item[i].state = "none"} IN
       entries # {} /\ Order(b, entries, FALSE)
  /\ UNCHANGED <<item, call, run, crashes, scenario>>

\* createItemReviewTask: the author's own text of an entry.  It is stored after the
\* batch was created, and lost when the API dies in between.  Refused while the batch
\* that changed last is unfinished; which one that is, is left open.
CreateReview(b, i) ==
  /\ AllAwait
  /\ item[i].state # "none"
  /\ {c \in Batches : batch[c].status # "none"} = {}
       \/ \E c \in Batches : batch[c].status # "none" /\ ~Unfinished(c)
  /\ \/ Order(b, {i}, TRUE) /\ UNCHANGED <<run, crashes>>
     \/ /\ May("crash") /\ crashes < MaxCrashes /\ crashes' = crashes + 1
        /\ Order(b, {i}, FALSE)
        /\ run' = [c \in Batches |-> [k \in Runs |-> NoRun]]
  /\ UNCHANGED <<item, call, scenario>>

\* retry: refused when a call about an entry has an unknown result, or a failed
\* entry has no failed call.  It does not ask who holds the batch.
UnknownCall(b, i) == \E t \in DOMAIN call : t.batch = b /\ t.of = {i} /\ call[t].state = "unknown"
Retry(b) ==
  /\ AllAwait
  /\ \A i \in Items : ~UnknownCall(b, i)
  /\ LET failed == {i \in Items : job[b][i].state = "failed"} IN
     /\ failed # {} /\ \A i \in failed : job[b][i].failed # NoTask
     /\ job' = [job EXCEPT ![b] = [i \in Items |->
          IF i \in failed THEN [@[i] EXCEPT !.state = "queued"] ELSE @[i]]]
  /\ batch' = [batch EXCEPT ![b].status = "queued"]
  /\ UNCHANGED <<item, call, run, crashes, scenario>>

\* confirm and confirmItem: the current version, and the jobs that made it.
Confirm(i) ==
  /\ AllAwait
  /\ May("author") /\ item[i].state = "candidate"
  /\ item' = [item EXCEPT ![i].state = "confirmed"]
  /\ job' = [b \in Batches |-> [job[b] EXCEPT ![i] =
       IF @.active # NoTask /\ @.active = item[i].src THEN [@ EXCEPT !.state = "confirmed"] ELSE @]]
  /\ UNCHANGED <<batch, call, run, crashes, scenario>>
-----------------------------------------------------------------------------
(* The claim of a batch, and how its entries are dealt to the writers.     *)

\* Entries nobody wrote yet belong together, unless the deputy or the author has a say.
Grouped(b, open) ==
  {i \in open : /\ job[b][i].state # "chief_review" /\ job[b][i].proposal = NoTask
                /\ ~batch[b].revision /\ i \notin scenario.deputy}

\* Numbers in their order.
Ascending(S) ==
  CHOOSE s \in [1 .. Cardinality(S) -> S] : \A m, n \in DOMAIN s : m < n => s[m] < s[n]
Single(i, w) == [of |-> {i}, by |-> w, renews |-> TRUE]
Assigned(b, S) == LET held == {job[b][i].by : i \in S} \ {0} IN IF held = {} THEN 0 ELSE Min(held)

\* settingWorkUnits: one group call for two entries or more, then the others one by one.
Units(b) ==
  LET open == {i \in Items : job[b][i].state \in {"queued", "working", "chief_review"}}
      group == IF Cardinality(Grouped(b, open)) > 1 THEN Grouped(b, open) ELSE {}
      one(i) == Single(i, job[b][i].by)
      apart(S) == LET s == Ascending(S) IN [n \in DOMAIN s |-> one(s[n])]
  IN (IF group = {} THEN apart(Grouped(b, open))
      ELSE <<[of |-> group, by |-> Assigned(b, group), renews |-> TRUE]>>)
     \o apart(open \ Grouped(b, open))

Dealt(b, w) ==
  LET units == Units(b)
      mine == Ascending({n \in DOMAIN units : (n - 1) % NumWriters = w - 1})
  IN [Idle EXCEPT !.at = "pick", !.todo = [n \in DOMAIN mine |-> units[mine[n]]]]

\* Defect: a batch in work is never taken up again, its lease run out or not.
ClaimableWhenQueued(b) == Unfinished(b) /\ batch[b].token = 0

\* claimBatch: a queued batch nobody holds, or one whose lease ran out.
Claimable(b) == Unfinished(b) /\ (batch[b].token = 0 \/ batch[b].lease = "expired")

\* reconcileReclaimedBatch: of a call that was under way nobody knows the result.
Reclaimed(c) == IF c.state = "working" THEN [c EXCEPT !.state = "unknown"] ELSE c

\* start and the head of execute: getBatch of a page that polls, and the requests above.
Claim(b, k) ==
  /\ AllAwait
  /\ Claimable(b)
  /\ ~Alive(b, k) /\ \A j \in 1 .. k - 1 : Alive(b, j)
  /\ batch' = [batch EXCEPT ![b].status = "working", ![b].lease = "live", ![b].token = k]
  /\ call' = IF batch[b].status = "working"
             THEN [t \in DOMAIN call |-> IF t.batch = b THEN Reclaimed(call[t]) ELSE call[t]]
             ELSE call
  /\ run' = [run EXCEPT ![b][k] = [open |-> TRUE, queue |-> [w \in Writers |-> Dealt(b, w)]]]
  /\ UNCHANGED <<item, job, crashes, scenario>>

\* Nobody renewed the lease for fifteen minutes.
LeaseExpires(b) ==
  /\ AllAwait
  /\ batch[b].lease = "live"
  /\ batch' = [batch EXCEPT ![b].lease = "expired"]
  /\ UNCHANGED <<item, job, call, run, crashes, scenario>>

\* The API dies.  What was sent is still with the provider.
Crash ==
  /\ May("crash") /\ crashes < MaxCrashes
  /\ crashes' = crashes + 1
  /\ run' = [b \in Batches |-> [k \in Runs |-> NoRun]]
  /\ UNCHANGED <<item, batch, job, call, scenario>>
-----------------------------------------------------------------------------
(* model: asking a member.                                                 *)

State(t) == IF t \in DOMAIN call THEN call[t].state ELSE "none"
TaskOf(b, q) ==
  [batch |-> b, of |-> Head(q.todo).of, node |-> q.at,
   by |-> IF q.at \in WriterNodes THEN Head(q.left) ELSE 0]

\* A technical retry repeats the task that failed last when the entry was taken up.
TechnicalRetry(t, q) == q.past = t

\* Defect: the request of the task that failed is sent whatever became of it since.
SendsAnyRetry(t, q) == State(t) = "none" \/ TechnicalRetry(t, q)

\* A request is sent when none was made, or when its known failure is retried.
MaySend(t, q) == State(t) = IF TechnicalRetry(t, q) THEN "failed" ELSE "none"

\* Otherwise what is stored answers it, or the error that it must not be repeated.
Stored(t, q) ==
  CASE State(t) \in {"working", "unknown"} -> "unknown"
    [] State(t) \in {"good", "bad"} /\ ~TechnicalRetry(t, q) -> State(t)
    [] OTHER -> "failed"

Tell(b, k, w, answer) == run' = [run EXCEPT ![b][k].queue[w].told = answer]

\* The membership may refuse the request before there is a row for it.
Ask(b, k, w) ==
  LET q == run[b][k].queue[w]
      t == TaskOf(b, q)
  IN /\ q.at \in Nodes /\ q.told = "ask"
     /\ \/ ~MaySend(t, q) /\ Tell(b, k, w, Stored(t, q)) /\ UNCHANGED call
        \/ May("refused") /\ MaySend(t, q) /\ Tell(b, k, w, "failed") /\ UNCHANGED call
        \/ /\ MaySend(t, q) /\ Tell(b, k, w, "wait")
           /\ call' = [u \in DOMAIN call \cup {t} |->
                IF u # t THEN call[u]
                ELSE [state |-> "working", out |-> IF t \in DOMAIN call THEN call[t].out + 1 ELSE 1]]
     /\ UNCHANGED <<item, batch, job, crashes, scenario>>

\* Defect: an answer is recorded whatever the call was declared to be.
RecordedAlways(c, answer) == answer

\* succeedModelCall and failModelCall: only a call that is under way takes an outcome.
Recorded(c, answer) == IF c.state = "working" THEN answer ELSE c.state

\* The provider answers with a usable text, with a malformed one, or with a failure;
\* or nobody knows whether it still works on it.
Answer(b, k, w) ==
  LET q == run[b][k].queue[w]
      t == TaskOf(b, q)
  IN /\ AllAwait /\ q.told = "wait" /\ ~Done(q)
     /\ \E answer \in {"good"} \cup {r \in {"bad", "failed", "unknown"} : May(r)} :
          /\ Tell(b, k, w, answer)
          /\ call' = [call EXCEPT ![t] =
               [state |-> Recorded(@, answer), out |-> IF answer = "unknown" THEN @.out ELSE @.out - 1]]
          /\ job' = IF answer = "failed" /\ call[t].state = "working" /\ Cardinality(t.of) = 1
                    THEN [job EXCEPT ![b] = [i \in Items |->
                           IF i \in t.of THEN [@[i] EXCEPT !.failed = t] ELSE @[i]]]
                    ELSE job
     /\ UNCHANGED <<item, batch, crashes, scenario>>
-----------------------------------------------------------------------------
(* A queue between two awaits.                                             *)

Queue(b, k, w, q) == run' = [run EXCEPT ![b][k].queue[w] = q]
Changed(b, S, f(_)) == [job EXCEPT ![b] = [i \in Items |-> IF i \in S THEN f(@[i]) ELSE @[i]]]

\* markWorking, failJob
MarkWorking(b, S, member) ==
  job' = Changed(b, S, LAMBDA j : [j EXCEPT !.state = "working", !.by = member])
Failed(b, S) == Changed(b, S, LAMBDA j : [j EXCEPT !.state = "failed"])

At(q, node) == [q EXCEPT !.at = node, !.told = "ask"]
NextUnit(q) == [At(q, "pick") EXCEPT !.todo = Tail(@), !.left = <<>>, !.past = NoTask]

\* Defect: the batch ends and keeps its token.
ReleasedWithToken(b, status) == [batch EXCEPT ![b].status = status, ![b].lease = "none"]

\* finishBatch, failBatch
Released(b, status) == [batch EXCEPT ![b].status = status, ![b].lease = "none", ![b].token = 0]

\* The catch of execute: the batch ends, whatever the other queues still do.
Throw(b, k, w) ==
  /\ run' = [run EXCEPT ![b][k].queue[w] = Idle, ![b][k].open = FALSE]
  /\ batch' = IF run[b][k].open /\ batch[b].token = k
              THEN Released(b, "partially_failed") ELSE batch

\* Writers in the order they are tried, from the one who has the entry.
From(first) == <<first>> \o Ascending(Writers \ {first})

\* The author's text and a stored proposal go to the chief (markJobChiefReview), else
\* the first writer is asked.
WriteOrReview(b, k, w, q, i, brief) ==
  LET written == batch[b].revision \/ job[b][i].proposal # NoTask IN
  /\ Queue(b, k, w, At(q, IF written THEN "chief" ELSE "writer"))
  /\ job' = Changed(b, {i}, LAMBDA j :
       IF written THEN [j EXCEPT !.state = "chief_review", !.by = 0, !.active = j.proposal, !.brief = brief]
       ELSE [j EXCEPT !.state = "working", !.by = Head(q.left), !.brief = brief])

\* The head of runJob; the failure to retry is read once, here.
RunJob(b, k, w, q, i, first) ==
  LET p == [q EXCEPT !.past = job[b][i].failed, !.left = From(first)] IN
  IF ~batch[b].revision /\ i \in scenario.deputy /\ ~job[b][i].brief
  THEN Queue(b, k, w, At(p, "deputy")) /\ MarkWorking(b, {i}, 0)
  ELSE WriteOrReview(b, k, w, p, i, job[b][i].brief)

\* The head of runJobGroup.
RunGroup(b, k, w, q, S, first) ==
  Queue(b, k, w, [At(q, "group") EXCEPT !.left = From(first)]) /\ MarkWorking(b, S, first)

\* renewLease before an entry is taken up, but not between those of a group that failed.
Holds(b, k) == batch[b].status = "working" /\ batch[b].token = k

Pick(b, k, w) ==
  LET q == run[b][k].queue[w]
      unit == Head(q.todo)
      first == IF unit.by = 0 THEN w ELSE unit.by
  IN /\ q.at = "pick"
     /\ IF q.todo = <<>> \/ (q.todo # <<>> /\ unit.renews /\ ~Holds(b, k))
        THEN Queue(b, k, w, Idle) /\ UNCHANGED <<batch, job>>
        ELSE \/ /\ batch' = IF unit.renews THEN [batch EXCEPT ![b].lease = "live"] ELSE batch
                /\ IF Cardinality(unit.of) > 1 THEN RunGroup(b, k, w, q, unit.of, first)
                   ELSE \E i \in unit.of : RunJob(b, k, w, q, i, first)
             \/ /\ May("context") \* the confirmed entries do not fit the context
                /\ Throw(b, k, w) /\ UNCHANGED job
     /\ UNCHANGED <<item, call, crashes, scenario>>

\* saveCandidate and markJobNeedsAuthor: the entries have a new version, made by t.
Offer(b, S, t) ==
  /\ item' = [i \in Items |-> IF i \in S THEN [state |-> "candidate", src |-> t] ELSE item[i]]
  /\ job' = Changed(b, S, LAMBDA j :
       [j EXCEPT !.state = "needs_author", !.active = t,
                 !.proposal = IF t.node \in WriterNodes THEN t ELSE @])

\* The deputy's brief helps, and is not waited for.
Deputised(b, k, w, q, i) ==
  /\ q.at = "deputy"
  /\ WriteOrReview(b, k, w, q, i, job[b][i].brief \/ q.told = "good")
  /\ UNCHANGED <<item, batch>>

\* A writer's answer: kept, repaired once, or the entry is handed to the next writer.
Written(b, k, w, q, i, t) ==
  /\ q.at \in {"writer", "writer_repair"}
  /\ CASE q.told = "good" ->
            /\ Queue(b, k, w, At(q, "chief"))
            /\ job' = Changed(b, {i}, LAMBDA j :
                 [j EXCEPT !.state = "chief_review", !.by = 0, !.proposal = t, !.active = t])
       [] q.told = "bad" /\ q.at = "writer" -> Queue(b, k, w, At(q, "writer_repair")) /\ UNCHANGED job
       [] OTHER ->
            IF Len(q.left) > 1
            THEN /\ Queue(b, k, w, [At(q, "writer") EXCEPT !.left = Tail(@)])
                 /\ MarkWorking(b, {i}, q.left[2])
            ELSE Queue(b, k, w, NextUnit(q)) /\ job' = Failed(b, {i})
  /\ UNCHANGED <<item, batch>>

\* The chief's answer: the entry is put before the author, repaired once, or fails.
Reviewed(b, k, w, q, i, t) ==
  /\ q.at \in {"chief", "chief_repair"}
  /\ CASE q.told = "good" -> Queue(b, k, w, NextUnit(q)) /\ Offer(b, {i}, t)
       [] q.told = "bad" /\ q.at = "chief" ->
            Queue(b, k, w, At(q, "chief_repair")) /\ UNCHANGED <<item, job>>
       [] OTHER -> Queue(b, k, w, NextUnit(q)) /\ job' = Failed(b, {i}) /\ UNCHANGED item
  /\ UNCHANGED batch

\* The answer to a group: all entries at once, repaired once, the next writer, and
\* after the last one the entries one by one.
GroupWritten(b, k, w, q, S, t) ==
  /\ q.at \in {"group", "group_repair"}
  /\ CASE q.told = "good" -> Queue(b, k, w, NextUnit(q)) /\ Offer(b, S, t)
       [] q.told = "bad" /\ q.at = "group" ->
            Queue(b, k, w, At(q, "group_repair")) /\ UNCHANGED <<item, job>>
       [] OTHER ->
            /\ UNCHANGED item
            /\ IF Len(q.left) > 1
               THEN /\ Queue(b, k, w, [At(q, "group") EXCEPT !.left = Tail(@)])
                    /\ MarkWorking(b, S, q.left[2])
               ELSE /\ LET s == Ascending(S) IN
                       Queue(b, k, w, [NextUnit(q) EXCEPT !.todo =
                         [n \in DOMAIN s |-> [Single(s[n], q.left[1]) EXCEPT !.renews = FALSE]] \o @])
                    /\ UNCHANGED job
  /\ UNCHANGED batch

\* A result nobody knows stops the queue; the entries of a group are marked failed.
Unclear(b, k, w, q) ==
  /\ Throw(b, k, w)
  /\ job' = IF q.at \in {"group", "group_repair"} THEN Failed(b, Head(q.todo).of) ELSE job
  /\ UNCHANGED item

Proceed(b, k, w) ==
  LET q == run[b][k].queue[w]
      t == TaskOf(b, q)
  IN /\ q.at \in Nodes /\ q.told \in {"good", "bad", "failed", "unknown"}
     /\ IF q.told = "unknown" THEN Unclear(b, k, w, q)
        ELSE \/ GroupWritten(b, k, w, q, t.of, t)
             \/ \E i \in t.of : Deputised(b, k, w, q, i) \/ Written(b, k, w, q, i, t)
                                \/ Reviewed(b, k, w, q, i, t)
     /\ UNCHANGED <<call, crashes, scenario>>

\* The end of execute, when every queue is done.
Finish(b, k) ==
  /\ run[b][k].open /\ \A w \in Writers : Done(run[b][k].queue[w])
  /\ run' = [run EXCEPT ![b][k].open = FALSE]
  /\ batch' = IF batch[b].token # k THEN batch
              ELSE Released(b, IF \E i \in Items : job[b][i].state = "failed"
                               THEN "partially_failed" ELSE "awaiting_author")
  /\ UNCHANGED <<item, job, call, crashes, scenario>>
-----------------------------------------------------------------------------
Poll(b) == \E k \in Runs : Claim(b, k)
Works(b, k, w) == Pick(b, k, w) \/ Ask(b, k, w) \/ Answer(b, k, w) \/ Proceed(b, k, w)

Next ==
  \/ \E b \in Batches :
       \/ \E S \in SUBSET Items : CreateBatch(b, S)
       \/ \E i \in Items : CreateReview(b, i)
       \/ Retry(b) \/ Poll(b) \/ LeaseExpires(b)
       \/ \E k \in Runs : Finish(b, k) \/ \E w \in Writers : Works(b, k, w)
  \/ \E i \in Items : Confirm(i)
  \/ Crash

Spec == Init /\ [][Next]_vars
FairSpec ==
  /\ Spec
  /\ \A b \in Batches :
       /\ WF_vars(Poll(b)) /\ WF_vars(LeaseExpires(b))
       /\ \A k \in Runs : WF_vars(Finish(b, k)) /\ \A w \in Writers : WF_vars(Works(b, k, w))
-----------------------------------------------------------------------------
(* Properties.                                                             *)

TypeOK ==
  /\ \A b \in Batches :
       /\ batch[b].status \in {"none", "queued", "working", "awaiting_author", "partially_failed"}
       /\ batch[b].lease \in {"none", "live", "expired"} /\ batch[b].token \in 0 .. NumRuns
       /\ batch[b].token = 0 <=> batch[b].lease = "none"
       /\ \A i \in Items :
            /\ job[b][i].state \in {"none", "queued", "working", "chief_review",
                                    "needs_author", "failed", "confirmed"}
            /\ job[b][i].by \in 0 .. NumWriters
            /\ {job[b][i].proposal, job[b][i].active, job[b][i].failed} \subseteq Tasks \cup {NoTask}
  /\ DOMAIN call \subseteq Tasks
  /\ \A t \in DOMAIN call : call[t].state \in {"working", "good", "bad", "failed", "unknown"}

\* No request is with the provider twice.
OneRequestPerTask == \A t \in DOMAIN call : call[t].out <= 1

\* What a call came to stays: only a known failure is tried again.
OutcomesStand ==
  [][\A t \in DOMAIN call :
       /\ t \in DOMAIN call'
       /\ call[t].state \in {"good", "bad", "unknown"} => call'[t].state = call[t].state
       /\ call[t].state = "failed" => call'[t].state \in {"failed", "working"}]_vars

\* As long as a page polls it and once the author lets it be, a batch ends: no crash, no
\* lost lease and no entry taken up in vain leaves it in work for ever.
BatchesEnd ==
  <>[][~\E b \in Batches : Retry(b)]_vars => \A b \in Batches : []<>~Unfinished(b)

\* After an interruption, nothing about an entry is sent while a request is unaccounted for.
OneRequestPerItem ==
  \A b \in Batches, i \in Items :
    Cardinality({t \in DOMAIN call : t.batch = b /\ i \in t.of /\ call[t].out > 0}) <= 1
=============================================================================
