----------------------- MODULE SettingBatchesProofs -----------------------
(***************************************************************************)
(* Proofs about the setting editorial, for any entries, writers, batches,  *)
(* executions and troubles: what becomes of its calls, the types of its    *)
(* rows, and how the entries of a batch are dealt to the writers.          *)
(***************************************************************************)
EXTENDS SettingBatches, FiniteSetTheorems, TLAPS

CallStates == {"working", "good", "bad", "failed", "unknown"}

\* Every call has a state and a number of requests with the provider; none is left
\* there when a failure was recorded, and else at most one.
Accounted(c) ==
  /\ c.state \in CallStates /\ c.out \in Int
  /\ c.out <= (IF c.state = "failed" THEN 0 ELSE 1)
CallsAccounted == \A t \in DOMAIN call : Accounted(call[t])

\* How one call may differ after a step.
Stands(c, d) ==
  /\ c.state \in {"good", "bad", "unknown"} => d.state = c.state
  /\ c.state = "failed" => d.state \in {"failed", "working"}

\* A step adds calls, and changes one only to what it may become.
CallsGoOn ==
  \A t \in DOMAIN call :
    t \in DOMAIN call' /\ Stands(call[t], call'[t])

\* A batch taken up again turns the calls under way into calls of unknown result.
LEMMA ClaimStep ==
  ASSUME CallsAccounted, NEW b \in Batches, NEW k \in Runs, Claim(b, k)
  PROVE  CallsAccounted' /\ CallsGoOn
<1>1. CASE call' = call
  BY <1>1 DEF CallsAccounted, Accounted, CallsGoOn, Stands
<1>2. CASE call' = [t \in DOMAIN call |-> IF t.batch = b THEN Reclaimed(call[t]) ELSE call[t]]
  BY <1>2 DEF CallsAccounted, Accounted, CallsGoOn, Stands, Reclaimed, CallStates
<1> QED
  BY <1>1, <1>2 DEF Claim

\* What is sent is new, or the retry of a failure, which has no request out.
LEMMA AskStep ==
  ASSUME CallsAccounted, NEW b \in Batches, NEW k \in Runs, NEW w \in Writers, Ask(b, k, w)
  PROVE  CallsAccounted' /\ CallsGoOn
<1> DEFINE q == run[b][k].queue[w]
           t == TaskOf(b, q)
<1>1. CASE UNCHANGED call
  BY <1>1 DEF CallsAccounted, Accounted, CallsGoOn, Stands
<1>2. CASE /\ MaySend(t, q)
           /\ call' = [u \in DOMAIN call \cup {t} |->
                IF u # t THEN call[u]
                ELSE [state |-> "working", out |-> IF t \in DOMAIN call THEN call[t].out + 1 ELSE 1]]
  <2>1. t \in DOMAIN call => call[t].state = "failed"
    BY <1>2 DEF MaySend, State, CallsAccounted, Accounted, CallStates
  <2>2. /\ DOMAIN call' = DOMAIN call \cup {t}
        /\ \A u \in DOMAIN call \ {t} : call'[u] = call[u]
        /\ call'[t] = [state |-> "working", out |-> IF t \in DOMAIN call THEN call[t].out + 1 ELSE 1]
    BY <1>2
  <2>3. Accounted(call'[t])
    BY <2>1, <2>2 DEF CallsAccounted, Accounted, CallStates
  <2>4. CallsAccounted'
    BY <2>2, <2>3 DEF CallsAccounted, Accounted
  <2>5. CallsGoOn
    BY <2>1, <2>2 DEF CallsGoOn, Stands
  <2> QED
    BY <2>4, <2>5
<1> QED
  BY <1>1, <1>2 DEF Ask

\* An answer is recorded only while the call is under way; it takes its request back.
LEMMA AnswerStep ==
  ASSUME CallsAccounted, NEW b \in Batches, NEW k \in Runs, NEW w \in Writers, Answer(b, k, w)
  PROVE  CallsAccounted' /\ CallsGoOn
<1> DEFINE t == TaskOf(b, run[b][k].queue[w])
<1>1. PICK answer \in {"good", "bad", "failed", "unknown"} :
        call' = [call EXCEPT ![t] = [state |-> Recorded(@, answer),
                                     out |-> IF answer = "unknown" THEN @.out ELSE @.out - 1]]
  BY DEF Answer
<1>2. /\ DOMAIN call' = DOMAIN call
      /\ \A u \in DOMAIN call : u # t => call'[u] = call[u]
      /\ t \in DOMAIN call => call'[t] =
           [state |-> Recorded(call[t], answer),
            out |-> IF answer = "unknown" THEN call[t].out ELSE call[t].out - 1]
  BY <1>1
<1>3. t \in DOMAIN call => Accounted(call'[t]) /\ Stands(call[t], call'[t])
  BY <1>2 DEF CallsAccounted, Accounted, Stands, Recorded, CallStates
<1>4. CallsAccounted'
  BY <1>2, <1>3 DEF CallsAccounted
<1>5. CallsGoOn
  BY <1>2, <1>3 DEF CallsGoOn, Stands
<1> QED
  BY <1>4, <1>5

\* Every step accounts for the calls.
LEMMA NextAccounts == CallsAccounted /\ [Next]_vars => CallsAccounted' /\ CallsGoOn
<1> SUFFICES ASSUME CallsAccounted, [Next]_vars
             PROVE  CallsAccounted' /\ CallsGoOn
  OBVIOUS
<1>1. ASSUME UNCHANGED call PROVE CallsAccounted' /\ CallsGoOn
  BY <1>1 DEF CallsAccounted, Accounted, CallsGoOn, Stands
<1>2. ASSUME NEW b \in Batches,
             \/ \E S \in SUBSET Items : CreateBatch(b, S)
             \/ \E i \in Items : CreateReview(b, i)
             \/ Retry(b) \/ LeaseExpires(b)
      PROVE  CallsAccounted' /\ CallsGoOn
  BY <1>1, <1>2 DEF CreateBatch, CreateReview, Retry, LeaseExpires
<1>3. ASSUME NEW b \in Batches, Poll(b) PROVE CallsAccounted' /\ CallsGoOn
  BY <1>3, ClaimStep DEF Poll
<1>4. ASSUME NEW b \in Batches, NEW k \in Runs, NEW w \in Writers, Works(b, k, w)
      PROVE  CallsAccounted' /\ CallsGoOn
  <2>1. CASE Pick(b, k, w) \/ Proceed(b, k, w)
    BY <2>1, <1>1 DEF Pick, Proceed
  <2> QED
    BY <1>4, <2>1, AskStep, AnswerStep DEF Works
<1>5. ASSUME NEW b \in Batches, NEW k \in Runs, Finish(b, k)
      PROVE  CallsAccounted' /\ CallsGoOn
  BY <1>5, <1>1 DEF Finish
<1>6. ASSUME (\E i \in Items : Confirm(i)) \/ Crash \/ UNCHANGED vars
      PROVE  CallsAccounted' /\ CallsGoOn
  BY <1>6, <1>1 DEF Confirm, Crash, vars
<1> QED
  BY <1>2, <1>3, <1>4, <1>5, <1>6 DEF Next

\* At first there is no call.
LEMMA InitAccounts == Init => CallsAccounted
  BY DEF Init, CallsAccounted

\* No member is asked the same thing twice at a time: whatever restarts, reclaims and
\* retries of a batch do, the provider works on one request of a logical task.
THEOREM OneRequest == Spec => []OneRequestPerTask
<1>1. CallsAccounted => OneRequestPerTask
  BY DEF CallsAccounted, Accounted, OneRequestPerTask
<1> QED
  BY <1>1, InitAccounts, NextAccounts, PTL DEF Spec

\* What a call came to stays, a known failure excepted, which may be tried again: an
\* answer that arrives after its batch was given to another execution changes nothing.
THEOREM OutcomesHold == Spec => OutcomesStand
<1>1. CallsGoOn =>
        \A t \in DOMAIN call :
          /\ t \in DOMAIN call'
          /\ call[t].state \in {"good", "bad", "unknown"} => call'[t].state = call[t].state
          /\ call[t].state = "failed" => call'[t].state \in {"failed", "working"}
  BY DEF CallsGoOn, Stands
<1> QED
  BY <1>1, InitAccounts, NextAccounts, PTL DEF Spec, OutcomesStand
-----------------------------------------------------------------------------
(* Numbers in their order.                                                 *)

\* The numbers of S below x.
Below(S, x) == {y \in S : y < x}

\* The rank of a number in a finite set: no two have the same.
LEMMA RanksDiffer ==
  ASSUME NEW S \in SUBSET Int, IsFiniteSet(S)
  PROVE  /\ \A x \in S : Cardinality(Below(S, x)) + 1 \in 1 .. Cardinality(S)
         /\ \A x, y \in S : x < y => Cardinality(Below(S, x)) < Cardinality(Below(S, y))
<1>1. Cardinality(S) \in Nat
  BY FS_CardinalityType
<1>2. ASSUME NEW x \in S
      PROVE  /\ IsFiniteSet(Below(S, x)) /\ Cardinality(Below(S, x)) \in Nat
             /\ Cardinality(Below(S, x)) < Cardinality(S)
  <2>1. Below(S, x) \in SUBSET S /\ x \notin Below(S, x)
    BY DEF Below
  <2>2. Below(S, x) # S
    BY <2>1
  <2> QED
    BY <1>1, <2>1, <2>2, FS_Subset, FS_CardinalityType
<1>3. ASSUME NEW x \in S, NEW y \in S, x < y
      PROVE  Cardinality(Below(S, x)) < Cardinality(Below(S, y))
  <2>1. x \in Int /\ y \in Int /\ \A z \in S : z \in Int
    OBVIOUS
  <2>2. \A z \in S : z < x => z < y
    BY <1>3, <2>1
  <2>3. Below(S, x) \in SUBSET Below(S, y)
    BY <2>2 DEF Below
  <2>4. x \in Below(S, y) /\ x \notin Below(S, x)
    BY <1>3, <2>1 DEF Below
  <2>5. Below(S, x) # Below(S, y)
    BY <2>4
  <2> QED
    BY <1>2, <2>3, <2>5, FS_Subset
<1> QED
  BY <1>1, <1>2, <1>3

\* A finite set of numbers can be listed in order, each number once.
LEMMA AscendingLists ==
  ASSUME NEW S \in SUBSET Int, IsFiniteSet(S)
  PROVE  /\ Cardinality(S) \in Nat
         /\ Ascending(S) \in [1 .. Cardinality(S) -> S]
         /\ \A m, n \in 1 .. Cardinality(S) : m < n => Ascending(S)[m] < Ascending(S)[n]
<1> DEFINE N == Cardinality(S)
           rank == [x \in S |-> Cardinality(Below(S, x)) + 1]
           list == [n \in 1 .. N |-> CHOOSE x \in S : rank[x] = n]
<1>1. N \in Nat
  BY FS_CardinalityType
<1>2. rank \in [S -> 1 .. N]
  BY RanksDiffer
<1>3. \A x, y \in S : x < y => rank[x] < rank[y]
  <2> SUFFICES ASSUME NEW x \in S, NEW y \in S, x < y
               PROVE  Cardinality(Below(S, x)) + 1 < Cardinality(Below(S, y)) + 1
    OBVIOUS
  <2>1. Cardinality(Below(S, x)) \in Nat /\ Cardinality(Below(S, y)) \in Nat
    <3>1. Below(S, x) \in SUBSET S /\ Below(S, y) \in SUBSET S
      BY DEF Below
    <3> QED
      BY <3>1, FS_Subset, FS_CardinalityType
  <2>2. Cardinality(Below(S, x)) < Cardinality(Below(S, y))
    BY RanksDiffer
  <2> QED
    BY <2>1, <2>2
<1>4. IsFiniteSet(1 .. N) /\ Cardinality(1 .. N) = N
  BY <1>1, FS_Interval
<1> HIDE DEF N, rank
<1>5. rank \in Injection(S, 1 .. N)
  <2>1. ASSUME NEW x \in S, NEW y \in S, rank[x] = rank[y]
        PROVE  x = y
    <3>1. x \in Int /\ y \in Int /\ rank[x] \in Int /\ rank[y] \in Int
      BY <1>1, <1>2
    <3>2. ~(x < y) /\ ~(y < x)
      BY <1>3, <2>1, <3>1
    <3> QED
      BY <3>1, <3>2
  <2> QED
    BY <1>2, <2>1 DEF Injection, IsInjective
<1>6. \A n \in 1 .. N : \E x \in S : rank[x] = n
  <2>1. rank \in Surjection(S, 1 .. N)
    BY <1>4, <1>5, FS_Injection DEF N
  <2> QED
    BY <2>1 DEF Surjection
<1>7. list \in [1 .. N -> S] /\ \A n \in 1 .. N : rank[list[n]] = n
  BY <1>6
<1> HIDE DEF list
<1>8. ASSUME NEW m \in 1 .. N, NEW n \in 1 .. N, m < n
      PROVE  list[m] < list[n]
  <2>1. list[m] \in S /\ list[n] \in S /\ rank[list[m]] = m /\ rank[list[n]] = n
    BY <1>7
  <2>2. m \in Int /\ n \in Int
    BY <1>1
  <2>3. ~(n < m) /\ m # n
    BY <1>8, <2>2
  <2>4. ~(list[n] < list[m]) /\ list[n] # list[m]
    BY <1>3, <2>1, <2>3
  <2>5. list[m] \in Int /\ list[n] \in Int
    BY <2>1
  <2> QED
    BY <2>4, <2>5
<1>9. \E s \in [1 .. N -> S] : \A m, n \in DOMAIN s : m < n => s[m] < s[n]
  BY <1>7, <1>8
<1>10. /\ Ascending(S) \in [1 .. N -> S]
       /\ \A m, n \in DOMAIN Ascending(S) : m < n => Ascending(S)[m] < Ascending(S)[n]
  <2>1. Ascending(S) = CHOOSE s \in [1 .. N -> S] : \A m, n \in DOMAIN s : m < n => s[m] < s[n]
    BY DEF Ascending, N
  <2> QED
    BY <1>9, <2>1
<1> QED
  BY <1>1, <1>10 DEF N

\* As a sequence, it has each number once, and the least of them first.
LEMMA AscendingIs ==
  ASSUME NEW S \in SUBSET Int, IsFiniteSet(S)
  PROVE  /\ Ascending(S) \in Seq(S) /\ DOMAIN Ascending(S) = 1 .. Cardinality(S)
         /\ \A m, n \in DOMAIN Ascending(S) : m # n => Ascending(S)[m] # Ascending(S)[n]
         /\ S # {} => Min(S) \in S
<1> DEFINE N == Cardinality(S)
           s == Ascending(S)
<1>1. /\ N \in Nat /\ s \in [1 .. N -> S]
      /\ \A m, n \in 1 .. N : m < n => s[m] < s[n]
  BY AscendingLists
<1>2. IsFiniteSet(1 .. N) /\ Cardinality(1 .. N) = N
  BY <1>1, FS_Interval
<1>3. S # {} => N # 0
  BY FS_EmptySet
<1> HIDE DEF N, s
<1>4. ASSUME NEW m \in 1 .. N, NEW n \in 1 .. N, m # n
      PROVE  s[m] # s[n]
  <2>1. s[m] \in Int /\ s[n] \in Int
    BY <1>1
  <2>2. CASE m < n
    BY <1>1, <2>1, <2>2
  <2>3. CASE n < m
    BY <1>1, <2>1, <2>3
  <2> QED
    BY <1>4, <2>2, <2>3
<1>5. s \in Surjection(1 .. N, S)
  <2>1. s \in Injection(1 .. N, S)
    BY <1>1, <1>4 DEF Injection, IsInjective
  <2> QED
    BY <1>2, <2>1, FS_Injection DEF N
<1>6. ASSUME S # {}
      PROVE  Min(S) \in S
  <2>1. 1 \in 1 .. N
    BY <1>1, <1>3, <1>6
  <2>2. \A y \in S : s[1] <= y
    <3> TAKE y \in S
    <3>1. PICK n \in 1 .. N : s[n] = y
      BY <1>5 DEF Surjection
    <3>2. s[1] \in S /\ n \in Int /\ (n = 1 \/ 1 < n)
      BY <1>1, <2>1
    <3>3. s[1] \in Int /\ y \in Int
      BY <3>2
    <3> QED
      BY <1>1, <2>1, <3>1, <3>2, <3>3
  <2>3. s[1] \in S
    BY <1>1, <2>1
  <2> QED
    BY <2>2, <2>3 DEF Min
<1> QED
  BY <1>1, <1>4, <1>6 DEF N, s
-----------------------------------------------------------------------------
(* The entries of a queue.                                                 *)

UnitRow == [of : (SUBSET Items) \ {{}}, by : 0 .. NumWriters, renews : BOOLEAN]

\* The entries of a sequence of units, and that none is in two of them.
Held(s) == UNION {s[n].of : n \in DOMAIN s}
Disjoint(s) == \A m, n \in DOMAIN s : m # n => s[m].of \cap s[n].of = {}

\* Units of some entries, each at most once.
Within(s, A) == s \in Seq(UnitRow) /\ Held(s) \subseteq A /\ Disjoint(s)

\* An empty queue has no entry.
LEMMA EmptyWithin == \A A : Within(<<>>, A)
  BY DEF Within, Held, Disjoint

\* Two lists of units about different entries make one.
LEMMA ConcatWithin ==
  ASSUME NEW s, NEW t, NEW A, NEW B, Within(s, A), Within(t, B), A \cap B = {}
  PROVE  Within(s \o t, A \cup B)
<1>1. /\ s \in Seq(UnitRow) /\ t \in Seq(UnitRow) /\ s \o t \in Seq(UnitRow)
      /\ Len(s) \in Nat /\ Len(t) \in Nat
      /\ DOMAIN s = 1 .. Len(s) /\ DOMAIN t = 1 .. Len(t)
      /\ DOMAIN (s \o t) = 1 .. Len(s) + Len(t)
  BY DEF Within
<1>2. ASSUME NEW n \in DOMAIN (s \o t)
      PROVE  \/ n \in DOMAIN s /\ (s \o t)[n] = s[n]
             \/ n - Len(s) \in DOMAIN t /\ (s \o t)[n] = t[n - Len(s)]
  BY <1>1
<1>3. \A n \in DOMAIN s : s[n].of \subseteq A
  BY DEF Within, Held
<1>4. \A n \in DOMAIN t : t[n].of \subseteq B
  BY DEF Within, Held
<1>5. Held(s \o t) \subseteq A \cup B
  BY <1>2, <1>3, <1>4 DEF Held
<1>6. ASSUME NEW m \in DOMAIN (s \o t), NEW n \in DOMAIN (s \o t), m # n
      PROVE  (s \o t)[m].of \cap (s \o t)[n].of = {}
  <2>1. m \in Int /\ n \in Int /\ Len(s) \in Int
    BY <1>1
  <2>2. CASE m \in DOMAIN s /\ n \in DOMAIN s /\ (s \o t)[m] = s[m] /\ (s \o t)[n] = s[n]
    BY <1>6, <2>2 DEF Within, Disjoint
  <2>3. CASE /\ m - Len(s) \in DOMAIN t /\ (s \o t)[m] = t[m - Len(s)]
             /\ n - Len(s) \in DOMAIN t /\ (s \o t)[n] = t[n - Len(s)]
    <3>1. m - Len(s) # n - Len(s)
      BY <1>6, <2>1
    <3> QED
      BY <2>3, <3>1 DEF Within, Disjoint
  <2>4. CASE \/ m \in DOMAIN s /\ (s \o t)[m] = s[m] /\ (s \o t)[n].of \subseteq B
             \/ n \in DOMAIN s /\ (s \o t)[n] = s[n] /\ (s \o t)[m].of \subseteq B
    BY <1>3, <2>4
  <2> QED
    BY <1>2, <1>4, <2>2, <2>3, <2>4
<1> QED
  BY <1>1, <1>5, <1>6 DEF Within, Disjoint

\* The first unit is about none of the entries of the others.
LEMMA TailWithin ==
  ASSUME NEW s, NEW A, Within(s, A), s # <<>>
  PROVE  /\ Head(s) \in UnitRow /\ Head(s).of \subseteq A
         /\ Within(Tail(s), A \ Head(s).of)
<1>1. /\ s \in Seq(UnitRow) /\ Len(s) \in Nat \ {0} /\ DOMAIN s = 1 .. Len(s)
      /\ Head(s) = s[1] /\ 1 \in DOMAIN s
      /\ Tail(s) \in Seq(UnitRow) /\ DOMAIN Tail(s) = 1 .. Len(s) - 1
  BY DEF Within
<1>2. ASSUME NEW n \in DOMAIN Tail(s)
      PROVE  n \in Int /\ n + 1 \in DOMAIN s /\ n + 1 # 1 /\ Tail(s)[n] = s[n + 1]
  BY <1>1
<1>3. Head(s) \in UnitRow /\ Head(s).of \subseteq A
  BY <1>1 DEF Within, Held
<1>4. \A n \in DOMAIN Tail(s) : Tail(s)[n].of \subseteq A \ Head(s).of
  BY <1>1, <1>2 DEF Within, Held, Disjoint
<1>5. ASSUME NEW m \in DOMAIN Tail(s), NEW n \in DOMAIN Tail(s), m # n
      PROVE  Tail(s)[m].of \cap Tail(s)[n].of = {}
  <2>1. m + 1 # n + 1
    BY <1>2, <1>5
  <2> QED
    BY <1>2, <2>1 DEF Within, Disjoint
<1> QED
  BY <1>1, <1>3, <1>4, <1>5 DEF Within, Held, Disjoint
-----------------------------------------------------------------------------
(* How the entries of a batch are dealt.                                   *)

JobRow == [state : {"none", "queued", "working", "chief_review",
                    "needs_author", "failed", "confirmed"},
           by : 0 .. NumWriters, brief : BOOLEAN,
           proposal : Tasks \cup {NoTask}, active : Tasks \cup {NoTask},
           failed : Tasks \cup {NoTask}]
JobsTyped == job \in [Batches -> [Items -> JobRow]]

\* Entries are finitely many numbers.
LEMMA ItemsFinite == \A S \in SUBSET Items : S \subseteq Int /\ IsFiniteSet(S)
<1>1. IsFiniteSet(Items) /\ Items \subseteq Int
  BY SettingAssumption, FS_Interval DEF Items
<1> QED
  BY <1>1, FS_Subset

\* Entries one by one.
LEMMA SinglesWithin ==
  ASSUME NEW S \in SUBSET Items,
         NEW s \in [DOMAIN Ascending(S) -> UnitRow],
         \A n \in DOMAIN s : s[n].of = {Ascending(S)[n]}
  PROVE  Within(s, S)
<1>1. S \in SUBSET Int /\ IsFiniteSet(S)
  BY ItemsFinite
<1>2. /\ Cardinality(S) \in Nat /\ DOMAIN Ascending(S) = 1 .. Cardinality(S)
      /\ \A n \in DOMAIN Ascending(S) : Ascending(S)[n] \in S
      /\ \A m, n \in DOMAIN Ascending(S) : m # n => Ascending(S)[m] # Ascending(S)[n]
  BY <1>1, AscendingLists, AscendingIs
<1>3. s \in Seq(UnitRow)
  BY <1>2
<1> QED
  BY <1>2, <1>3 DEF Within, Held, Disjoint

\* The writer who has an entry of a group.
LEMMA AssignedTyped ==
  ASSUME JobsTyped, NEW b \in Batches, NEW S \in SUBSET Items
  PROVE  Assigned(b, S) \in 0 .. NumWriters
<1> DEFINE held == {job[b][i].by : i \in S} \ {0}
<1>1. held \subseteq 1 .. NumWriters
  <2>1. \A i \in S : job[b][i].by \in 0 .. NumWriters
    BY DEF JobsTyped, JobRow
  <2>2. \A n \in 0 .. NumWriters : n # 0 => n \in 1 .. NumWriters
    BY SettingAssumption
  <2> QED
    BY <2>1, <2>2
<1>2. NumWriters \in Nat /\ IsFiniteSet(1 .. NumWriters) /\ 1 .. NumWriters \subseteq Int
  BY SettingAssumption, FS_Interval
<1>3. held \in SUBSET Int /\ IsFiniteSet(held)
  BY <1>1, <1>2, FS_Subset
<1>4. held # {} => Min(held) \in held
  BY <1>3, AscendingIs
<1>5. Assigned(b, S) = IF held = {} THEN 0 ELSE Min(held)
  BY DEF Assigned
<1> HIDE DEF held
<1>6. 0 \in 0 .. NumWriters /\ \A n \in 1 .. NumWriters : n \in 0 .. NumWriters
  BY <1>2
<1>7. CASE held = {}
  BY <1>5, <1>6, <1>7
<1>8. CASE held # {}
  BY <1>1, <1>4, <1>5, <1>6, <1>8
<1> QED
  BY <1>7, <1>8

\* An entry that is open is in one unit.
LEMMA UnitsWithin ==
  ASSUME JobsTyped, NEW b \in Batches
  PROVE  Within(Units(b), Items)
<1> DEFINE open == {i \in Items : job[b][i].state \in {"queued", "working", "chief_review"}}
           first == Grouped(b, open)
           group == IF Cardinality(first) > 1 THEN first ELSE {}
           one(i) == Single(i, job[b][i].by)
           apart(S) == LET s == Ascending(S) IN [n \in DOMAIN s |-> one(s[n])]
           head == IF group = {} THEN apart(first)
                   ELSE <<[of |-> group, by |-> Assigned(b, group), renews |-> TRUE]>>
<1>1. first \in SUBSET Items /\ open \ first \in SUBSET Items /\ first \subseteq open
  BY DEF Grouped
<1>2. ASSUME NEW S \in SUBSET Items
      PROVE  Within(apart(S), S)
  <2>1. \A n \in DOMAIN Ascending(S) : Ascending(S)[n] \in S
    BY ItemsFinite, AscendingLists, AscendingIs
  <2>2. \A i \in S : one(i) \in UnitRow /\ one(i).of = {i}
    BY DEF Single, UnitRow, JobsTyped, JobRow
  <2> HIDE DEF one
  <2> QED
    BY <2>1, <2>2, SinglesWithin
<1>3. Within(head, first)
  <2>1. CASE group = {}
    BY <1>1, <1>2, <2>1
  <2>2. CASE group # {}
    <3> DEFINE unit == [of |-> group, by |-> Assigned(b, group), renews |-> TRUE]
    <3>1. group = first
      BY <2>2
    <3>2. unit \in UnitRow /\ unit.of = first
      BY <1>1, <2>2, <3>1, AssignedTyped DEF UnitRow
    <3>3. head = <<unit>>
      BY <2>2
    <3> HIDE DEF unit, head, first
    <3>4. <<unit>> \in Seq(UnitRow) /\ DOMAIN <<unit>> = {1} /\ <<unit>>[1] = unit
      BY <3>2
    <3> QED
      BY <3>2, <3>3, <3>4 DEF Within, Held, Disjoint
  <2> QED
    BY <2>1, <2>2
<1>4. Units(b) = head \o apart(open \ first)
  BY DEF Units
<1>5. first \cap (open \ first) = {} /\ first \cup (open \ first) \subseteq Items
  BY <1>1
<1> HIDE DEF head, apart, open, first
<1>6. Within(Units(b), first \cup (open \ first))
  BY <1>1, <1>2, <1>3, <1>4, <1>5, ConcatWithin
<1> QED
  BY <1>5, <1>6 DEF Within

QueueRow == [todo : Seq(UnitRow), at : Nodes \cup {"pick", "done"},
             told : {"ask", "wait", "good", "bad", "failed", "unknown"},
             left : Seq(Writers), past : Tasks \cup {NoTask}]

\* A queue that asks a member works on a unit; where a writer is next, one is left to try.
\* No entry is in the queue twice.
Ready(q) ==
  /\ q.told # "ask" => q.at \in Nodes
  /\ q.at \in Nodes => q.todo # <<>>
  /\ q.at \in WriterNodes \cup {"deputy"} => q.left # <<>>
  /\ Disjoint(q.todo)
QueueOK(q) == q \in QueueRow /\ Ready(q)

\* The units of one writer, and that no other has any of their entries.
LEMMA DealtApart ==
  ASSUME JobsTyped, NEW b \in Batches
  PROVE  /\ \A w \in Writers : QueueOK(Dealt(b, w))
         /\ \A v, w \in Writers : v # w =>
              Held(Dealt(b, v).todo) \cap Held(Dealt(b, w).todo) = {}
<1> DEFINE units == Units(b)
           turn(n) == (n - 1) % NumWriters
           mine(w) == {n \in DOMAIN units : turn(n) = w - 1}
           todo(w) == [n \in DOMAIN Ascending(mine(w)) |-> units[Ascending(mine(w))[n]]]
<1>1. units \in Seq(UnitRow) /\ Disjoint(units)
  BY UnitsWithin DEF Within
<1>2. \A w \in Writers : Dealt(b, w) = [Idle EXCEPT !.at = "pick", !.todo = todo(w)]
  BY DEF Dealt
<1> HIDE DEF units, turn
<1>3. Len(units) \in Nat /\ DOMAIN units = 1 .. Len(units)
  BY <1>1
<1>4. ASSUME NEW w \in Writers
      PROVE  /\ todo(w) \in Seq(UnitRow)
             /\ \A n \in DOMAIN todo(w) :
                  Ascending(mine(w))[n] \in mine(w) /\ todo(w)[n] = units[Ascending(mine(w))[n]]
             /\ \A m, n \in DOMAIN todo(w) : m # n => Ascending(mine(w))[m] # Ascending(mine(w))[n]
  <2>1. mine(w) \in SUBSET (1 .. Len(units)) /\ IsFiniteSet(1 .. Len(units))
    BY <1>3, FS_Interval
  <2>2. mine(w) \in SUBSET Int /\ IsFiniteSet(mine(w))
    BY <1>3, <2>1, FS_Subset
  <2>3. mine(w) \subseteq DOMAIN units
    OBVIOUS
  <2> HIDE DEF mine
  <2>4. /\ Cardinality(mine(w)) \in Nat
        /\ DOMAIN Ascending(mine(w)) = 1 .. Cardinality(mine(w))
        /\ \A n \in DOMAIN Ascending(mine(w)) : Ascending(mine(w))[n] \in mine(w)
        /\ \A m, n \in DOMAIN Ascending(mine(w)) :
             m # n => Ascending(mine(w))[m] # Ascending(mine(w))[n]
    BY <2>2, AscendingLists, AscendingIs
  <2>5. \A n \in DOMAIN units : units[n] \in UnitRow
    BY <1>1
  <2> QED
    BY <2>3, <2>4, <2>5
<1>5. ASSUME NEW w \in Writers
      PROVE  QueueOK(Dealt(b, w)) /\ Dealt(b, w).todo = todo(w)
  <2>1. Disjoint(todo(w))
    <3>1. mine(w) \subseteq DOMAIN units
      OBVIOUS
    <3> HIDE DEF mine, todo
    <3> SUFFICES ASSUME NEW m \in DOMAIN todo(w), NEW n \in DOMAIN todo(w), m # n
                 PROVE  todo(w)[m].of \cap todo(w)[n].of = {}
      BY DEF Disjoint
    <3>2. /\ Ascending(mine(w))[m] \in DOMAIN units /\ todo(w)[m] = units[Ascending(mine(w))[m]]
          /\ Ascending(mine(w))[n] \in DOMAIN units /\ todo(w)[n] = units[Ascending(mine(w))[n]]
          /\ Ascending(mine(w))[m] # Ascending(mine(w))[n]
      BY <1>4, <3>1
    <3> QED
      BY <1>1, <3>2 DEF Disjoint
  <2>2. todo(w) \in Seq(UnitRow)
    BY <1>4
  <2> HIDE DEF todo
  <2>3. Dealt(b, w) = [todo |-> todo(w), at |-> "pick", told |-> "ask", left |-> <<>>, past |-> NoTask]
    BY <1>2 DEF Idle
  <2> QED
    BY <2>1, <2>2, <2>3 DEF QueueOK, QueueRow, Ready, Nodes, WriterNodes
<1>6. ASSUME NEW v \in Writers, NEW w \in Writers, v # w
      PROVE  Held(todo(v)) \cap Held(todo(w)) = {}
  <2>1. v \in Int /\ w \in Int
    BY SettingAssumption DEF Writers
  <2>2. mine(v) \cap mine(w) = {}
    BY <1>6, <2>1
  <2>3. \A m \in mine(v), n \in mine(w) : units[m].of \cap units[n].of = {}
    BY <1>1, <2>2 DEF Disjoint
  <2> HIDE DEF mine, todo
  <2>4. ASSUME NEW m \in DOMAIN todo(v), NEW n \in DOMAIN todo(w)
        PROVE  todo(v)[m].of \cap todo(w)[n].of = {}
    BY <1>4, <2>3
  <2> QED
    BY <2>4 DEF Held
<1> QED
  BY <1>5, <1>6
-----------------------------------------------------------------------------
(* The types, and what one assignment does to them.                        *)

BatchRow == [status : {"none", "queued", "working", "awaiting_author", "partially_failed"},
             lease : {"none", "live", "expired"}, token : 0 .. NumRuns, revision : BOOLEAN]
BatchesTyped ==
  /\ batch \in [Batches -> BatchRow]
  /\ \A b \in Batches : batch[b].token = 0 <=> batch[b].lease = "none"

\* No entry is in two queues of one execution.
Apart(queue) ==
  \A v, w \in Writers : v # w => Held(queue[v].todo) \cap Held(queue[w].todo) = {}

RunRow == [open : BOOLEAN, queue : [Writers -> QueueRow]]
RunsTyped ==
  /\ run \in [Batches -> [Runs -> RunRow]]
  /\ \A b \in Batches, k \in Runs :
       /\ \A w \in Writers : Ready(run[b][k].queue[w])
       /\ Apart(run[b][k].queue)

\* The inductive invariant: the types, with what a queue that works has before it.
Typed == BatchesTyped /\ JobsTyped /\ RunsTyped /\ DOMAIN call \subseteq Tasks

\* A queue that is done has no entry.
LEMMA IdleOK == QueueOK(Idle) /\ Held(Idle.todo) = {}
  BY DEF QueueOK, QueueRow, Ready, Idle, Held, Disjoint, Nodes, WriterNodes

\* After a restart of the API no execution is left.
LEMMA NoRuns ==
  ASSUME run' = [b \in Batches |-> [k \in Runs |-> NoRun]]
  PROVE  RunsTyped'
<1>1. NoRun \in RunRow /\ \A w \in Writers : NoRun.queue[w] = Idle
  BY IdleOK DEF NoRun, RunRow, QueueOK
<1>2. \A b \in Batches, k \in Runs : run'[b][k] = NoRun
  OBVIOUS
<1>3. Apart(NoRun.queue) /\ \A w \in Writers : Ready(NoRun.queue[w])
  BY <1>1, IdleOK DEF Apart, QueueOK
<1> QED
  BY <1>1, <1>2, <1>3 DEF RunsTyped

\* One execution changes, to queues that are ready and apart.
LEMMA RunKeeps ==
  ASSUME RunsTyped, NEW b \in Batches, NEW k \in Runs, NEW e \in RunRow,
         \A w \in Writers : Ready(e.queue[w]), Apart(e.queue),
         run' = [run EXCEPT ![b][k] = e]
  PROVE  RunsTyped'
<1>1. run' \in [Batches -> [Runs -> RunRow]]
  BY DEF RunsTyped
<1>2. \A c \in Batches, j \in Runs : run'[c][j] = IF c = b /\ j = k THEN e ELSE run[c][j]
  BY DEF RunsTyped
<1> QED
  BY <1>1, <1>2 DEF RunsTyped

\* One queue changes, and takes no entry that it did not have.
LEMMA QueueChanges ==
  ASSUME RunsTyped, NEW b \in Batches, NEW k \in Runs, NEW w \in Writers,
         NEW q, QueueOK(q), Held(q.todo) \subseteq Held(run[b][k].queue[w].todo),
         NEW e \in RunRow, e.queue = [run[b][k].queue EXCEPT ![w] = q],
         run' = [run EXCEPT ![b][k] = e]
  PROVE  RunsTyped'
<1> DEFINE old == run[b][k].queue
           new == [old EXCEPT ![w] = q]
<1>1. old \in [Writers -> QueueRow] /\ Apart(old) /\ \A v \in Writers : Ready(old[v])
  BY DEF RunsTyped, RunRow
<1> HIDE DEF old
<1>2. new \in [Writers -> QueueRow] /\ \A v \in Writers : new[v] = IF v = w THEN q ELSE old[v]
  BY <1>1 DEF QueueOK
<1>3. \A v \in Writers : Ready(new[v]) /\ Held(new[v].todo) \subseteq Held(old[v].todo)
  BY <1>1, <1>2 DEF QueueOK, old
<1> HIDE DEF new
<1>4. Apart(new)
  BY <1>1, <1>3 DEF Apart
<1>5. e.queue = new
  BY DEF old, new
<1> QED
  BY <1>3, <1>4, <1>5, RunKeeps

\* An assignment to one queue.
LEMMA QueueKeeps ==
  ASSUME RunsTyped, NEW b \in Batches, NEW k \in Runs, NEW w \in Writers,
         NEW q, QueueOK(q), Held(q.todo) \subseteq Held(run[b][k].queue[w].todo),
         Queue(b, k, w, q)
  PROVE  RunsTyped'
<1>1. run[b][k] \in RunRow
  BY DEF RunsTyped
<1> DEFINE new == [run[b][k].queue EXCEPT ![w] = q]
           e == [run[b][k] EXCEPT !.queue = new]
<1>2. new \in [Writers -> QueueRow]
  BY <1>1 DEF RunRow, QueueOK
<1>3. run' = [run EXCEPT ![b][k] = e]
  BY DEF Queue
<1> HIDE DEF new
<1>4. e \in RunRow /\ e.queue = new
  BY <1>1, <1>2 DEF RunRow
<1> HIDE DEF e
<1> QED
  BY <1>3, <1>4, QueueChanges DEF new

\* An answer to the queue changes none of its entries.
LEMMA TellKeeps ==
  ASSUME RunsTyped, NEW b \in Batches, NEW k \in Runs, NEW w \in Writers,
         NEW answer \in {"ask", "wait", "good", "bad", "failed", "unknown"},
         run[b][k].queue[w].at \in Nodes, Tell(b, k, w, answer)
  PROVE  RunsTyped'
<1> DEFINE old == run[b][k].queue[w]
           q == [old EXCEPT !.told = answer]
<1>1. Queue(b, k, w, q)
  BY DEF Tell, Queue
<1>2. old \in QueueRow /\ Ready(old) /\ old.at \in Nodes
  BY DEF RunsTyped, RunRow
<1> HIDE DEF old
<1>3. q \in QueueRow /\ q.at = old.at /\ q.todo = old.todo /\ q.left = old.left
  BY <1>2 DEF QueueRow
<1> HIDE DEF q
<1>4. QueueOK(q) /\ Held(q.todo) \subseteq Held(old.todo)
  BY <1>2, <1>3 DEF QueueOK, Ready
<1> QED
  BY <1>1, <1>4, QueueKeeps DEF old

\* An assignment to one row of a batch.
LEMMA BatchChanges ==
  ASSUME BatchesTyped, NEW b \in Batches, NEW row \in BatchRow,
         row.token = 0 <=> row.lease = "none",
         batch' = [batch EXCEPT ![b] = row]
  PROVE  BatchesTyped'
  BY DEF BatchesTyped

\* A batch that ends has neither a lease nor a holder.
LEMMA ReleasedTyped ==
  ASSUME BatchesTyped, NEW b \in Batches,
         NEW status \in {"awaiting_author", "partially_failed"},
         batch' = Released(b, status)
  PROVE  BatchesTyped'
<1> DEFINE row == [batch[b] EXCEPT !.status = status, !.lease = "none", !.token = 0]
<1>1. 0 \in 0 .. NumRuns
  BY SettingAssumption
<1>2. row \in BatchRow /\ row.token = 0 /\ row.lease = "none"
  BY <1>1 DEF BatchesTyped, BatchRow
<1>3. batch' = [batch EXCEPT ![b] = row]
  BY DEF Released
<1> HIDE DEF row
<1> QED
  BY <1>2, <1>3, BatchChanges

\* A queue that throws ends its batch, if its execution still holds it.
LEMMA ThrowKeeps ==
  ASSUME RunsTyped, BatchesTyped, NEW b \in Batches, NEW k \in Runs, NEW w \in Writers,
         Throw(b, k, w)
  PROVE  RunsTyped' /\ BatchesTyped'
<1>1. run[b][k] \in RunRow
  BY DEF RunsTyped
<1> DEFINE new == [run[b][k].queue EXCEPT ![w] = Idle]
           mid == [run[b][k] EXCEPT !.queue = new]
           e == [mid EXCEPT !.open = FALSE]
<1>2. run' = [run EXCEPT ![b][k] = e]
  <2>1. run' = [[run EXCEPT ![b][k] = mid] EXCEPT ![b][k].open = FALSE]
    BY DEF Throw
  <2> HIDE DEF mid
  <2> DEFINE f == [run EXCEPT ![b][k] = mid]
  <2>2. run' = [f EXCEPT ![b][k] = [f[b][k] EXCEPT !.open = FALSE]] /\ f[b][k] = mid
    BY <2>1 DEF RunsTyped
  <2>3. run' = [f EXCEPT ![b][k] = e]
    BY <2>2
  <2> HIDE DEF e
  <2> QED
    BY <2>3 DEF RunsTyped
<1>3. RunsTyped'
  <2>1. new \in [Writers -> QueueRow]
    BY <1>1, IdleOK DEF RunRow, QueueOK
  <2> HIDE DEF new
  <2>2. mid \in RunRow /\ mid.queue = new
    BY <1>1, <2>1 DEF RunRow
  <2> HIDE DEF mid
  <2>3. e \in RunRow /\ e.queue = new
    BY <2>2 DEF RunRow
  <2> HIDE DEF e
  <2> QED
    BY <1>2, <2>3, IdleOK, QueueChanges DEF new
<1>4. BatchesTyped'
  <2>1. CASE batch' = Released(b, "partially_failed")
    BY <2>1, ReleasedTyped
  <2>2. CASE batch' = batch
    BY <2>2 DEF BatchesTyped
  <2> QED
    BY <2>1, <2>2 DEF Throw
<1> QED
  BY <1>3, <1>4

\* The job rows of some entries change to rows of their type.
LEMMA JobsChange ==
  ASSUME JobsTyped, NEW b \in Batches, NEW S,
         NEW rows \in [Items -> JobRow],
         job' = [job EXCEPT ![b] = [i \in Items |-> IF i \in S THEN rows[i] ELSE @[i]]]
  PROVE  JobsTyped'
<1>1. [i \in Items |-> IF i \in S THEN rows[i] ELSE job[b][i]] \in [Items -> JobRow]
  BY DEF JobsTyped
<1> QED
  BY <1>1 DEF JobsTyped

\* One row, marked, failed or put before the author.
LEMMA MarkedRow ==
  ASSUME NEW j \in JobRow, NEW member \in 0 .. NumWriters
  PROVE  [j EXCEPT !.state = "working", !.by = member] \in JobRow
  BY DEF JobRow

\* One row of an entry that failed.
LEMMA FailedRow ==
  ASSUME NEW j \in JobRow
  PROVE  [j EXCEPT !.state = "failed"] \in JobRow
  BY DEF JobRow

\* One row of an entry that is put before the author.
LEMMA OfferedRow ==
  ASSUME NEW j \in JobRow, NEW t \in Tasks
  PROVE  [j EXCEPT !.state = "needs_author", !.active = t,
                   !.proposal = IF t.node \in WriterNodes THEN t ELSE @] \in JobRow
<1> DEFINE proposal == IF t.node \in WriterNodes THEN t ELSE j.proposal
<1>1. proposal \in Tasks \cup {NoTask}
  BY DEF JobRow
<1> HIDE DEF proposal
<1>2. [j EXCEPT !.state = "needs_author", !.active = t, !.proposal = proposal] \in JobRow
  BY <1>1 DEF JobRow
<1> QED
  BY <1>2 DEF proposal

\* markWorking for some entries.
LEMMA MarkTyped ==
  ASSUME JobsTyped, NEW b \in Batches, NEW S, NEW member \in 0 .. NumWriters,
         MarkWorking(b, S, member)
  PROVE  JobsTyped'
<1> DEFINE rows == [i \in Items |-> [job[b][i] EXCEPT !.state = "working", !.by = member]]
<1>1. rows \in [Items -> JobRow]
  BY MarkedRow DEF JobsTyped
<1>2. job' = [job EXCEPT ![b] = [i \in Items |-> IF i \in S THEN rows[i] ELSE @[i]]]
  BY DEF MarkWorking, Changed
<1> QED
  BY <1>1, <1>2, JobsChange

\* failJob for some entries.
LEMMA FailedTyped ==
  ASSUME JobsTyped, NEW b \in Batches, NEW S, job' = Failed(b, S)
  PROVE  JobsTyped'
<1> DEFINE rows == [i \in Items |-> [job[b][i] EXCEPT !.state = "failed"]]
<1>1. rows \in [Items -> JobRow]
  BY FailedRow DEF JobsTyped
<1>2. job' = [job EXCEPT ![b] = [i \in Items |-> IF i \in S THEN rows[i] ELSE @[i]]]
  BY DEF Failed, Changed
<1> QED
  BY <1>1, <1>2, JobsChange

\* markJobNeedsAuthor for some entries.
LEMMA OfferTyped ==
  ASSUME JobsTyped, NEW b \in Batches, NEW S, NEW t \in Tasks, Offer(b, S, t)
  PROVE  JobsTyped'
<1> DEFINE rows == [i \in Items |->
             [job[b][i] EXCEPT !.state = "needs_author", !.active = t,
                               !.proposal = IF t.node \in WriterNodes THEN t ELSE @]]
<1>1. rows \in [Items -> JobRow]
  BY OfferedRow DEF JobsTyped
<1>2. job' = [job EXCEPT ![b] = [i \in Items |-> IF i \in S THEN rows[i] ELSE @[i]]]
  BY DEF Offer, Changed
<1> QED
  BY <1>1, <1>2, JobsChange
-----------------------------------------------------------------------------
(* The steps keep the types.                                               *)

\* What a step leaves alone keeps its type.
LEMMA Unmoved ==
  /\ BatchesTyped /\ UNCHANGED batch => BatchesTyped'
  /\ JobsTyped /\ UNCHANGED job => JobsTyped'
  /\ RunsTyped /\ UNCHANGED run => RunsTyped'
<1>1. BatchesTyped /\ UNCHANGED batch => BatchesTyped'
  BY DEF BatchesTyped
<1>2. JobsTyped /\ UNCHANGED job => JobsTyped'
  BY DEF JobsTyped
<1>3. RunsTyped /\ UNCHANGED run => RunsTyped'
  BY DEF RunsTyped
<1> QED
  BY <1>1, <1>2, <1>3

\* A new batch.
LEMMA OrderTyped ==
  ASSUME BatchesTyped, JobsTyped, NEW b \in Batches, NEW entries,
         NEW revision \in BOOLEAN, Order(b, entries, revision)
  PROVE  BatchesTyped' /\ JobsTyped'
<1> DEFINE row == [batch[b] EXCEPT !.status = "queued", !.revision = revision]
           rows == [i \in Items |-> IF i \in entries THEN [NoJob EXCEPT !.state = "queued"] ELSE NoJob]
<1>1. row \in BatchRow /\ (row.token = 0 <=> row.lease = "none")
  BY DEF BatchesTyped, BatchRow
<1>2. batch' = [batch EXCEPT ![b] = row] /\ job' = [job EXCEPT ![b] = rows]
  BY DEF Order
<1>3. NoJob \in JobRow /\ [NoJob EXCEPT !.state = "queued"] \in JobRow
  <2>1. 0 \in 0 .. NumWriters
    BY SettingAssumption
  <2>2. NoJob \in JobRow
    BY <2>1 DEF NoJob, JobRow
  <2>3. \A j \in JobRow : [j EXCEPT !.state = "queued"] \in JobRow
    BY DEF JobRow
  <2> QED
    BY <2>2, <2>3
<1>4. rows \in [Items -> JobRow]
  BY <1>3
<1> HIDE DEF row, rows
<1>5. BatchesTyped'
  BY <1>1, <1>2, BatchChanges
<1> QED
  BY <1>2, <1>4, <1>5 DEF JobsTyped

\* The failed entries of a batch are queued again.
LEMMA RetryTyped ==
  ASSUME Typed, NEW b \in Batches, Retry(b)
  PROVE  Typed'
<1> DEFINE failed == {i \in Items : job[b][i].state = "failed"}
           rows == [i \in Items |-> [job[b][i] EXCEPT !.state = "queued"]]
           row == [batch[b] EXCEPT !.status = "queued"]
<1>1. row \in BatchRow /\ (row.token = 0 <=> row.lease = "none")
  BY DEF Typed, BatchesTyped, BatchRow
<1>2. batch' = [batch EXCEPT ![b] = row]
  BY DEF Retry
<1>3. \A j \in JobRow : [j EXCEPT !.state = "queued"] \in JobRow
  BY DEF JobRow
<1>4. rows \in [Items -> JobRow]
  BY <1>3 DEF Typed, JobsTyped
<1>5. job' = [job EXCEPT ![b] = [i \in Items |-> IF i \in failed THEN rows[i] ELSE @[i]]]
  BY DEF Retry
<1> HIDE DEF row, rows, failed
<1>6. BatchesTyped' /\ JobsTyped'
  BY <1>1, <1>2, <1>4, <1>5, BatchChanges, JobsChange DEF Typed
<1> QED
  BY <1>6, Unmoved DEF Typed, Retry

\* The author confirms a version.
LEMMA ConfirmTyped ==
  ASSUME Typed, NEW i \in Items, Confirm(i)
  PROVE  Typed'
<1> DEFINE rows(b) == [job[b] EXCEPT ![i] =
             IF @.active # NoTask /\ @.active = item[i].src THEN [@ EXCEPT !.state = "confirmed"] ELSE @]
<1>1. \A j \in JobRow : [j EXCEPT !.state = "confirmed"] \in JobRow
  BY DEF JobRow
<1>2. \A b \in Batches : rows(b) \in [Items -> JobRow]
  BY <1>1 DEF Typed, JobsTyped
<1>3. job' = [b \in Batches |-> rows(b)]
  BY DEF Confirm
<1> HIDE DEF rows
<1>4. JobsTyped'
  BY <1>2, <1>3 DEF JobsTyped
<1> QED
  BY <1>4, Unmoved DEF Typed, Confirm

\* A lease that runs out is still held.
LEMMA LeaseExpiresTyped ==
  ASSUME Typed, NEW b \in Batches, LeaseExpires(b)
  PROVE  Typed'
<1> DEFINE row == [batch[b] EXCEPT !.lease = "expired"]
<1>1. row \in BatchRow /\ (row.token = 0 <=> row.lease = "none")
  BY DEF Typed, BatchesTyped, BatchRow, LeaseExpires
<1>2. batch' = [batch EXCEPT ![b] = row]
  BY DEF LeaseExpires
<1> HIDE DEF row
<1> QED
  BY <1>1, <1>2, BatchChanges, Unmoved DEF Typed, LeaseExpires

\* An execution is taken up with its entries dealt anew.
LEMMA ClaimTyped ==
  ASSUME Typed, NEW b \in Batches, NEW k \in Runs, Claim(b, k)
  PROVE  Typed'
<1> DEFINE row == [batch[b] EXCEPT !.status = "working", !.lease = "live", !.token = k]
           e == [open |-> TRUE, queue |-> [w \in Writers |-> Dealt(b, w)]]
<1>1. k \in 0 .. NumRuns /\ k # 0
  BY SettingAssumption DEF Runs
<1>2. row \in BatchRow /\ row.token # 0 /\ row.lease # "none"
  BY <1>1 DEF Typed, BatchesTyped, BatchRow
<1>3. batch' = [batch EXCEPT ![b] = row]
  BY DEF Claim
<1>4. run' = [run EXCEPT ![b][k] = e]
  BY DEF Claim
<1>5. e \in RunRow /\ Apart(e.queue) /\ \A w \in Writers : Ready(e.queue[w])
  <2>1. JobsTyped
    BY DEF Typed
  <2> QED
    BY <2>1, DealtApart DEF RunRow, Apart, QueueOK
<1>6. DOMAIN call' \subseteq Tasks
  BY DEF Claim, Typed
<1> HIDE DEF row, e
<1>7. BatchesTyped' /\ RunsTyped'
  BY <1>2, <1>3, <1>4, <1>5, BatchChanges, RunKeeps DEF Typed
<1> QED
  BY <1>6, <1>7, Unmoved DEF Typed, Claim

\* The end of an execution.
LEMMA FinishTyped ==
  ASSUME Typed, NEW b \in Batches, NEW k \in Runs, Finish(b, k)
  PROVE  Typed'
<1> DEFINE e == [run[b][k] EXCEPT !.open = FALSE]
<1>1. run[b][k] \in RunRow /\ Apart(run[b][k].queue)
      /\ \A w \in Writers : Ready(run[b][k].queue[w])
  BY DEF Typed, RunsTyped
<1>2. run' = [run EXCEPT ![b][k] = e]
  BY DEF Finish
<1>3. e \in RunRow /\ e.queue = run[b][k].queue
  BY <1>1 DEF RunRow
<1> HIDE DEF e
<1>4. RunsTyped'
  BY <1>1, <1>2, <1>3, RunKeeps DEF Typed
<1>5. CASE batch' = batch
  BY <1>4, <1>5, Unmoved DEF Typed, Finish
<1>6. CASE batch' = Released(b, IF \E i \in Items : job[b][i].state = "failed"
                                THEN "partially_failed" ELSE "awaiting_author")
  BY <1>4, <1>6, ReleasedTyped, Unmoved DEF Typed, Finish
<1> QED
  BY <1>5, <1>6 DEF Finish

\* What a queue that asks a member works on, and the task it asks about.
LEMMA Working ==
  ASSUME RunsTyped, NEW b \in Batches, NEW k \in Runs, NEW w \in Writers,
         run[b][k].queue[w].at \in Nodes
  PROVE  LET q == run[b][k].queue[w] IN
         /\ q \in QueueRow /\ Ready(q) /\ q.todo # <<>>
         /\ Head(q.todo) \in UnitRow
         /\ q.at \in WriterNodes \cup {"deputy"} => q.left \in Seq(Writers) /\ Head(q.left) \in Writers
         /\ TaskOf(b, q) \in Tasks /\ TaskOf(b, q).of = Head(q.todo).of
<1> DEFINE q == run[b][k].queue[w]
<1>1. q \in QueueRow /\ Ready(q) /\ q.at \in Nodes
  BY DEF RunsTyped, RunRow
<1> HIDE DEF q
<1>2. q.todo # <<>> /\ q.todo \in Seq(UnitRow)
  BY <1>1 DEF Ready, QueueRow
<1>3. Head(q.todo) \in UnitRow
  BY <1>2
<1>4. q.at \in WriterNodes \cup {"deputy"} => q.left \in Seq(Writers) /\ Head(q.left) \in Writers
  BY <1>1 DEF Ready, QueueRow
<1>5. (IF q.at \in WriterNodes THEN Head(q.left) ELSE 0) \in 0 .. NumWriters
  BY <1>4, SettingAssumption DEF Writers
<1>6. Head(q.todo).of \in SUBSET Items
  BY <1>3 DEF UnitRow
<1>7. TaskOf(b, q) \in Tasks /\ TaskOf(b, q).of = Head(q.todo).of
  BY <1>1, <1>5, <1>6 DEF TaskOf, Tasks
<1> QED
  BY <1>1, <1>2, <1>3, <1>4, <1>7 DEF q

\* A member is asked, or what is stored answers.
LEMMA AskTyped ==
  ASSUME Typed, CallsAccounted, NEW b \in Batches, NEW k \in Runs, NEW w \in Writers, Ask(b, k, w)
  PROVE  Typed'
<1> DEFINE q == run[b][k].queue[w]
           t == TaskOf(b, q)
<1>1. RunsTyped /\ q.at \in Nodes
  BY DEF Typed, Ask
<1>2. t \in Tasks
  BY <1>1, Working
<1>3. Stored(t, q) \in {"good", "bad", "failed", "unknown"}
  <2>1. State(t) \in CallStates \cup {"none"}
    BY DEF State, CallsAccounted, Accounted
  <2> HIDE DEF t, q
  <2> QED
    BY <2>1 DEF Stored, CallStates
<1>4. /\ \E answer \in {"wait", "good", "bad", "failed", "unknown"} : Tell(b, k, w, answer)
      /\ DOMAIN call' \subseteq DOMAIN call \cup {t}
      /\ UNCHANGED <<batch, job>>
  <2> HIDE DEF t
  <2> QED
    BY <1>3 DEF Ask, t
<1>5. RunsTyped'
  BY <1>1, <1>4, TellKeeps
<1> QED
  BY <1>2, <1>4, <1>5, Unmoved DEF Typed

\* The provider answers.
LEMMA AnswerTyped ==
  ASSUME Typed, NEW b \in Batches, NEW k \in Runs, NEW w \in Writers, Answer(b, k, w)
  PROVE  Typed'
<1> DEFINE q == run[b][k].queue[w]
           t == TaskOf(b, q)
           rows == [i \in Items |-> [job[b][i] EXCEPT !.failed = t]]
<1>0. q.at \in Nodes
  BY DEF Typed, RunsTyped, Ready, Answer
<1>1. t \in Tasks
  BY <1>0, Working DEF Typed
<1> HIDE DEF t
<1>2. \A j \in JobRow : [j EXCEPT !.failed = t] \in JobRow
  BY <1>1 DEF JobRow
<1>3. rows \in [Items -> JobRow]
  BY <1>2 DEF Typed, JobsTyped
<1>4. /\ \E answer \in {"good", "bad", "failed", "unknown"} : Tell(b, k, w, answer)
      /\ DOMAIN call' = DOMAIN call /\ UNCHANGED batch
      /\ \/ UNCHANGED job
         \/ job' = [job EXCEPT ![b] = [i \in Items |-> IF i \in t.of THEN rows[i] ELSE @[i]]]
  BY DEF Answer, t
<1> HIDE DEF rows
<1>5. JobsTyped'
  BY <1>3, <1>4, Unmoved, JobsChange DEF Typed
<1>6. RunsTyped'
  BY <1>0, <1>4, TellKeeps DEF Typed
<1> QED
  BY <1>4, <1>5, <1>6, Unmoved DEF Typed
-----------------------------------------------------------------------------
(* The steps of a queue between two awaits.                                *)

\* There is a writer to try.
LEMMA FromTyped ==
  ASSUME NEW first \in Writers
  PROVE  From(first) \in Seq(Writers) /\ From(first) # <<>>
<1> DEFINE S == Writers \ {first}
<1>1. IsFiniteSet(Writers) /\ Writers \subseteq Int
  BY SettingAssumption, FS_Interval DEF Writers
<1>2. S \in SUBSET Int /\ IsFiniteSet(S) /\ S \subseteq Writers
  BY <1>1, FS_Subset
<1> HIDE DEF S
<1>3. Ascending(S) \in Seq(Writers)
  <2>1. Cardinality(S) \in Nat /\ Ascending(S) \in [1 .. Cardinality(S) -> S]
    BY <1>2, AscendingLists
  <2>2. Ascending(S) \in [1 .. Cardinality(S) -> Writers]
    BY <1>2, <2>1
  <2> QED
    BY <2>1, <2>2
<1>4. From(first) = <<first>> \o Ascending(S)
  BY DEF From, S
<1> QED
  BY <1>3, <1>4

\* A queue that asks the next member, and one that is done with a unit.
LEMMA AtOK ==
  ASSUME NEW q, QueueOK(q), q.todo # <<>>, NEW node \in Nodes,
         node \in WriterNodes \cup {"deputy"} => q.left # <<>>
  PROVE  QueueOK(At(q, node)) /\ At(q, node).todo = q.todo
  BY DEF QueueOK, QueueRow, Ready, At, Nodes, WriterNodes

\* A queue that is done with a unit keeps the entries of the others.
LEMMA NextUnitOK ==
  ASSUME NEW q, QueueOK(q), q.todo # <<>>
  PROVE  /\ NextUnit(q).todo = Tail(q.todo) /\ QueueOK(NextUnit(q))
         /\ Held(NextUnit(q).todo) \subseteq Held(q.todo) \ Head(q.todo).of
<1>1. q \in QueueRow /\ Within(q.todo, Held(q.todo))
  BY DEF QueueOK, QueueRow, Ready, Within
<1>2. Within(Tail(q.todo), Held(q.todo) \ Head(q.todo).of)
  BY <1>1, TailWithin
<1> DEFINE pick == At(q, "pick")
           rest == Tail(q.todo)
<1>3. /\ pick \in QueueRow /\ pick.todo = q.todo
      /\ pick.at = "pick" /\ pick.told = "ask"
  BY <1>1 DEF At, QueueRow
<1>4. NextUnit(q) = [pick EXCEPT !.todo = Tail(pick.todo), !.left = <<>>, !.past = NoTask]
  BY DEF NextUnit
<1>5. NextUnit(q) = [pick EXCEPT !.todo = rest, !.left = <<>>, !.past = NoTask]
  BY <1>3, <1>4
<1>6. rest \in Seq(UnitRow) /\ <<>> \in Seq(Writers)
  BY <1>2 DEF Within
<1> HIDE DEF pick, rest
<1>7. /\ NextUnit(q) \in QueueRow /\ NextUnit(q).todo = rest
      /\ NextUnit(q).at = "pick" /\ NextUnit(q).told = "ask"
  BY <1>3, <1>5, <1>6 DEF QueueRow
<1> QED
  BY <1>2, <1>7 DEF rest, QueueOK, Ready, Within, Nodes, WriterNodes

\* An entry goes to the chief or to the writer who is next.
LEMMA WriteOrReviewTyped ==
  ASSUME Typed, NEW b \in Batches, NEW k \in Runs, NEW w \in Writers, NEW i \in Items,
         NEW q, QueueOK(q), q.todo # <<>>, q.left # <<>>,
         Held(q.todo) \subseteq Held(run[b][k].queue[w].todo),
         NEW brief \in BOOLEAN, WriteOrReview(b, k, w, q, i, brief)
  PROVE  RunsTyped' /\ JobsTyped'
<1> DEFINE written == batch[b].revision \/ job[b][i].proposal # NoTask
           node == IF written THEN "chief" ELSE "writer"
           review == [n \in Items |-> [job[b][n] EXCEPT !.state = "chief_review", !.by = 0,
                                         !.active = job[b][n].proposal, !.brief = brief]]
           write == [n \in Items |-> [job[b][n] EXCEPT !.state = "working", !.by = Head(q.left),
                                         !.brief = brief]]
<1>1. node \in Nodes
  BY DEF Nodes, WriterNodes
<1>2. Queue(b, k, w, At(q, node))
  BY DEF WriteOrReview
<1> HIDE DEF node
<1>3. RunsTyped'
  BY <1>1, <1>2, AtOK, QueueKeeps DEF Typed
<1>4. 0 \in 0 .. NumWriters /\ Head(q.left) \in 0 .. NumWriters
  BY SettingAssumption DEF QueueOK, QueueRow, Writers
<1>5. review \in [Items -> JobRow]
  <2>1. \A j \in JobRow : [j EXCEPT !.state = "chief_review", !.by = 0,
                                    !.active = j.proposal, !.brief = brief] \in JobRow
    BY <1>4 DEF JobRow
  <2> QED
    BY <2>1 DEF Typed, JobsTyped
<1>6. write \in [Items -> JobRow]
  <2>1. \A j \in JobRow : [j EXCEPT !.state = "working", !.by = Head(q.left), !.brief = brief] \in JobRow
    BY <1>4 DEF JobRow
  <2> QED
    BY <2>1 DEF Typed, JobsTyped
<1>7. \/ job' = [job EXCEPT ![b] = [n \in Items |-> IF n \in {i} THEN review[n] ELSE @[n]]]
      \/ job' = [job EXCEPT ![b] = [n \in Items |-> IF n \in {i} THEN write[n] ELSE @[n]]]
  <2>1. CASE written
    BY <2>1 DEF WriteOrReview, Changed
  <2>2. CASE ~written
    BY <2>2 DEF WriteOrReview, Changed
  <2> QED
    BY <2>1, <2>2
<1> HIDE DEF review, write
<1>8. JobsTyped'
  BY <1>5, <1>6, <1>7, JobsChange DEF Typed
<1> QED
  BY <1>3, <1>8

\* One entry is taken up.
LEMMA RunJobTyped ==
  ASSUME Typed, NEW b \in Batches, NEW k \in Runs, NEW w \in Writers, NEW i \in Items,
         NEW first \in Writers, run[b][k].queue[w].todo # <<>>,
         run[b][k].queue[w].at = "pick",
         RunJob(b, k, w, run[b][k].queue[w], i, first)
  PROVE  RunsTyped' /\ JobsTyped'
<1> DEFINE q == run[b][k].queue[w]
           p == [q EXCEPT !.past = job[b][i].failed, !.left = From(first)]
<1>1. q \in QueueRow /\ Ready(q) /\ job[b][i] \in JobRow
  BY DEF Typed, RunsTyped, RunRow, JobsTyped
<1>2. From(first) \in Seq(Writers) /\ From(first) # <<>>
  BY FromTyped
<1>3. job[b][i].failed \in Tasks \cup {NoTask} /\ job[b][i].brief \in BOOLEAN
  BY <1>1 DEF JobRow
<1>4. p \in QueueRow /\ p.todo = q.todo /\ p.at = q.at /\ p.told = q.told /\ p.left = From(first)
  BY <1>1, <1>2, <1>3 DEF QueueRow
<1>5. \/ Queue(b, k, w, At(p, "deputy")) /\ MarkWorking(b, {i}, 0)
      \/ WriteOrReview(b, k, w, p, i, job[b][i].brief)
  BY DEF RunJob
<1> HIDE DEF p
<1>6. QueueOK(p) /\ p.todo # <<>> /\ p.left # <<>> /\ Held(p.todo) \subseteq Held(q.todo)
  BY <1>1, <1>2, <1>4 DEF QueueOK, Ready
<1>7. CASE Queue(b, k, w, At(p, "deputy")) /\ MarkWorking(b, {i}, 0)
  <2>1. "deputy" \in Nodes /\ 0 \in 0 .. NumWriters
    BY SettingAssumption DEF Nodes
  <2>2. QueueOK(At(p, "deputy")) /\ At(p, "deputy").todo = p.todo
    BY <1>6, <2>1, AtOK
  <2> QED
    BY <1>6, <1>7, <2>1, <2>2, QueueKeeps, MarkTyped DEF Typed
<1>8. CASE WriteOrReview(b, k, w, p, i, job[b][i].brief)
  BY <1>3, <1>6, <1>8, WriteOrReviewTyped
<1> QED
  BY <1>5, <1>7, <1>8

\* A group is taken up.
LEMMA RunGroupTyped ==
  ASSUME Typed, NEW b \in Batches, NEW k \in Runs, NEW w \in Writers, NEW S,
         NEW first \in Writers, run[b][k].queue[w].todo # <<>>,
         RunGroup(b, k, w, run[b][k].queue[w], S, first)
  PROVE  RunsTyped' /\ JobsTyped'
<1> DEFINE q == run[b][k].queue[w]
           p == [At(q, "group") EXCEPT !.left = From(first)]
<1>1. q \in QueueRow /\ Ready(q)
  BY DEF Typed, RunsTyped, RunRow
<1>2. From(first) \in Seq(Writers) /\ From(first) # <<>>
  BY FromTyped
<1>3. p \in QueueRow /\ p.todo = q.todo /\ p.at = "group" /\ p.left = From(first)
  BY <1>1, <1>2 DEF QueueRow, At, Nodes, WriterNodes
<1>4. Queue(b, k, w, p) /\ MarkWorking(b, S, first)
  BY DEF RunGroup
<1> HIDE DEF p
<1>5. QueueOK(p) /\ Held(p.todo) \subseteq Held(q.todo)
  BY <1>1, <1>2, <1>3 DEF QueueOK, Ready, Nodes, WriterNodes
<1>6. first \in 0 .. NumWriters
  BY SettingAssumption DEF Writers
<1> QED
  BY <1>4, <1>5, <1>6, QueueKeeps, MarkTyped DEF Typed

\* The next unit is taken up, where the execution still holds the batch.
LEMMA PickTyped ==
  ASSUME Typed, NEW b \in Batches, NEW k \in Runs, NEW w \in Writers, Pick(b, k, w)
  PROVE  Typed'
<1> DEFINE q == run[b][k].queue[w]
           unit == Head(q.todo)
           first == IF unit.by = 0 THEN w ELSE unit.by
           row == [batch[b] EXCEPT !.lease = "live"]
<1>1. CASE Queue(b, k, w, Idle) /\ UNCHANGED <<batch, job>>
  <2>1. RunsTyped'
    BY <1>1, IdleOK, QueueKeeps DEF Typed
  <2> QED
    BY <1>1, <2>1, Unmoved DEF Typed, Pick
<1>2. CASE Throw(b, k, w) /\ UNCHANGED job
  <2>1. RunsTyped' /\ BatchesTyped'
    BY <1>2, ThrowKeeps DEF Typed
  <2> QED
    BY <1>2, <2>1, Unmoved DEF Typed, Pick
<1>3. CASE /\ q.todo # <<>> /\ (unit.renews => Holds(b, k))
           /\ batch' = IF unit.renews THEN [batch EXCEPT ![b].lease = "live"] ELSE batch
           /\ IF Cardinality(unit.of) > 1 THEN RunGroup(b, k, w, q, unit.of, first)
              ELSE \E i \in unit.of : RunJob(b, k, w, q, i, first)
  <2>1. q.todo \in Seq(UnitRow) /\ q.at = "pick"
    BY DEF Typed, RunsTyped, RunRow, QueueRow, Pick
  <2>2. unit \in UnitRow
    BY <1>3, <2>1
  <2>3. first \in Writers /\ unit.of \subseteq Items
    BY <2>2, SettingAssumption DEF UnitRow, Writers
  <2>4. RunsTyped' /\ JobsTyped'
    <3> HIDE DEF first
    <3>1. CASE RunGroup(b, k, w, q, unit.of, first)
      BY <1>3, <2>3, <3>1, RunGroupTyped
    <3>2. CASE \E i \in unit.of : RunJob(b, k, w, q, i, first)
      BY <1>3, <2>1, <2>3, <3>2, RunJobTyped
    <3> QED
      BY <1>3, <3>1, <3>2
  <2>5. BatchesTyped'
    <3>1. CASE batch' = batch
      BY <3>1, Unmoved DEF Typed
    <3>2. CASE Holds(b, k) /\ batch' = [batch EXCEPT ![b].lease = "live"]
      <4>1. batch[b] \in BatchRow /\ batch[b].token = k /\ k # 0
        BY <3>2 DEF Typed, BatchesTyped, Holds, Runs
      <4>2. row \in BatchRow /\ row.token # 0 /\ row.lease # "none"
        BY <4>1 DEF BatchRow
      <4>3. batch' = [batch EXCEPT ![b] = row]
        BY <3>2
      <4> HIDE DEF row
      <4> QED
        BY <4>2, <4>3, BatchChanges DEF Typed
    <3> QED
      BY <1>3, <3>1, <3>2
  <2> QED
    BY <2>4, <2>5 DEF Typed, Pick
<1> QED
  BY <1>1, <1>2, <1>3 DEF Pick

\* A queue in its place.
LEMMA QueueIsOK ==
  ASSUME RunsTyped, NEW b \in Batches, NEW k \in Runs, NEW w \in Writers
  PROVE  QueueOK(run[b][k].queue[w])
  BY DEF RunsTyped, RunRow, QueueOK

\* A list of writers with one, and with another after him.
LEMMA WritersLeft ==
  ASSUME NEW s \in Seq(Writers)
  PROVE  /\ s # <<>> => s[1] \in Writers
         /\ Len(s) > 1 => Tail(s) \in Seq(Writers) /\ Tail(s) # <<>> /\ s[2] \in Writers
<1>1. Len(s) \in Nat /\ s \in [1 .. Len(s) -> Writers]
  OBVIOUS
<1>2. ASSUME s # <<>> PROVE s[1] \in Writers
  <2>1. Len(s) # 0
    BY <1>2
  <2> QED
    BY <1>1, <2>1
<1>3. ASSUME Len(s) > 1 PROVE Tail(s) \in Seq(Writers) /\ Tail(s) # <<>> /\ s[2] \in Writers
  <2>1. s # <<>> /\ 2 \in 1 .. Len(s)
    BY <1>1, <1>3
  <2>2. Tail(s) \in Seq(Writers) /\ Len(Tail(s)) = Len(s) - 1
    BY <2>1
  <2>3. Tail(s) # <<>>
    <3>1. Len(s) - 1 # 0
      BY <1>1, <1>3
    <3>2. Len(<<>>) = 0
      OBVIOUS
    <3> QED
      BY <2>2, <3>1, <3>2
  <2>4. s[2] \in Writers
    BY <1>1, <2>1
  <2> QED
    BY <2>2, <2>3, <2>4
<1> QED
  BY <1>2, <1>3

\* The unit of one entry of a group that was taken apart.
LEMMA SingleTyped ==
  ASSUME NEW i \in Items, NEW w \in Writers
  PROVE  /\ [Single(i, w) EXCEPT !.renews = FALSE] \in UnitRow
         /\ [Single(i, w) EXCEPT !.renews = FALSE].of = {i}
<1>1. w \in 0 .. NumWriters
  BY SettingAssumption DEF Writers
<1>2. Single(i, w) \in UnitRow /\ Single(i, w).of = {i}
  BY <1>1 DEF Single, UnitRow
<1> HIDE DEF Single
<1> QED
  BY <1>2 DEF UnitRow

\* The queue stays with its unit and asks again.
LEMMA AsksAgain ==
  ASSUME Typed, NEW b \in Batches, NEW k \in Runs, NEW w \in Writers,
         run[b][k].queue[w].at \in Nodes, NEW node \in Nodes,
         node \in WriterNodes \cup {"deputy"} => run[b][k].queue[w].at \in WriterNodes,
         Queue(b, k, w, At(run[b][k].queue[w], node))
  PROVE  RunsTyped'
<1> DEFINE q == run[b][k].queue[w]
<1>1. QueueOK(q)
  BY DEF Typed, RunsTyped, RunRow, QueueOK
<1>2. q.todo # <<>> /\ (node \in WriterNodes \cup {"deputy"} => q.left # <<>>)
  BY <1>1 DEF QueueOK, Ready
<1> HIDE DEF q
<1>3. QueueOK(At(q, node)) /\ At(q, node).todo = q.todo
  BY <1>1, <1>2, AtOK
<1> QED
  BY <1>3, QueueKeeps DEF q, Typed

\* A queue hands its unit to the writer after the one who failed.
LEMMA NextWriter ==
  ASSUME Typed, NEW b \in Batches, NEW k \in Runs, NEW w \in Writers,
         run[b][k].queue[w].at \in Nodes, NEW node \in WriterNodes,
         Len(run[b][k].queue[w].left) > 1,
         Queue(b, k, w, [At(run[b][k].queue[w], node) EXCEPT !.left = Tail(@)])
  PROVE  RunsTyped' /\ run[b][k].queue[w].left[2] \in 0 .. NumWriters
<1> DEFINE q == run[b][k].queue[w]
           at == At(q, node)
           rest == Tail(q.left)
           p == [at EXCEPT !.left = rest]
<1>1. q \in QueueRow /\ Ready(q) /\ q.todo # <<>> /\ node \in Nodes /\ node # "pick"
  BY DEF Typed, RunsTyped, RunRow, Ready, Nodes, WriterNodes
<1>2. Len(q.left) > 1 /\ q.left \in Seq(Writers)
  BY <1>1 DEF QueueRow
<1>3. rest \in Seq(Writers) /\ rest # <<>> /\ q.left[2] \in Writers
  BY <1>2, WritersLeft
<1>4. Queue(b, k, w, [at EXCEPT !.left = Tail(at.left)])
  BY DEF Queue
<1> HIDE DEF q
<1>5. at \in QueueRow /\ at.left = q.left /\ at.todo = q.todo /\ at.at = node /\ at.told = "ask"
  BY <1>1 DEF At, QueueRow
<1>6. Queue(b, k, w, p)
  BY <1>4, <1>5
<1> HIDE DEF at, rest
<1>7. p \in QueueRow /\ p.todo = q.todo /\ p.at = node /\ p.left = rest
  BY <1>3, <1>5 DEF QueueRow
<1> HIDE DEF p
<1>8. QueueOK(p)
  BY <1>1, <1>3, <1>7 DEF QueueOK, Ready
<1>9. RunsTyped'
  BY <1>6, <1>7, <1>8, QueueKeeps DEF q, Typed
<1> QED
  BY <1>3, <1>9, SettingAssumption DEF q, Writers

\* The queue goes on to its next unit.
LEMMA UnitDone ==
  ASSUME Typed, NEW b \in Batches, NEW k \in Runs, NEW w \in Writers,
         run[b][k].queue[w].at \in Nodes,
         Queue(b, k, w, NextUnit(run[b][k].queue[w]))
  PROVE  RunsTyped'
<1> DEFINE q == run[b][k].queue[w]
<1>1. QueueOK(q) /\ q.todo # <<>>
  BY DEF Typed, RunsTyped, RunRow, QueueOK, Ready
<1> HIDE DEF q
<1>2. QueueOK(NextUnit(q)) /\ Held(NextUnit(q).todo) \subseteq Held(q.todo)
  BY <1>1, NextUnitOK
<1> QED
  BY <1>2, QueueKeeps DEF q, Typed

\* The entries of a group that no writer completed are tried one by one, before the
\* other units of the queue.
LEMMA GroupSplit ==
  ASSUME Typed, NEW b \in Batches, NEW k \in Runs, NEW w \in Writers,
         run[b][k].queue[w].at \in WriterNodes,
         LET q == run[b][k].queue[w]
             s == Ascending(Head(q.todo).of)
         IN Queue(b, k, w, [NextUnit(q) EXCEPT !.todo =
              [n \in DOMAIN s |-> [Single(s[n], q.left[1]) EXCEPT !.renews = FALSE]] \o @])
  PROVE  RunsTyped'
<1> DEFINE q == run[b][k].queue[w]
           S == Head(q.todo).of
           s == Ascending(S)
           one == [n \in DOMAIN s |-> [Single(s[n], q.left[1]) EXCEPT !.renews = FALSE]]
           next == NextUnit(q)
           todo == one \o next.todo
           p == [next EXCEPT !.todo = todo]
<1>1. QueueOK(q) /\ q.todo # <<>> /\ q.left \in Seq(Writers) /\ q.left # <<>>
  <2>1. QueueOK(q)
    BY QueueIsOK DEF Typed
  <2>2. q.at \in WriterNodes
    OBVIOUS
  <2> HIDE DEF q, p, todo, one, next
  <2> QED
    BY <2>1, <2>2 DEF QueueOK, QueueRow, Ready, Nodes
<1>2. Queue(b, k, w, p)
  OBVIOUS
<1> HIDE DEF q, p, todo, one
<1>3. Within(q.todo, Held(q.todo))
  BY <1>1 DEF QueueOK, QueueRow, Ready, Within
<1>4. S \in SUBSET Items /\ S \subseteq Held(q.todo)
  BY <1>1, <1>3, TailWithin DEF UnitRow
<1>5. Within(next.todo, Held(q.todo) \ S)
  <2>1. next.todo = Tail(q.todo)
    BY <1>1, NextUnitOK
  <2>2. Within(Tail(q.todo), Held(q.todo) \ S)
    BY <1>1, <1>3, TailWithin
  <2> QED
    BY <2>1, <2>2
<1>6. QueueOK(next) /\ next.at = "pick" /\ next.told = "ask"
  <2>1. next.at = "pick" /\ next.told = "ask"
    BY <1>1 DEF NextUnit, At, QueueOK, QueueRow
  <2> QED
    BY <1>1, <2>1, NextUnitOK
<1> HIDE DEF next, S
<1>7. Within(one, S)
  <2>1. q.left[1] \in Writers
    BY <1>1, WritersLeft
  <2>2. \A n \in DOMAIN s : s[n] \in S
    <3>1. S \in SUBSET Int /\ IsFiniteSet(S)
      BY <1>4, ItemsFinite
    <3>2. s \in [1 .. Cardinality(S) -> S]
      BY <3>1, AscendingLists
    <3> QED
      BY <3>2
  <2>3. \A i \in S : /\ [Single(i, q.left[1]) EXCEPT !.renews = FALSE] \in UnitRow
                     /\ [Single(i, q.left[1]) EXCEPT !.renews = FALSE].of = {i}
    BY <1>4, <2>1, SingleTyped
  <2>4. one \in [DOMAIN s -> UnitRow] /\ \A n \in DOMAIN one : one[n].of = {s[n]}
    BY <2>2, <2>3 DEF one
  <2> QED
    BY <1>4, <2>4, SinglesWithin
<1>8. Within(todo, S \cup (Held(q.todo) \ S))
  BY <1>5, <1>7, ConcatWithin DEF todo
<1>9. p \in QueueRow /\ p.todo = todo /\ p.at = "pick" /\ p.told = "ask"
  BY <1>6, <1>8 DEF p, QueueOK, QueueRow, Within
<1>10. QueueOK(p) /\ Held(p.todo) \subseteq Held(q.todo)
  BY <1>4, <1>8, <1>9 DEF QueueOK, Ready, Within, Nodes, WriterNodes
<1> QED
  BY <1>2, <1>10, QueueKeeps DEF q, Typed

\* What follows an answer: about one entry.
LEMMA EntryProceeds ==
  ASSUME Typed, NEW b \in Batches, NEW k \in Runs, NEW w \in Writers,
         run[b][k].queue[w].at \in Nodes,
         NEW i \in TaskOf(b, run[b][k].queue[w]).of,
         LET q == run[b][k].queue[w]
             t == TaskOf(b, q)
         IN Deputised(b, k, w, q, i) \/ Written(b, k, w, q, i, t) \/ Reviewed(b, k, w, q, i, t)
  PROVE  RunsTyped' /\ JobsTyped' /\ UNCHANGED batch
<1> DEFINE q == run[b][k].queue[w]
           t == TaskOf(b, q)
<1>1. QueueOK(q) /\ q.todo # <<>> /\ t \in Tasks /\ i \in Items
  <2>1. t \in Tasks /\ t.of = Head(q.todo).of /\ Head(q.todo) \in UnitRow /\ q.todo # <<>>
    BY Working DEF Typed
  <2>2. i \in Items
    BY <2>1 DEF UnitRow
  <2> QED
    BY <2>1, <2>2, QueueIsOK DEF Typed
<1>2. CASE Deputised(b, k, w, q, i)
  <2>1. q.at = "deputy" /\ q.left # <<>>
    BY <1>1, <1>2 DEF Deputised, QueueOK, Ready
  <2>2. /\ WriteOrReview(b, k, w, q, i, job[b][i].brief \/ q.told = "good")
        /\ UNCHANGED batch
    BY <1>2 DEF Deputised
  <2>3. (job[b][i].brief \/ q.told = "good") \in BOOLEAN
    OBVIOUS
  <2> HIDE DEF q
  <2> QED
    BY <1>1, <2>1, <2>2, <2>3, WriteOrReviewTyped DEF q
<1>3. CASE Written(b, k, w, q, i, t)
  <2> HIDE DEF t
  <2>1. q.at \in {"writer", "writer_repair"} /\ q.at \in WriterNodes /\ UNCHANGED batch
    BY <1>3 DEF Written, WriterNodes
  <2>2. CASE /\ Queue(b, k, w, At(q, "chief"))
             /\ job' = Changed(b, {i}, LAMBDA j :
                  [j EXCEPT !.state = "chief_review", !.by = 0, !.proposal = t, !.active = t])
    <3> DEFINE rows == [n \in Items |-> [job[b][n] EXCEPT !.state = "chief_review", !.by = 0,
                                                          !.proposal = t, !.active = t]]
    <3>1. RunsTyped'
      BY <2>2, AsksAgain DEF Nodes, WriterNodes
    <3>2. \A j \in JobRow : [j EXCEPT !.state = "chief_review", !.by = 0,
                                      !.proposal = t, !.active = t] \in JobRow
      <4>1. 0 \in 0 .. NumWriters /\ t \in Tasks
        BY <1>1, SettingAssumption
      <4> QED
        BY <4>1 DEF JobRow
    <3>3. rows \in [Items -> JobRow]
      BY <3>2 DEF Typed, JobsTyped
    <3>4. job' = [job EXCEPT ![b] = [n \in Items |-> IF n \in {i} THEN rows[n] ELSE @[n]]]
      BY <2>2 DEF Changed
    <3> HIDE DEF rows
    <3> QED
      BY <2>1, <3>1, <3>3, <3>4, JobsChange DEF Typed
  <2>3. CASE Queue(b, k, w, At(q, "writer_repair")) /\ UNCHANGED job
    <3>1. RunsTyped'
      BY <2>1, <2>3, AsksAgain DEF Nodes, WriterNodes
    <3> QED
      BY <2>1, <2>3, <3>1, Unmoved DEF Typed
  <2>4. CASE /\ Len(q.left) > 1
             /\ Queue(b, k, w, [At(q, "writer") EXCEPT !.left = Tail(@)])
             /\ MarkWorking(b, {i}, q.left[2])
    <3>1. "writer" \in WriterNodes
      BY DEF WriterNodes
    <3>2. RunsTyped' /\ q.left[2] \in 0 .. NumWriters
      BY <2>4, <3>1, NextWriter
    <3> QED
      BY <2>1, <2>4, <3>2, MarkTyped DEF Typed
  <2>5. CASE Queue(b, k, w, NextUnit(q)) /\ job' = Failed(b, {i})
    <3>1. RunsTyped'
      BY <2>5, UnitDone
    <3> QED
      BY <2>1, <2>5, <3>1, FailedTyped DEF Typed
  <2> HIDE DEF q
  <2> QED
    BY <1>3, <2>2, <2>3, <2>4, <2>5 DEF Written
<1>4. CASE Reviewed(b, k, w, q, i, t)
  <2> HIDE DEF t
  <2>1. UNCHANGED batch
    BY <1>4 DEF Reviewed
  <2>2. CASE Queue(b, k, w, NextUnit(q)) /\ Offer(b, {i}, t)
    <3>1. RunsTyped'
      BY <2>2, UnitDone
    <3> QED
      BY <1>1, <2>1, <2>2, <3>1, OfferTyped DEF Typed
  <2>3. CASE Queue(b, k, w, At(q, "chief_repair")) /\ UNCHANGED job
    <3>1. RunsTyped'
      BY <2>3, AsksAgain DEF Nodes, WriterNodes
    <3> QED
      BY <2>1, <2>3, <3>1, Unmoved DEF Typed
  <2>4. CASE Queue(b, k, w, NextUnit(q)) /\ job' = Failed(b, {i})
    <3>1. RunsTyped'
      BY <2>4, UnitDone
    <3> QED
      BY <2>1, <2>4, <3>1, FailedTyped DEF Typed
  <2> HIDE DEF q
  <2> QED
    BY <1>4, <2>2, <2>3, <2>4 DEF Reviewed
<1> QED
  BY <1>2, <1>3, <1>4

\* What follows an answer about a group.
LEMMA GroupProceeds ==
  ASSUME Typed, NEW b \in Batches, NEW k \in Runs, NEW w \in Writers,
         run[b][k].queue[w].at \in Nodes,
         LET q == run[b][k].queue[w]
             t == TaskOf(b, q)
         IN GroupWritten(b, k, w, q, t.of, t)
  PROVE  RunsTyped' /\ JobsTyped' /\ UNCHANGED batch
<1> DEFINE q == run[b][k].queue[w]
           t == TaskOf(b, q)
           s == Ascending(t.of)
           parts == [NextUnit(q) EXCEPT !.todo =
                      [n \in DOMAIN s |-> [Single(s[n], q.left[1]) EXCEPT !.renews = FALSE]] \o @]
<1>1. t \in Tasks /\ t.of = Head(q.todo).of
  BY Working DEF Typed
<1>2. q.at \in WriterNodes /\ UNCHANGED batch
  BY DEF GroupWritten, WriterNodes
<1>3. CASE Queue(b, k, w, NextUnit(q)) /\ Offer(b, t.of, t)
  <2>1. RunsTyped'
    BY <1>3, UnitDone
  <2> QED
    BY <1>1, <1>2, <1>3, <2>1, OfferTyped DEF Typed
<1>4. CASE Queue(b, k, w, At(q, "group_repair")) /\ UNCHANGED job
  <2>1. RunsTyped'
    BY <1>2, <1>4, AsksAgain DEF Nodes, WriterNodes
  <2> QED
    BY <1>2, <1>4, <2>1, Unmoved DEF Typed
<1>5. CASE /\ Len(q.left) > 1
           /\ Queue(b, k, w, [At(q, "group") EXCEPT !.left = Tail(@)])
           /\ MarkWorking(b, t.of, q.left[2])
  <2>1. "group" \in WriterNodes
    BY DEF WriterNodes
  <2>2. RunsTyped' /\ q.left[2] \in 0 .. NumWriters
    BY <1>5, <2>1, NextWriter
  <2> QED
    BY <1>2, <1>5, <2>2, MarkTyped DEF Typed
<1>6. CASE Queue(b, k, w, parts) /\ UNCHANGED job
  <2>1. RunsTyped'
    BY <1>1, <1>2, <1>6, GroupSplit
  <2> QED
    BY <1>2, <1>6, <2>1, Unmoved DEF Typed
<1>7. GroupWritten(b, k, w, q, t.of, t)
  OBVIOUS
<1>8. \/ Queue(b, k, w, NextUnit(q)) /\ Offer(b, t.of, t)
      \/ Queue(b, k, w, At(q, "group_repair")) /\ UNCHANGED job
      \/ /\ Len(q.left) > 1
         /\ Queue(b, k, w, [At(q, "group") EXCEPT !.left = Tail(@)])
         /\ MarkWorking(b, t.of, q.left[2])
      \/ Queue(b, k, w, parts) /\ UNCHANGED job
  <2> HIDE DEF q, t
  <2> QED
    BY <1>7 DEF GroupWritten
<1> QED
  BY <1>3, <1>4, <1>5, <1>6, <1>8

\* What follows an answer.
LEMMA ProceedTyped ==
  ASSUME Typed, NEW b \in Batches, NEW k \in Runs, NEW w \in Writers, Proceed(b, k, w)
  PROVE  Typed'
<1> DEFINE q == run[b][k].queue[w]
           t == TaskOf(b, q)
<1>1. q.at \in Nodes /\ UNCHANGED call
  BY DEF Proceed
<1>2. CASE Unclear(b, k, w, q)
  <2>1. RunsTyped' /\ BatchesTyped'
    BY <1>2, ThrowKeeps DEF Typed, Unclear
  <2>2. JobsTyped'
    <3>1. job' = Failed(b, Head(q.todo).of) \/ UNCHANGED job
      BY <1>2 DEF Unclear
    <3> QED
      BY <3>1, FailedTyped, Unmoved DEF Typed
  <2> QED
    BY <1>1, <2>1, <2>2 DEF Typed
<1>3. CASE GroupWritten(b, k, w, q, t.of, t)
  BY <1>1, <1>3, GroupProceeds, Unmoved DEF Typed
<1>4. ASSUME NEW i \in t.of,
             Deputised(b, k, w, q, i) \/ Written(b, k, w, q, i, t) \/ Reviewed(b, k, w, q, i, t)
      PROVE  Typed'
  BY <1>1, <1>4, EntryProceeds, Unmoved DEF Typed
<1> QED
  BY <1>2, <1>3, <1>4 DEF Proceed
-----------------------------------------------------------------------------

\* Every step keeps the types.
LEMMA NextTyped == Typed /\ CallsAccounted /\ [Next]_vars => Typed'
<1> SUFFICES ASSUME Typed, CallsAccounted, [Next]_vars
             PROVE  Typed'
  OBVIOUS
<1>1. ASSUME NEW b \in Batches, NEW S \in SUBSET Items, CreateBatch(b, S)
      PROVE  Typed'
  BY <1>1, OrderTyped, Unmoved DEF Typed, CreateBatch
<1>2. ASSUME NEW b \in Batches, NEW i \in Items, CreateReview(b, i)
      PROVE  Typed'
  <2>1. BatchesTyped' /\ JobsTyped' /\ UNCHANGED call
    BY <1>2, OrderTyped DEF Typed, CreateReview
  <2>2. UNCHANGED run \/ run' = [c \in Batches |-> [k \in Runs |-> NoRun]]
    BY <1>2 DEF CreateReview
  <2> QED
    BY <2>1, <2>2, NoRuns, Unmoved DEF Typed
<1>3. ASSUME NEW b \in Batches, Retry(b) \/ LeaseExpires(b) \/ Poll(b)
      PROVE  Typed'
  BY <1>3, RetryTyped, LeaseExpiresTyped, ClaimTyped DEF Poll
<1>4. ASSUME NEW b \in Batches, NEW k \in Runs, Finish(b, k)
      PROVE  Typed'
  BY <1>4, FinishTyped
<1>5. ASSUME NEW b \in Batches, NEW k \in Runs, NEW w \in Writers, Works(b, k, w)
      PROVE  Typed'
  BY <1>5, PickTyped, AskTyped, AnswerTyped, ProceedTyped DEF Works
<1>6. ASSUME NEW i \in Items, Confirm(i) PROVE Typed'
  BY <1>6, ConfirmTyped
<1>7. ASSUME Crash PROVE Typed'
  BY <1>7, NoRuns, Unmoved DEF Typed, Crash
<1>8. ASSUME UNCHANGED vars PROVE Typed'
  BY <1>8, Unmoved DEF Typed, vars
<1> QED
  BY <1>1, <1>2, <1>3, <1>4, <1>5, <1>6, <1>7, <1>8 DEF Next

\* At first no batch is ordered.
LEMMA InitTyped == Init => Typed
<1> SUFFICES ASSUME Init PROVE Typed
  OBVIOUS
<1>1. 0 \in 0 .. NumWriters /\ 0 \in 0 .. NumRuns
  BY SettingAssumption
<1>2. BatchesTyped
  BY <1>1 DEF Init, BatchesTyped, BatchRow
<1>3. JobsTyped
  <2>1. NoJob \in JobRow
    BY <1>1 DEF NoJob, JobRow
  <2> QED
    BY <2>1 DEF Init, JobsTyped
<1>4. RunsTyped
  <2>1. NoRun \in RunRow /\ \A w \in Writers : NoRun.queue[w] = Idle
    BY IdleOK DEF NoRun, RunRow, QueueOK
  <2>2. \A b \in Batches, k \in Runs : run[b][k] = NoRun
    BY DEF Init
  <2>3. Apart(NoRun.queue) /\ \A w \in Writers : Ready(NoRun.queue[w])
    BY <2>1, IdleOK DEF Apart, QueueOK
  <2>4. run \in [Batches -> [Runs -> RunRow]]
    BY <2>1 DEF Init
  <2> QED
    BY <2>2, <2>3, <2>4 DEF RunsTyped
<1> QED
  BY <1>2, <1>3, <1>4 DEF Init, Typed

\* The inductive invariant holds.
LEMMA AlwaysTyped == Spec => [](Typed /\ CallsAccounted)
  BY InitTyped, InitAccounts, NextTyped, NextAccounts, PTL DEF Spec

\* The rows of the batches, of their entries and of their calls have their types, and a
\* batch is leased exactly while an execution holds it: whatever is retried, taken over,
\* lost or confirmed.
THEOREM TypeCorrect == Spec => []TypeOK
<1>1. Typed /\ CallsAccounted => TypeOK
  BY DEF Typed, BatchesTyped, BatchRow, JobsTyped, JobRow, CallsAccounted, Accounted,
         CallStates, TypeOK
<1> QED
  BY <1>1, AlwaysTyped, PTL

\* No entry waits twice in one execution of a batch, in the queues of two writers or twice
\* in one.
EachOnce ==
  \A b \in Batches, k \in Runs :
    /\ \A w \in Writers : Disjoint(run[b][k].queue[w].todo)
    /\ Apart(run[b][k].queue)

\* The deal of the entries at a claim gives each to one writer, in one unit, and a group
\* that is taken apart when no writer completed it brings no entry back: one execution
\* never has two members work on an entry.
THEOREM QueuesApart == Spec => []EachOnce
<1>1. Typed => EachOnce
  BY DEF Typed, RunsTyped, Ready, EachOnce
<1> QED
  BY <1>1, AlwaysTyped, PTL
=============================================================================
