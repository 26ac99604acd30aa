------------------------- MODULE ExclusiveExecution -------------------------
(***************************************************************************)
(* What the task runtime promises, without rows, leases, epochs or         *)
(* processes: a task is executed in numbered attempts; at any moment at    *)
(* most one attempt of the tasks of a book has the right to write, and     *)
(* only an attempt that has the right at that moment delivers a result:    *)
(* accepted at once, or offered to the author, who decides.  A right that  *)
(* was lost never comes back: the task has to be given a new one, under a  *)
(* number never used before, and only while it has no result.              *)
(***************************************************************************)
EXTENDS Naturals

CONSTANTS Tasks, BookOf

VARIABLES
  holder,     \* the number of the attempt of the task that may write, or 0
  last,       \* the last attempt number given out for the task
  offered,    \* the attempt whose result waits for the author, or 0
  accepted    \* the attempt whose result the task has, or 0

vars == <<holder, last, offered, accepted>>

Init ==
  /\ holder = [t \in Tasks |-> 0]
  /\ last = [t \in Tasks |-> 0]
  /\ offered = [t \in Tasks |-> 0]
  /\ accepted = [t \in Tasks |-> 0]

Acquire(t) ==
  /\ \A u \in Tasks : BookOf[u] = BookOf[t] => holder[u] = 0
  /\ offered[t] = 0 /\ accepted[t] = 0
  /\ last' = [last EXCEPT ![t] = @ + 1]
  /\ holder' = [holder EXCEPT ![t] = last'[t]]
  /\ UNCHANGED <<offered, accepted>>

Lose(t) ==
  /\ holder[t] # 0
  /\ holder' = [holder EXCEPT ![t] = 0]
  /\ UNCHANGED <<last, offered, accepted>>

Deliver(t) ==
  /\ holder[t] # 0
  /\ \/ accepted' = [accepted EXCEPT ![t] = holder[t]] /\ UNCHANGED offered
     \/ offered' = [offered EXCEPT ![t] = holder[t]] /\ UNCHANGED accepted
  /\ holder' = [holder EXCEPT ![t] = 0]
  /\ UNCHANGED last

\* The author accepts what was offered, refuses it or cancels the task.
Decide(t) ==
  /\ offered[t] # 0
  /\ accepted' \in {accepted, [accepted EXCEPT ![t] = offered[t]]}
  /\ offered' = [offered EXCEPT ![t] = 0]
  /\ UNCHANGED <<holder, last>>

Next == \E t \in Tasks : Acquire(t) \/ Lose(t) \/ Deliver(t) \/ Decide(t)

Spec == Init /\ [][Next]_vars
=============================================================================
