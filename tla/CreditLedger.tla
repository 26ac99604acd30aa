---------------------------- MODULE CreditLedger ----------------------------
(***************************************************************************)
(* What the budget of a book promises, without counters, calls or          *)
(* processes: a model call freezes its ceiling before it is sent, only if  *)
(* everything charged and everything frozen stays within the limit; later  *)
(* it is charged once, never more than it froze, or it is set free.  The   *)
(* totals are those of the rows themselves, not of a cached counter.       *)
(***************************************************************************)
EXTENDS Naturals, FiniteSets

CONSTANTS Requests, Frozen

VARIABLES
  hold,     \* of each request: "none", "held", "charged" or "free"
  charge,   \* the tokens charged for each request
  cap       \* the token limit of the book

vars == <<hold, charge, cap>>

\* The sum of the amounts of a set of requests: the tokens are counted one by one.
Total(amount, set) == Cardinality(UNION {{r} \X (1 .. amount[r]) : r \in set})

Committed == Total(charge, Requests) + Total(Frozen, {r \in Requests : hold[r] = "held"})

Init ==
  /\ hold = [r \in Requests |-> "none"]
  /\ charge = [r \in Requests |-> 0]
  /\ cap \in Nat

Hold(r) ==
  /\ hold[r] = "none"
  /\ Committed + Frozen[r] <= cap
  /\ hold' = [hold EXCEPT ![r] = "held"]
  /\ UNCHANGED <<charge, cap>>

Charge(r) ==
  /\ hold[r] = "held"
  /\ hold' = [hold EXCEPT ![r] = "charged"]
  /\ \E used \in 1 .. Frozen[r] : charge' = [charge EXCEPT ![r] = used]
  /\ UNCHANGED cap

Free(r) ==
  /\ hold[r] = "held"
  /\ hold' = [hold EXCEPT ![r] = "free"]
  /\ UNCHANGED <<charge, cap>>

\* The author may change the limit, never below what is committed.
Revise ==
  /\ cap' \in Nat
  /\ cap' >= Committed
  /\ UNCHANGED <<hold, charge>>

Next == (\E r \in Requests : Hold(r) \/ Charge(r) \/ Free(r)) \/ Revise

Spec == Init /\ [][Next]_vars
=============================================================================
