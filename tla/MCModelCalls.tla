---------------------------- MODULE MCModelCalls ----------------------------
EXTENDS ModelCalls, TLC

CONSTANTS a, b, c, draft, review

\* Two requests of one task with the same input: it is sent again.
Two == {a, b}
OneTask == (a :> "task") @@ (b :> "task")
SameKey == (a :> draft) @@ (b :> draft)

\* Both freeze 2 tokens; an answer uses 1, or 3 and exceeds what was frozen.
FreezeTwo == (a :> 2) @@ (b :> 2)
CheapOrOver == {1, 3}
LimitsAround == {1, 3, 4}

\* Three requests of one task, two of them with the same input.  A limit of 3
\* admits a second call only after the first one ended cheaply, a limit of 5 admits
\* two at a time, and the third after one of them.
Three == {a, b, c}
OneTaskOfThree == [r \in Three |-> "task"]
ThirdOwnKey == (a :> draft) @@ (b :> draft) @@ (c :> review)
FreezeThree == [r \in Three |-> 2]
TightAndLoose == {3, 5}

NoRequest == {}
OnlyB == {b}
=============================================================================
