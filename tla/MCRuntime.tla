----------------------------- MODULE MCRuntime -----------------------------
EXTENDS Runtime, TLC

CONSTANTS draft, review

\* One task of one book and two calls: of one attempt, or of two attempts.
OneBook == {"alpha"}
InAlpha == [t \in 1 .. NumTasks |-> "alpha"]
TwoCalls == {draft, review}
OfTheTask == [r \in TwoCalls |-> 1]
\* Nothing tells the two apart: they may change places.
CallsAreAlike == Permutations(TwoCalls)
OwnKeys == [r \in TwoCalls |-> r]
FreezeOne == [r \in TwoCalls |-> 1]
JustOne == {1}
BothFit == {2}
Nothing == {}
Registered == {"registered"}
=============================================================================
