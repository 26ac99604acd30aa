--------------------------- MODULE MCTaskRuntime ---------------------------
EXTENDS TaskRuntime

\* Two tasks of one book: dependencies, exclusivity and takeover.
OneBook == {"alpha"}
BothInAlpha == [t \in 1 .. NumTasks |-> "alpha"]

BothTypes == {"registered", "unregistered"}
=============================================================================
