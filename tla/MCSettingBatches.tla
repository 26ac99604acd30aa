--------------------------- MODULE MCSettingBatches ---------------------------
EXTENDS SettingBatches

Trouble(designed, deputy, troubles) ==
  [designed |-> designed, deputy |-> deputy, troubles |-> troubles]

\* Calls that fail around a crash; a deputy, and calls nobody knows the result of;
\* malformed answers; a context that does not fit; and an author at entries that exist.
Troubles ==
  {Trouble({}, {}, {"failed", "crash"}), Trouble({}, {2}, {"failed", "unknown"}),
   Trouble({}, {}, {"bad", "unknown"}), Trouble({}, {}, {"refused", "context", "unknown"}),
   Trouble({1}, {2}, {"failed", "author", "crash"})}

\* Calls that fail, and a crash: what the author is told then.
Interrupted == {Trouble({}, {}, {"failed", "crash"})}
=============================================================================
