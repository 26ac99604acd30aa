------------------------- MODULE MCChapterPipeline -------------------------
(* ChapterPipeline with the small sets that TLC checks. *)
EXTENDS ChapterPipeline

\* One task, whose draft is rewritten, repaired and restored; executions may fail.
Lives ==
  {[operations |-> {"produce"}, events |-> {"edit", "failure"}, grades |-> {"sound", "near"},
    tasks |-> 1, executions |-> 3, texts |-> 3, panels |-> 2, revisions |-> 0]}

\* One text through all its panels, and what disturbs them; one task of any kind that
\* nobody cancels, and one in a book without another chapter, with all other disturbances
\* but failures; two tasks of any kind, edits, and canon that is revised; and a canon
\* text sent to review again, to clash with a chapter revised before it.
Decisions ==
  {[operations |-> {"produce"}, events |-> AllEvents \ {"edit"}, grades |-> {"sound"},
    tasks |-> 1, executions |-> 7, texts |-> 1, panels |-> 3, revisions |-> 1],
   [operations |-> AllOperations, events |-> {"expiry", "other chapter", "edit"},
    grades |-> {"sound", "broken"},
    tasks |-> 1, executions |-> 4, texts |-> 2, panels |-> 2, revisions |-> 1],
   [operations |-> AllOperations, events |-> {"expiry", "cancellation", "edit"},
    grades |-> {"sound", "broken"},
    tasks |-> 1, executions |-> 4, texts |-> 2, panels |-> 2, revisions |-> 1],
   [operations |-> AllOperations, events |-> {"edit"}, grades |-> {"sound", "broken"},
    tasks |-> 2, executions |-> 4, texts |-> 3, panels |-> 2, revisions |-> 2],
   [operations |-> {"produce", "review_existing"}, events |-> {"other chapter"},
    grades |-> {"sound"},
    tasks |-> 2, executions |-> 5, texts |-> 2, panels |-> 2, revisions |-> 3]}

\* The shortest way to a text whose outline is aligned.
Alignment ==
  {[operations |-> {"produce"}, events |-> {"edit"}, grades |-> {"sound"},
    tasks |-> 1, executions |-> 2, texts |-> 1, panels |-> 1, revisions |-> 0]}
=============================================================================
