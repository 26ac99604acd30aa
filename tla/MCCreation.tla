------------------------------ MODULE MCCreation ------------------------------
EXTENDS CreationChain

\* What may happen to the writing of one chapter.
Writing ==
  [chapters : {1},
   troubles : {{"call failure", "call unknown", "crash"},
               {"call failure", "call unknown", "cancellation"},
               {"author"}}]

\* What may happen to the write-back of a chain.
WritingBack ==
  [chapters : {1}, troubles : {{"failure"}, {"unknown"}}]
    \cup [chapters : {2}, troubles : {{"look"}, {"crash"}}]
=============================================================================
