--------------------------- MODULE MCOutputQueues ---------------------------
(* Small instances of OutputQueues for TLC.                                *)
EXTENDS OutputQueues, TLC

\* Goroutines, session keys and heap cells are interchangeable.
MCSymmetry ==
  Permutations(Writers) \cup Permutations(Keys) \cup Permutations(Queues)
    \cup Permutations(Messages)
=============================================================================
