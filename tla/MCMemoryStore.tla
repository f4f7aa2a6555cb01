--------------------------- MODULE MCMemoryStore ---------------------------
(* Instance of MemoryStore for TLC; keys are interchangeable.              *)
EXTENDS MemoryStore

\* last and answer label the steps and decide nothing.
Unlabelled == <<strategy, maxKeys, order, entry, timer, now, unroomed>>

Symmetry == Permutations(Keys)

=============================================================================
