--------------------------- MODULE MCSharedStore ---------------------------
(* Instances of SharedStore for TLC; callers are interchangeable.          *)
EXTENDS SharedStore, TLC

\* A behaviour is followed up to the second event that loses or invents hits.
OneLeak == Cardinality(leaks) <= 1

\* The bucket alone, and the weighted window alone.
BucketOnly == strategy = "TOKEN_BUCKET" /\ OneLeak
WindowOnly == strategy = "SLIDING_WINDOW" /\ OneLeak

Symmetry == Permutations(Callers)

=============================================================================
