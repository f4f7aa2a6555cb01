---------------------------- MODULE Subsequence ----------------------------
(***************************************************************************)
(* SelectSeq and SortSeq by ranks instead of by recursion, so that they    *)
(* can be reasoned about: what remains of a JavaScript Map, as a sequence  *)
(* in insertion order, when entries are deleted, and an ORDER BY.          *)
(***************************************************************************)
EXTENDS Integers, Sequences, FiniteSets

\* The elements of seq at the given indices, in their order.
Keep(seq, indices) ==
    LET rank(i) == Cardinality({x \in indices : x <= i})
    IN [j \in 1..Cardinality(indices) |-> seq[CHOOSE i \in indices : rank(i) = j]]

\* A sequence of numbers in ascending order.
Sorted(seq) ==
    LET rank(i) == Cardinality({x \in DOMAIN seq : \/ seq[x] < seq[i]
                                                   \/ seq[x] = seq[i] /\ x <= i})
    IN [j \in DOMAIN seq |-> seq[CHOOSE i \in DOMAIN seq : rank(i) = j]]

=============================================================================
