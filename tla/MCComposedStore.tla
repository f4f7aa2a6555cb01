-------------------------- MODULE MCComposedStore --------------------------
(* Instances of ComposedStore for TLC: two layers, of cap 1 each.         *)
EXTENDS ComposedStore, TLC

TwoCaps == <<1, 1>>

Symmetry == Permutations(Callers)

=============================================================================
