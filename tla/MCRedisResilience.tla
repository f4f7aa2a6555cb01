------------------------- MODULE MCRedisResilience -------------------------
(* Constants for model checking RedisResilience.                           *)
EXTENDS RedisResilience, TLC

CONSTANTS c1, c2, s1, s2

MCCallers == {c1, c2}
MCSyncs == {s1, s2}

\* Callers and replays are interchangeable (used where no liveness is checked).
MCSymmetry == Permutations(MCCallers) \cup Permutations(MCSyncs)
=============================================================================
