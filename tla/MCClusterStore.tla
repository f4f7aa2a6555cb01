--------------------------- MODULE MCClusterStore ---------------------------
(* The instance of ClusterStore for TLC: a worker may hit, reset the key and shut down twice. *)
EXTENDS ClusterStore

KindsOfCalls == [c \in Calls |-> CASE c = "hit" -> "increment"
                                   [] c = "clear" -> "reset"
                                   [] OTHER -> "shutdown"]

\* The two shutdown() calls are interchangeable: only one order is explored.
ByesInOrder == \A w \in Workers : call[w]["bye2"].pc # "idle" => call[w]["bye"].pc # "idle"

=============================================================================
