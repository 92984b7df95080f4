--------------------------- MODULE MCDurableStore ---------------------------
(* DurableStore for TLC: requests stop when the log holds MaxLog entries. *)
EXTENDS DurableStore, TLC

CONSTANT MaxLog

Symmetry == Permutations(Thread) \cup Permutations(Value)

MCNext == Next /\ Len(file') <= MaxLog

MCSpec == Init /\ [][MCNext]_vars
=============================================================================
