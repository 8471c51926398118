--------------------------- MODULE MCCommandLocks ---------------------------
(* Instances of CommandLocks for TLC. *)
EXTENDS CommandLocks, TLC

CONSTANTS a, b, c

Processes == Permutations(Process)
=============================================================================
