----------------------------- MODULE MCJournal -----------------------------
(* Instances of Journal for TLC. *)
EXTENDS Journal

CONSTANTS r1, r2
=============================================================================
