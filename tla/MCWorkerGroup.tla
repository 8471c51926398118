--------------------------- MODULE MCWorkerGroup ---------------------------
(* Instances of WorkerGroup for TLC. *)
EXTENDS WorkerGroup
=============================================================================
