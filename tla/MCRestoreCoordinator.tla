------------------------ MODULE MCRestoreCoordinator ------------------------
(* An instance of RestoreCoordinator for TLC: an external action and a plan   *)
(* change of the older run, a configuration action of the newer one.          *)
EXTENDS RestoreCoordinator

MCRunOf == [a \in Control \cup Config \cup Sql |-> IF a = 3 THEN 2 ELSE 1]
=============================================================================
