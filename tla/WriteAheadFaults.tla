-------------------------- MODULE WriteAheadFaults --------------------------
(* What gsbench promises about the faults it injects, with no journal rows,   *)
(* processes or errors: an action is recorded before its fault can exist, and *)
(* forgotten only when no fault of it is left.  A fault recorded and never    *)
(* injected, and one repaired and still recorded, are both fine.              *)
CONSTANT Action

VARIABLES pending,   \* actions some record still calls unrestored
          faulty     \* actions whose target is, or may yet become, changed

vars == <<pending, faulty>>

Init == pending = {} /\ faulty = {}

Record(a) == pending' = pending \cup {a} /\ faulty' = faulty
Inject(a) == a \in pending /\ faulty' = faulty \cup {a} /\ pending' = pending
Repair(a) == faulty' = faulty \ {a} /\ pending' = pending
Forget(a) == a \notin faulty /\ pending' = pending \ {a} /\ faulty' = faulty

Next == \E a \in Action : Record(a) \/ Inject(a) \/ Repair(a) \/ Forget(a)

Spec == Init /\ [][Next]_vars
=============================================================================
