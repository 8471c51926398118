------------------------- MODULE MCRecoveryLedger -------------------------
(* Instances of RecoveryLedger for TLC: two processes, one of them with two  *)
(* goroutines.                                                               *)
EXTENDS RecoveryLedger, TLC

CONSTANTS p1, p2, t1, t2, t3

MCProcessOf == [t \in Thread |-> IF t = t3 THEN p2 ELSE p1]

\* t1 and t2 are goroutines of the same process.
Symmetric == Permutations(Id) \cup Permutations(Payload) \cup Permutations({t1, t2})

\* A bound: payloads differ, and diagnostics are there, in a ledger of one
\* action; in a longer one only the identities and the states count.
Plain(file) ==
  \/ Cardinality(DOMAIN file) <= 1
  \/ \A i, j \in DOMAIN file :
       file[i].payload = file[j].payload /\ file[i].lastError = NoDiagnostic

PlainLedgers == Plain(visible) /\ Plain(durable) /\ \A t \in Thread : Plain(staged[t])
=============================================================================
