--------------------------- MODULE DurableLedger ---------------------------
(* What a recovery ledger promises its callers, with no files, locks, threads *)
(* or failures: a map from identities to an inverse payload and a stage, in   *)
(* which nothing is forgotten, no stage goes back and no payload is replaced, *)
(* and an acknowledgement that is given only for what the map already holds.  *)
(* A crash is not a step of this specification: it must change nothing.       *)
EXTENDS Naturals

CONSTANTS Id, Payload

VARIABLES store,         \* identity -> [payload, stage]
          acknowledged   \* the stage last acknowledged per identity, or 0

vars == <<store, acknowledged>>

Record == [payload : Payload, stage : 1..4]

Init ==
  /\ store = [i \in {} |-> {}]
  /\ acknowledged = [i \in Id |-> 0]

\* The map moves forward for any number of identities.
Forward ==
  /\ \E ids \in SUBSET Id : store' \in [ids -> Record]
  /\ \A i \in DOMAIN store :
       /\ i \in DOMAIN store'
       /\ store'[i].payload = store[i].payload
       /\ store'[i].stage >= store[i].stage

\* A caller learns that its change is recorded: it is, from this step on.
Acknowledge(i) ==
  /\ i \in DOMAIN store'
  /\ acknowledged' = [acknowledged EXCEPT ![i] = store'[i].stage]

Next ==
  /\ Forward
  /\ UNCHANGED acknowledged \/ \E i \in Id : Acknowledge(i)

Spec == Init /\ [][Next]_vars
=============================================================================
