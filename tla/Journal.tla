------------------------------ MODULE Journal ------------------------------
(* The mutation journal of gsbench: Journal.ApplyAction, restoreActions       *)
(* (journal.go) over the database table meta_journal (sqlstore.go).           *)
(*                                                                            *)
(* One run applies its actions in order: it records an action, executes its   *)
(* forward statement, and records the outcome.  Once the run is over and its  *)
(* sessions are gone, restorers read the unrestored rows and work through     *)
(* them in reverse order: claim, inverse, verify, record.  Any database call  *)
(* may fail before or after it took effect, any process may die, and a        *)
(* statement whose client is gone may still complete on the server.           *)
EXTENDS Naturals, FiniteSets

CONSTANTS N,              \* actions of the run, numbered in sequence order
          NonRepeatable,  \* actions marked SkipInverseWhenRestored: their
                          \* inverse (CREATE INDEX) fails on a restored target
          Restorer,
          RestoreLocked,  \* restorers hold the restore lock, as the
                          \* coordinator's do; the journal itself takes none
          MaxFaults       \* bound on errors and crashes in a behaviour

Action == 1..N

ASSUME JournalConstants ==
  /\ N \in Nat
  /\ NonRepeatable \subseteq Action
  /\ RestoreLocked \in BOOLEAN
  /\ MaxFaults \in Nat

VARIABLES row,      \* meta_journal: the state of each action, or "none"
          world,    \* the target of each action: "baseline" or "forward"
          late,     \* <<action, direction>>: statements running with no client
          runPc,    \* where the run is in ApplyAction
          current,  \* the action the run is applying
          pc,       \* where each restorer is in restoreActions
          snap,     \* the rows each restorer read
          todo,     \* the actions of its list that are left
          faults    \* history: errors and crashes so far

vars == <<row, world, late, runPc, current, pc, snap, todo, faults>>
runVars == <<runPc, current>>
restorerVars == <<pc, snap, todo>>

State == {"planned", "applied", "restoring", "restore_failed", "restored"}
Pending(a) == row[a] \notin {"none", "restored"}

Fault == faults < MaxFaults /\ faults' = faults + 1

\* A row update that succeeds, and one whose caller sees an error: it may have
\* been made all the same.
SetState(a, s) == row' = [row EXCEPT ![a] = s]
SetStateFails(a, s) == SetState(a, s) \/ row' = row

-----------------------------------------------------------------------------
(* ApplyAction.                                                               *)

Init ==
  /\ row = [a \in Action |-> "none"]
  /\ world = [a \in Action |-> "baseline"]
  /\ late = {}
  /\ runPc = IF N = 0 THEN "over" ELSE "insert"
  /\ current = IF N = 0 THEN 0 ELSE 1
  /\ pc = [r \in Restorer |-> "idle"]
  /\ snap = [r \in Restorer |-> [a \in Action |-> "none"]]
  /\ todo = [r \in Restorer |-> {}]
  /\ faults = 0

\* InsertPlanned commits.  If its commit is in doubt the run stops, with the
\* row there or not.
InsertPlanned ==
  /\ runPc = "insert"
  /\ SetState(current, "planned")
  /\ runPc' = "apply"
  /\ UNCHANGED <<world, late, current, restorerVars, faults>>

\* Mutant: the run goes on although its row may be missing.
InsertFailsIgnored ==
  /\ runPc = "insert"
  /\ Fault
  /\ SetStateFails(current, "planned")
  /\ runPc' = "apply"
  /\ UNCHANGED <<world, late, current, restorerVars>>

InsertFails ==
  /\ runPc = "insert"
  /\ Fault
  /\ SetStateFails(current, "planned")
  /\ runPc' = "over"
  /\ UNCHANGED <<world, late, current, restorerVars>>

\* exec.Apply succeeds.
Apply ==
  /\ runPc = "apply"
  /\ world' = [world EXCEPT ![current] = "forward"]
  /\ runPc' = "applied"
  /\ UNCHANGED <<row, late, current, restorerVars, faults>>

\* exec.Apply returns an error: the statement did nothing, or was made, or is
\* still running on the server.
ApplyFails ==
  /\ runPc = "apply"
  /\ Fault
  /\ \/ UNCHANGED <<world, late>>
     \/ world' = [world EXCEPT ![current] = "forward"] /\ late' = late
     \/ late' = late \cup {<<current, "forward">>} /\ world' = world
  /\ runPc' = "failed"
  /\ UNCHANGED <<row, current, restorerVars>>

\* setActionState(planned, error) after a failed Apply: the run stops there,
\* whether the update succeeds or not.
RetainPlanned ==
  /\ runPc = "failed"
  /\ SetState(current, "planned")
  /\ runPc' = "over"
  /\ UNCHANGED <<world, late, current, restorerVars, faults>>

\* setActionState(applied), then the next action of the run.
MarkApplied ==
  /\ runPc = "applied"
  /\ SetState(current, "applied")
  /\ IF current < N
     THEN current' = current + 1 /\ runPc' = "insert"
     ELSE current' = current /\ runPc' = "over"
  /\ UNCHANGED <<world, late, restorerVars, faults>>

MarkAppliedFails ==
  /\ runPc = "applied"
  /\ Fault
  /\ SetStateFails(current, "applied")
  /\ runPc' = "over"
  /\ UNCHANGED <<world, late, current, restorerVars>>

\* The run is stopped between two calls, or its process dies in one.
RunEnds ==
  /\ runPc # "over"
  /\ Fault
  /\ \/ late' = late
     \/ runPc = "apply" /\ late' = late \cup {<<current, "forward">>}
  /\ runPc' = "over"
  /\ UNCHANGED <<row, world, current, restorerVars>>

\* A statement without a client completes or is cancelled.
LateStatement ==
  \E s \in late :
    /\ late' = late \ {s}
    /\ \/ world' = [world EXCEPT ![s[1]] =
                      IF s[2] = "forward" THEN "forward" ELSE "baseline"]
       \/ world' = world
    /\ UNCHANGED <<row, runVars, restorerVars, faults>>

Run == InsertPlanned \/ Apply \/ RetainPlanned \/ MarkApplied
RunFault == InsertFails \/ ApplyFails \/ MarkAppliedFails \/ RunEnds

-----------------------------------------------------------------------------
(* restoreActions.                                                            *)

\* Mutant: sessions of the run may still be at work.
DrainedOfNothing == runPc = "over"

\* The run is over and no session of it is left.
Drained == runPc = "over" /\ \A a \in Action : <<a, "forward">> \notin late

RestoreLockFree == RestoreLocked => \A r \in Restorer : pc[r] = "idle"

\* The rows of a run whose execution lease is free (excludeLiveExecutionRuns,
\* Pending): one query of the unrestored rows.
Discover(r) ==
  /\ pc[r] = "idle"
  /\ runPc = "over"
  /\ RestoreLockFree
  /\ \E a \in Action : Pending(a)
  /\ snap' = [snap EXCEPT ![r] = row]
  /\ todo' = [todo EXCEPT ![r] = {a \in Action : Pending(a)}]
  /\ pc' = [pc EXCEPT ![r] = "drain"]
  /\ UNCHANGED <<row, world, late, runVars, faults>>

\* StopTaggedSessions returns once the run has no session, or when its context
\* is over and the restorer can do nothing any more (RestorerDies).
StopTaggedSessions(r) ==
  /\ pc[r] = "drain"
  /\ Drained
  /\ pc' = [pc EXCEPT ![r] = "claim"]
  /\ UNCHANGED <<row, world, late, runVars, snap, todo, faults>>

\* sortActionsReverse: the last action first.
Turn(r, a) == a \in todo[r] /\ \A b \in todo[r] : b <= a

Goto(r, point) == pc' = [pc EXCEPT ![r] = point] /\ UNCHANGED <<snap, todo>>

\* On to the next action of the list, or to the end of it.
Advance(r, a) ==
  /\ todo' = [todo EXCEPT ![r] = @ \ {a}]
  /\ IF todo[r] = {a}
     THEN /\ pc' = [pc EXCEPT ![r] = "idle"]
          /\ snap' = [snap EXCEPT ![r] = [b \in Action |-> "none"]]
     ELSE pc' = [pc EXCEPT ![r] = "claim"] /\ snap' = snap

\* Preflight fails: the action is marked and not claimed.
PreflightFails(r, a) ==
  /\ pc[r] = "claim"
  /\ Fault
  /\ SetStateFails(a, "restore_failed")
  /\ Advance(r, a)
  /\ UNCHANGED <<world, late, runVars>>

\* Mutant: the update has no condition on the state read.
ClaimUnconditional(r, a) ==
  /\ pc[r] = "claim"
  /\ SetState(a, "restoring")
  /\ Goto(r, "claimed")
  /\ UNCHANGED <<world, late, runVars, faults>>

\* ClaimAction: UPDATE ... SET state = restoring WHERE state = <the state read>.
Claim(r, a) ==
  /\ pc[r] = "claim"
  /\ row[a] = snap[r][a]
  /\ SetState(a, "restoring")
  /\ Goto(r, "claimed")
  /\ UNCHANGED <<world, late, runVars, faults>>

ClaimLost(r, a) ==
  /\ pc[r] = "claim"
  /\ row[a] # snap[r][a]
  /\ Advance(r, a)
  /\ UNCHANGED <<row, world, late, runVars, faults>>

ClaimFails(r, a) ==
  /\ pc[r] = "claim"
  /\ Fault
  /\ \/ row' = row
     \/ row[a] = snap[r][a] /\ SetState(a, "restoring")
  /\ Advance(r, a)
  /\ UNCHANGED <<world, late, runVars>>

\* Mutant: only rows still planned are looked at.
AlreadyRestoredWhenPlanned(r, a) ==
  /\ pc[r] = "claimed"
  /\ a \in NonRepeatable
  /\ world[a] = "baseline"
  /\ snap[r][a] = "planned"
  /\ Goto(r, "mark")
  /\ UNCHANGED <<row, world, late, runVars, faults>>

\* A marked action whose target is at baseline already needs no inverse.
AlreadyRestored(r, a) ==
  /\ pc[r] = "claimed"
  /\ a \in NonRepeatable
  /\ world[a] = "baseline"
  /\ Goto(r, "mark")
  /\ UNCHANGED <<row, world, late, runVars, faults>>

\* The action is not marked, or its target is not at baseline, or the
\* verification query failed.
NeedsInverse(r, a) ==
  /\ pc[r] = "claimed"
  /\ \/ (a \notin NonRepeatable \/ world[a] # "baseline") /\ faults' = faults
     \/ a \in NonRepeatable /\ Fault
  /\ Goto(r, "inverse")
  /\ UNCHANGED <<row, world, late, runVars>>

\* exec.Restore.  Most inverses can be executed at baseline too.
Inverse(r, a) ==
  /\ pc[r] = "inverse"
  /\ a \in NonRepeatable => world[a] = "forward"
  /\ world' = [world EXCEPT ![a] = "baseline"]
  /\ Goto(r, "verify")
  /\ UNCHANGED <<row, late, runVars, faults>>

InverseRefused(r, a) ==
  /\ pc[r] = "inverse"
  /\ a \in NonRepeatable /\ world[a] = "baseline"
  /\ Goto(r, "failed")
  /\ UNCHANGED <<row, world, late, runVars, faults>>

InverseFails(r, a) ==
  /\ pc[r] = "inverse"
  /\ Fault
  /\ \/ UNCHANGED <<world, late>>
     \/ world' = [world EXCEPT ![a] = "baseline"] /\ late' = late
     \/ late' = late \cup {<<a, "inverse">>} /\ world' = world
  /\ Goto(r, "failed")
  /\ UNCHANGED <<row, runVars>>

\* VerifyRestored after the inverse.
Verify(r, a) ==
  /\ pc[r] = "verify"
  /\ Goto(r, IF world[a] = "baseline" THEN "mark" ELSE "failed")
  /\ UNCHANGED <<row, world, late, runVars, faults>>

VerifyFails(r, a) ==
  /\ pc[r] = "verify"
  /\ Fault
  /\ Goto(r, "failed")
  /\ UNCHANGED <<row, world, late, runVars>>

\* setActionState(restored): an update without a condition on the old state.
MarkRestored(r, a) ==
  /\ pc[r] = "mark"
  /\ SetState(a, "restored")
  /\ Advance(r, a)
  /\ UNCHANGED <<world, late, runVars, faults>>

MarkRestoredFails(r, a) ==
  /\ pc[r] = "mark"
  /\ Fault
  /\ SetStateFails(a, "restored")
  /\ Advance(r, a)
  /\ UNCHANGED <<world, late, runVars>>

\* markRestoreFailed.
MarkRestoreFailed(r, a) ==
  /\ pc[r] = "failed"
  /\ SetState(a, "restore_failed")
  /\ Advance(r, a)
  /\ UNCHANGED <<world, late, runVars, faults>>

MarkRestoreFailedFails(r, a) ==
  /\ pc[r] = "failed"
  /\ Fault
  /\ SetStateFails(a, "restore_failed")
  /\ Advance(r, a)
  /\ UNCHANGED <<world, late, runVars>>

\* A restorer dies; an inverse it was executing may go on without it.
RestorerDies(r) ==
  /\ pc[r] # "idle"
  /\ Fault
  /\ \/ late' = late
     \/ \E a \in todo[r] : /\ Turn(r, a) /\ pc[r] = "inverse"
                           /\ late' = late \cup {<<a, "inverse">>}
  /\ pc' = [pc EXCEPT ![r] = "idle"]
  /\ snap' = [snap EXCEPT ![r] = [b \in Action |-> "none"]]
  /\ todo' = [todo EXCEPT ![r] = {}]
  /\ UNCHANGED <<row, world, runVars>>

RestoreStep(r, a) ==
  \/ Claim(r, a) \/ ClaimLost(r, a)
  \/ AlreadyRestored(r, a) \/ NeedsInverse(r, a)
  \/ Inverse(r, a) \/ InverseRefused(r, a) \/ Verify(r, a)
  \/ MarkRestored(r, a) \/ MarkRestoreFailed(r, a)

RestoreFault(r, a) ==
  \/ PreflightFails(r, a) \/ ClaimFails(r, a) \/ InverseFails(r, a)
  \/ VerifyFails(r, a) \/ MarkRestoredFails(r, a) \/ MarkRestoreFailedFails(r, a)

RestoreActions(r) == \E a \in Action : Turn(r, a) /\ RestoreStep(r, a)

Next ==
  \/ Run \/ RunFault \/ LateStatement
  \/ \E r \in Restorer :
       \/ Discover(r)
       \/ StopTaggedSessions(r)
       \/ RestoreActions(r)
       \/ \E a \in Action : Turn(r, a) /\ RestoreFault(r, a)
       \/ RestorerDies(r)

Spec == Init /\ [][Next]_vars

\* The run and the restorers go on as long as they live; the server ends every
\* statement; whoever restores tries again while rows are pending.
FairSpec ==
  /\ Spec
  /\ WF_vars(Run)
  /\ WF_vars(LateStatement)
  /\ \A r \in Restorer :
       /\ WF_vars(Discover(r))
       /\ WF_vars(StopTaggedSessions(r))
       /\ WF_vars(RestoreActions(r))

-----------------------------------------------------------------------------
(* Properties.                                                                *)

Direction == {"forward", "inverse"}
RestorePoint ==
  {"idle", "drain", "claim", "claimed", "inverse", "verify", "mark", "failed"}

\* Every variable holds a value of its kind.
TypeOK ==
  /\ row \in [Action -> State \cup {"none"}]
  /\ world \in [Action -> {"baseline", "forward"}]
  /\ late \subseteq Action \X Direction
  /\ runPc \in {"insert", "apply", "failed", "applied", "over"}
  /\ runPc # "over" => current \in Action
  /\ pc \in [Restorer -> RestorePoint]
  /\ snap \in [Restorer -> [Action -> State \cup {"none"}]]
  /\ todo \in [Restorer -> SUBSET Action]
  /\ faults \in 0..MaxFaults

MayBeForward(a) == world[a] = "forward" \/ <<a, "forward">> \in late

\* Wherever a call failed or a process died, every target that is changed, or
\* that a statement without a client may still change, has a row that says so
\* (InsertPlanned before Apply; restored only after verification).
WriteAhead == \A a \in Action : MayBeForward(a) => Pending(a)

\* The rows are what a restorer may rely on after any failure.
JournalSafe == TypeOK /\ WriteAhead

\* The journal implements the abstract promise about injected faults.
Faults == INSTANCE WriteAheadFaults WITH
  pending <- {a \in Action : Pending(a)},
  faulty <- {a \in Action : MayBeForward(a)}

ImplementsWriteAheadFaults == Faults!Spec

Inverting(r, a) == Turn(r, a) /\ pc[r] \in {"claimed", "inverse"}

\* Without the restore lock, of the restorers that read an action before anyone
\* claimed it, one at most gets past the claim (the compare-and-set of
\* ClaimAction; planned and applied never come back once claimed).
ClaimExclusive ==
  \A r, s \in Restorer : \A a \in Action :
    /\ Inverting(r, a) /\ Inverting(s, a)
    /\ {snap[r][a], snap[s][a]} \subseteq {"planned", "applied"}
    => r = s

\* The name of TestJournalCASClaimPreventsConcurrentDoubleInverse.
NoConcurrentDoubleInverse ==
  \A r, s \in Restorer : \A a \in Action :
    Inverting(r, a) /\ Inverting(s, a) => r = s

\* Once a run is over, its rows are all restored, and stay so: whatever failed,
\* no target is left in a state its inverse cannot be tried on again.
Converges ==
  runPc = "over" ~> [](\A a \in Action : ~Pending(a) /\ ~MayBeForward(a))
=============================================================================
