------------------------- MODULE RestoreCoordinator -------------------------
(* RestoreCoordinator.Restore (restore.go) over databaseRestoreBackend        *)
(* (app.go): one coordinator at a time restores the actions of one run or of  *)
(* all, recorded in two mirrors: the table meta_journal and the local         *)
(* recovery ledger.                                                           *)
(*                                                                            *)
(* When the database cannot be reached, the actions of the external control   *)
(* stage are restored from the ledger alone; discovery brings the database    *)
(* in line with the ledger's tombstones later.  Any call may fail, before or  *)
(* after it took effect; the coordinator may die at any step and be started   *)
(* again; and its database lock session may be dropped, after which another   *)
(* host, which has the table but not this ledger, may restore as well.        *)
EXTENDS Naturals, FiniteSets

CONSTANTS Control,   \* actions of the external control stage
          Config,    \* actions of the configuration stage
          Sql,       \* actions of the database stage, which no ledger mirrors
          Skip,      \* those marked SkipInverseWhenRestored: plan-change
                     \* actions whose inverse fails on a restored target
          Run,       \* runs, as numbers: a later run has a larger one
          RunOf,     \* the run of each action
          Left,      \* states in which the runs left their records; a planned
                     \* one covers both outcomes, as its target may be faulty
          MaxFaults  \* bound on failures, crashes and lost sessions

\* Actions are numbers, in the order their runs recorded them.
Action == Control \cup Config \cup Sql

ASSUME CoordinatorConstants ==
  /\ Action \subseteq Nat
  /\ Skip \subseteq Sql
  /\ Run \subseteq Nat
  /\ RunOf \in [Action -> Run]
  /\ Left \subseteq {"planned", "applied"}
  /\ MaxFaults \in Nat

VARIABLES target,    \* each target: "faulty" or "clean"
          db, ledger,\* the two mirrors: a state of the action, or "none"
          row,       \* status of each run in meta_runs
          pc,        \* where the coordinator is
          mode,      \* "online", or how restoreLocalControlPlane was entered
          scope,     \* the runs asked for
          cover,     \* the runs of the plan
          source,    \* the mirrors each planned action was discovered in
          asked,     \* the state the plan saw
          todo, cur, \* actions left, and the one in hand
          want,      \* the state setSourceState is writing
          deferred,  \* a database error waits for the ledger's result
          actionErrs, errs,
          exclusive, \* the database lock session lives
          rival,     \* the actions another host has claimed
          faults

mirrors == <<db, ledger>>
plan == <<scope, cover, source, asked>>
work == <<todo, cur, want, deferred>>
report == <<actionErrs, errs>>
outside == <<exclusive, rival>>
vars == <<target, mirrors, row, pc, mode, plan, work, report, outside, faults>>

State == {"planned", "applied", "restoring", "restore_failed", "restored"}
Open(state) == state \notin {"none", "restored"}
DbPending(r) == \E a \in Action : RunOf[a] = r /\ Open(db[a])
LedgerPending(r) == \E a \in Action : RunOf[a] = r /\ Open(ledger[a])

Fault == faults < MaxFaults /\ faults' = faults + 1
NoFault == faults' = faults
FaultUnless(P) == (P /\ NoFault) \/ Fault

\* Mutant: a failed restore is never tried again.
AcceptsOnce(from, to) ==
  \/ from = to
  \/ from \in {"planned", "applied"} /\ to \in {"restoring", "restore_failed"}
  \/ from = "restoring" /\ to = "restore_failed"

\* allowedRecoveryLedgerTransition, for the states Put is given here.
Accepts(from, to) ==
  \/ from = to
  \/ from \in {"planned", "applied"} /\ to \in {"restoring", "restore_failed"}
  \/ from = "restoring" /\ to = "restore_failed"
  \/ from = "restore_failed" /\ to = "restoring"

\* restoreActionOrder and the comparison of prepareRestorePlan.
Stage(a) == IF a \in Control THEN 1 ELSE IF a \in Config THEN 2 ELSE 3
Before(a, b) ==
  \/ Stage(a) < Stage(b)
  \/ Stage(a) = Stage(b) /\ RunOf[a] > RunOf[b]
  \/ Stage(a) = Stage(b) /\ RunOf[a] = RunOf[b] /\ a > b
First(a, S) == a \in S /\ \A b \in S \ {a} : Before(a, b)

-----------------------------------------------------------------------------
\* What the runs left: a recorded action may have changed its target, an
\* applied one has; the ledger mirrors external actions, and may be alone.
Init ==
  /\ db \in [Action -> Left \cup {"none"}]
  /\ ledger \in [Action -> Left \cup {"none"}]
  /\ target \in [Action -> {"faulty", "clean"}]
  /\ \A a \in Action :
       /\ a \in Sql => ledger[a] = "none"
       /\ a \notin Sql => ledger[a] # "none" /\ db[a] \in {"none", ledger[a]}
       /\ "applied" \in {db[a], ledger[a]} => target[a] = "faulty"
       /\ db[a] = "none" /\ ledger[a] = "none" => target[a] = "clean"
  /\ row = [r \in Run |-> "running"]
  /\ pc = "idle"
  /\ mode = "online"
  /\ scope = {} /\ cover = {}
  /\ source = [a \in Action |-> {}]
  /\ asked = [a \in Action |-> "none"]
  /\ todo = {} /\ cur = 0 /\ want = "none"
  /\ deferred = FALSE /\ actionErrs = FALSE /\ errs = FALSE
  /\ exclusive = FALSE /\ rival = {}
  /\ faults = 0

\* A step of the coordinator that only moves on.
GoesTo(point) == pc' = point

\* Everything the process held is gone, its locks included.
Forget ==
  /\ pc' = "idle" /\ mode' = "online"
  /\ scope' = {} /\ cover' = {}
  /\ source' = [a \in Action |-> {}]
  /\ asked' = [a \in Action |-> "none"]
  /\ todo' = {} /\ cur' = 0 /\ want' = "none" /\ deferred' = FALSE
  /\ actionErrs' = FALSE /\ errs' = FALSE
  /\ exclusive' = FALSE

\* lock.Release, or failedRestoreSummary, and the command ends.
Finish ==
  /\ pc \in {"failed", "release"}
  /\ Forget
  /\ UNCHANGED <<target, mirrors, row, rival, faults>>

Crash ==
  /\ pc # "idle"
  /\ Fault
  /\ Forget
  /\ UNCHANGED <<target, mirrors, row, rival>>

\* Restore, for one run or for all that need it.
Begin(S) ==
  /\ pc = "idle"
  /\ scope' = S
  /\ GoesTo("lock")
  /\ UNCHANGED <<target, mirrors, row, mode, cover, source, asked, work, report,
                 outside, faults>>

\* AcquireRestoreLock: the local flock and the advisory keys, in the order of
\* acquireRestoreLockLocalFirst or acquireRestoreLockPlanFirst; ownership is
\* validated.  No other host is at work: it would hold the restore key.
AcquireRestoreLock ==
  /\ pc \in {"lock", "relock"}
  /\ rival = {}
  /\ exclusive' = TRUE
  /\ GoesTo("discover")
  /\ UNCHANGED <<target, mirrors, row, mode, plan, work, report, rival, faults>>

\* A lock is busy, ownership is refused, or the retry after an outage fails:
\* what was acquired is released.
LockRefused ==
  /\ pc \in {"lock", "relock", "wait"}
  /\ FaultUnless(rival # {})
  /\ GoesTo("failed")
  /\ UNCHANGED <<target, mirrors, row, mode, plan, work, report, outside>>

\* restoreLocalControlPlane begins: the pending actions of the control stage,
\* of every run, from the ledger alone.
Offline(next) ==
  /\ mode' = next
  /\ todo' = {a \in Control : Open(ledger[a])}
  /\ source' = [a \in Action |-> {"ledger"}]
  /\ GoesTo("pick")
  /\ UNCHANGED <<target, mirrors, row, scope, cover, asked, cur, want, deferred,
                 report, outside>>

\* The database is not there: the local flock is enough for the control plane.
DatabaseUnreachable ==
  /\ pc = "lock"
  /\ Fault
  /\ Offline("reconnect")

\* waitForRestoreDatabase answers; the lock is tried once more.
DatabaseAnswers ==
  /\ pc = "wait"
  /\ GoesTo("relock")
  /\ UNCHANGED <<target, mirrors, row, mode, plan, work, report, outside, faults>>

-----------------------------------------------------------------------------
(* DiscoverRestore.                                                           *)

Tombstoned == {a \in Action : Open(db[a]) /\ ledger[a] = "restored"
                              /\ RunOf[a] \in scope}

\* prepareRestorePlan over what both mirrors still call pending.
MakePlan ==
  /\ source' = [a \in Action |->
                  (IF Open(db'[a]) THEN {"db"} ELSE {}) \cup
                  (IF Open(ledger[a]) THEN {"ledger"} ELSE {})]
  /\ asked' = [a \in Action |-> IF Open(db'[a]) THEN db'[a] ELSE ledger[a]]
  /\ todo' = {a \in Action : RunOf[a] \in scope /\ (Open(db'[a]) \/ Open(ledger[a]))}
  /\ cover' = {r \in scope : \/ scope # Run
                             \/ row[r] # "success"
                             \/ DbPending(r) \/ LedgerPending(r)}

DiscoverRestore ==
  /\ pc = "discover"
  /\ db' = [a \in Action |-> IF a \in Tombstoned THEN "restored" ELSE db[a]]
  /\ MakePlan
  /\ mode' = "online"
  /\ GoesTo("request")
  /\ UNCHANGED <<target, ledger, row, scope, cur, want, deferred, report, outside, faults>>

\* The rows cannot be read: the control plane is restored all the same, and the
\* command fails.
DiscoveryUnreachable ==
  /\ pc = "discover"
  /\ Fault
  /\ Offline("fail")

\* Something else cannot be read, or syncRestoredLocalMirrors fails for some.
DiscoveryFails ==
  /\ pc = "discover"
  /\ Fault
  /\ \E S \in SUBSET Tombstoned :
       db' = [a \in Action |-> IF a \in S THEN "restored" ELSE db[a]]
  /\ GoesTo("failed")
  /\ UNCHANGED <<target, ledger, row, mode, plan, work, report, outside>>

\* MarkRestoreRequested, then StopTaggedSessions, for every run: an error is
\* kept and the restore goes on.
RequestRestore ==
  /\ pc = "request"
  /\ \E S \in SUBSET cover :
       /\ row' = [r \in Run |-> IF r \in S THEN "restore_requested" ELSE row[r]]
       /\ \/ (S = cover /\ errs' = errs /\ NoFault)
          \/ (errs' = TRUE /\ Fault)
  /\ GoesTo("pick")
  /\ UNCHANGED <<target, mirrors, mode, plan, work, actionErrs, outside>>

-----------------------------------------------------------------------------
(* Journal.restoreActions over the coordinator's store, stage by stage.       *)

Point(from, to) ==
  /\ pc = from /\ GoesTo(to)
  /\ UNCHANGED <<row, mode, plan, outside>>

\* The next action, or the end of its stages.
Pick ==
  /\ Point("pick", "preflight")
  /\ \E a \in todo : First(a, todo) /\ cur' = a /\ todo' = todo \ {a}
  /\ deferred' = FALSE
  /\ UNCHANGED <<target, mirrors, want, report, faults>>

PickNone ==
  /\ pc = "pick" /\ todo = {}
  /\ GoesTo(CASE mode = "online" -> "repair"
            [] mode = "reconnect" -> "wait"
            [] mode = "fail" -> "failed")
  /\ UNCHANGED <<target, mirrors, row, mode, plan, work, report, outside, faults>>

Preflight ==
  /\ Point("preflight", "claim_db")
  /\ UNCHANGED <<target, mirrors, work, report, faults>>

\* markRestoreFailed begins.
GiveUp(from) ==
  /\ want' = "restore_failed"
  /\ actionErrs' = TRUE
  /\ Point(from, "set_db")
  /\ UNCHANGED <<mirrors, todo, cur, deferred, errs>>

PreflightFails ==
  /\ GiveUp("preflight")
  /\ Fault
  /\ target' = target

\* ClaimAction, the database first: a compare-and-set on the state the plan saw.
ClaimDatabase ==
  /\ Point("claim_db", "claim_ledger")
  /\ \/ "db" \notin source[cur] /\ db' = db
     \/ /\ "db" \in source[cur] /\ db[cur] = asked[cur]
        /\ db' = [db EXCEPT ![cur] = "restoring"]
  /\ UNCHANGED <<target, ledger, work, report, faults>>

ClaimLost ==
  /\ Point("claim_db", "pick")
  /\ "db" \in source[cur] /\ db[cur] # asked[cur]
  /\ UNCHANGED <<target, mirrors, work, report, faults>>

\* The call fails, whether or not the row was claimed.  The ledger may do.
ClaimDatabaseFails ==
  /\ pc = "claim_db"
  /\ "db" \in source[cur]
  /\ Fault
  /\ \/ db' = db
     \/ db[cur] = asked[cur] /\ db' = [db EXCEPT ![cur] = "restoring"]
  /\ IF "ledger" \in source[cur]
     THEN deferred' = TRUE /\ UNCHANGED actionErrs /\ Point("claim_db", "claim_ledger")
     ELSE actionErrs' = TRUE /\ UNCHANGED deferred /\ Point("claim_db", "pick")
  /\ UNCHANGED <<target, ledger, todo, cur, want, errs>>

\* Then the ledger: Put.  A database error is deferred to the group's end, and
\* does not hold up the inverse.
ClaimLedger ==
  /\ Point("claim_ledger", IF cur \in Skip THEN "precheck" ELSE "inverse")
  /\ \/ "ledger" \notin source[cur] /\ ledger' = ledger
     \/ /\ "ledger" \in source[cur] /\ Accepts(ledger[cur], "restoring")
        /\ ledger' = [ledger EXCEPT ![cur] = "restoring"]
  /\ actionErrs' = (actionErrs \/ deferred)
  /\ deferred' = FALSE
  /\ UNCHANGED <<target, db, todo, cur, want, errs, faults>>

ClaimLedgerFails ==
  /\ Point("claim_ledger", "pick")
  /\ "ledger" \in source[cur]
  /\ \/ Fault /\ \E s \in {ledger[cur], "restoring"} : ledger' = [ledger EXCEPT ![cur] = s]
     \/ ~Accepts(ledger[cur], "restoring") /\ ledger' = ledger /\ NoFault
  /\ actionErrs' = TRUE
  /\ UNCHANGED <<target, db, work, errs>>

\* Mutant: the inverse of a marked action is skipped without asking.
SkipInverseUnverified ==
  /\ Point("precheck", "set_db")
  /\ want' = "restored"
  /\ UNCHANGED <<target, mirrors, todo, cur, deferred, report, faults>>

\* VerifyRestored before the inverse of an action that skips it.
SkipInverse ==
  /\ Point("precheck", "set_db")
  /\ target[cur] = "clean"
  /\ want' = "restored"
  /\ UNCHANGED <<target, mirrors, todo, cur, deferred, report, faults>>

DoNotSkip ==
  /\ Point("precheck", "inverse")
  /\ FaultUnless(target[cur] = "faulty")
  /\ UNCHANGED <<target, mirrors, work, report>>

RunInverse ==
  /\ Point("inverse", "verify_action")
  /\ cur \in Skip => target[cur] = "faulty"
  /\ target' = [target EXCEPT ![cur] = "clean"]
  /\ UNCHANGED <<mirrors, work, report, faults>>

InverseFails ==
  /\ GiveUp("inverse")
  /\ FaultUnless(cur \in Skip /\ target[cur] = "clean")
  /\ \E t \in {target[cur], "clean"} : target' = [target EXCEPT ![cur] = t]

VerifyAction ==
  /\ Point("verify_action", "set_db")
  /\ target[cur] = "clean"
  /\ want' = "restored"
  /\ UNCHANGED <<target, mirrors, todo, cur, deferred, report, faults>>

VerifyActionFails ==
  /\ GiveUp("verify_action")
  /\ Fault
  /\ target' = target

-----------------------------------------------------------------------------
(* setSourceState: the database, then the ledger.                             *)

AfterState == IF mode = "reconcile" THEN "reconcile" ELSE "pick"

\* An error of the group, or of the reconciliation.
Failed ==
  IF mode = "reconcile" THEN errs' = TRUE /\ UNCHANGED actionErrs
                        ELSE actionErrs' = TRUE /\ UNCHANGED errs

SetDatabase ==
  /\ Point("set_db", "set_ledger")
  /\ db' = IF "db" \in source[cur] THEN [db EXCEPT ![cur] = want] ELSE db
  /\ UNCHANGED <<target, ledger, work, report, faults>>

SetDatabaseFails ==
  /\ Point("set_db", "set_ledger")
  /\ "db" \in source[cur]
  /\ Fault
  /\ \E s \in {db[cur], want} : db' = [db EXCEPT ![cur] = s]
  /\ deferred' = TRUE
  /\ UNCHANGED <<target, ledger, todo, cur, want, report>>

\* MarkRestored, or Put.
SetLedger ==
  /\ Point("set_ledger", AfterState)
  /\ \/ "ledger" \notin source[cur] /\ ledger' = ledger
     \/ /\ "ledger" \in source[cur]
        /\ want = "restored" \/ Accepts(ledger[cur], want)
        /\ ledger' = [ledger EXCEPT ![cur] = want]
  /\ IF deferred THEN Failed ELSE UNCHANGED report
  /\ deferred' = FALSE
  /\ UNCHANGED <<target, db, todo, cur, want, faults>>

SetLedgerFails ==
  /\ Point("set_ledger", AfterState)
  /\ "ledger" \in source[cur]
  /\ \/ Fault /\ \E s \in {ledger[cur], want} : ledger' = [ledger EXCEPT ![cur] = s]
     \/ /\ want # "restored" /\ ~Accepts(ledger[cur], want)
        /\ ledger' = ledger /\ NoFault
  /\ Failed
  /\ deferred' = FALSE
  /\ UNCHANGED <<target, db, todo, cur, want>>

-----------------------------------------------------------------------------
(* After the stages.                                                          *)

Planned == {a \in Action : source[a] # {} /\ RunOf[a] \in cover}

\* RepairBaseline, when the plan holds a plan-change action; the database must
\* be back.  Then the errors of the actions, if any, are reconciled.
RepairBaseline ==
  /\ pc = "repair"
  /\ \/ /\ target' = [a \in Action |-> IF a \in Skip /\ Planned \cap Skip # {}
                                       THEN "clean" ELSE target[a]]
        /\ errs' = errs /\ NoFault
     \/ Planned \cap Skip # {} /\ target' = target /\ errs' = TRUE /\ Fault
  /\ IF actionErrs
     THEN GoesTo("reconcile") /\ mode' = "reconcile" /\ todo' = Planned \cap Skip
     ELSE GoesTo("verify") /\ mode' = mode /\ todo' = todo
  /\ UNCHANGED <<mirrors, row, plan, cur, want, deferred, actionErrs, outside>>

\* ReconcileRestoredActions: one action whose target proves restored.
Reconcile ==
  /\ pc = "reconcile" /\ todo # {}
  /\ \E a \in todo :
       /\ todo' = todo \ {a}
       /\ \/ /\ target[a] = "clean"
             /\ cur' = a /\ want' = "restored" /\ GoesTo("set_db") /\ NoFault
          \/ /\ FaultUnless(target[a] = "faulty")
             /\ UNCHANGED <<cur, want, pc>>
  /\ UNCHANGED <<target, mirrors, row, mode, plan, deferred, report, outside>>

\* The action errors are settled by a reconciliation without error; whether
\* that was enough is for VerifyRestore to say.
Reconciled ==
  /\ pc = "reconcile" /\ todo = {}
  /\ actionErrs' = errs
  /\ mode' = "online"
  /\ GoesTo("verify")
  /\ UNCHANGED <<target, mirrors, row, plan, work, errs, outside, faults>>

\* RedetectTopology and VerifyRestore.
Verified == \A r \in cover : ~DbPending(r) /\ ~LedgerPending(r)

VerifyRestore ==
  /\ pc = "verify"
  /\ \/ errs' = (errs \/ actionErrs \/ ~Verified) /\ NoFault
     \/ errs' = TRUE /\ Fault
  /\ todo' = cover
  /\ GoesTo("mark")
  /\ UNCHANGED <<target, mirrors, row, mode, plan, cur, want, deferred, actionErrs, outside>>

\* markTerminalRestoreOutcomes: newest run first, under a deadline of its own.
\* When a mark fails, the runs left and then the runs already marked success
\* are marked failed.
Newest(r, S) == r \in S /\ \A s \in S : s <= r
RowOutcome == IF errs THEN "restore_failed" ELSE "success"

MarkOutcome ==
  /\ pc = "mark"
  /\ \E r \in todo :
       /\ Newest(r, todo)
       /\ todo' = todo \ {r}
       /\ \/ row' = [row EXCEPT ![r] = RowOutcome] /\ errs' = errs /\ mode' = mode /\ NoFault
          \/ /\ \E s \in {row[r], RowOutcome} : row' = [row EXCEPT ![r] = s]
             /\ errs' = TRUE
             /\ mode' = IF errs THEN mode ELSE "unmark"
             /\ Fault
  /\ UNCHANGED <<target, mirrors, pc, plan, cur, want, deferred, actionErrs, outside>>

MarksMade ==
  /\ pc = "mark" /\ todo = {}
  /\ IF mode = "unmark"
     THEN \E S \in SUBSET cover :
            /\ row' = [r \in Run |-> IF r \in S THEN "restore_failed" ELSE row[r]]
            /\ FaultUnless(S = cover)
     ELSE row' = row /\ NoFault
  /\ mode' = "online"
  /\ GoesTo("release")
  /\ UNCHANGED <<target, mirrors, plan, work, report, outside>>

-----------------------------------------------------------------------------
\* The server drops the session of the restore lock; another host, finding the
\* restore key free, works on the table: its claims are the same statement.
LoseLock ==
  /\ exclusive
  /\ Fault
  /\ exclusive' = FALSE
  /\ UNCHANGED <<target, mirrors, row, pc, mode, plan, work, report, rival>>

RivalClaims(a) ==
  /\ pc # "idle" /\ ~exclusive /\ cover # {}
  /\ Open(db[a])
  /\ db' = [db EXCEPT ![a] = "restoring"]
  /\ rival' = rival \cup {a}
  /\ UNCHANGED <<target, ledger, row, pc, mode, plan, work, report, exclusive, faults>>

RivalRestores(a) ==
  /\ a \in rival
  /\ target' = [target EXCEPT ![a] = "clean"]
  /\ db' = [db EXCEPT ![a] = "restored"]
  /\ rival' = rival \ {a}
  /\ UNCHANGED <<ledger, row, pc, mode, plan, work, report, exclusive, faults>>

BeginAll == Begin(Run)

Work ==
  \/ ClaimLedgerFails \/ SetLedgerFails
  \/ Finish \/ AcquireRestoreLock \/ LockRefused \/ DatabaseAnswers \/ DiscoverRestore
  \/ RequestRestore \/ Pick \/ PickNone \/ Preflight \/ ClaimDatabase \/ ClaimLost
  \/ ClaimLedger \/ SkipInverse \/ DoNotSkip \/ RunInverse \/ InverseFails
  \/ VerifyAction \/ SetDatabase \/ SetLedger \/ RepairBaseline \/ Reconcile
  \/ Reconciled \/ VerifyRestore \/ MarkOutcome \/ MarksMade

Failures ==
  \/ Crash \/ DatabaseUnreachable \/ DiscoveryUnreachable \/ DiscoveryFails
  \/ PreflightFails \/ ClaimDatabaseFails
  \/ VerifyActionFails \/ SetDatabaseFails \/ LoseLock

Next ==
  \/ BeginAll
  \/ \E r \in Run : Begin({r})
  \/ Work
  \/ Failures
  \/ \E a \in Action : RivalClaims(a) \/ RivalRestores(a)

Spec == Init /\ [][Next]_vars

\* The process and the other host run, and the operator restores everything
\* again and again.
FairSpec ==
  /\ Spec
  /\ WF_vars(Work)
  /\ SF_vars(BeginAll)
  /\ \A a \in Action : WF_vars(RivalRestores(a))

-----------------------------------------------------------------------------
(* Properties.                                                                *)

Points == {"idle", "lock", "relock", "wait", "discover", "request", "pick",
           "preflight", "claim_db", "claim_ledger", "precheck", "inverse",
           "verify_action", "set_db", "set_ledger", "repair", "reconcile",
           "verify", "mark", "release", "failed"}

\* Types; the ledger never mirrors a statement of the database stage.
TypeOK ==
  /\ target \in [Action -> {"faulty", "clean"}]
  /\ db \in [Action -> State \cup {"none"}]
  /\ ledger \in [Action -> State \cup {"none"}]
  /\ \A a \in Sql : ledger[a] = "none"
  /\ row \in [Run -> {"running", "restore_requested", "success", "restore_failed"}]
  /\ pc \in Points
  /\ mode \in {"online", "reconnect", "fail", "reconcile", "unmark"}
  /\ scope \subseteq Run /\ cover \subseteq Run
  /\ source \in [Action -> SUBSET {"db", "ledger"}]
  /\ asked \in [Action -> State \cup {"none"}]
  /\ todo \subseteq Action \cup Run
  /\ cur \in Action \cup {0}
  /\ want \in State \cup {"none"}
  /\ {deferred, actionErrs, errs, exclusive} \subseteq BOOLEAN
  /\ rival \subseteq Action
  /\ faults \in 0..MaxFaults

\* A mirror that calls an action restored is right, whichever of the two writes
\* failed, whoever wrote it, and however often the coordinator died: the target
\* is clean (setSourceState, syncRestoredLocalMirrors, ReconcileRestoredActions).
RestoredIsClean ==
  \A a \in Action : "restored" \in {db[a], ledger[a]} => target[a] = "clean"

\* A tombstone ends an action: its inverse is not run again by any later
\* restore, although the database may have missed the update and still call the
\* action pending (restoreLocalControlPlane, then syncRestoredLocalMirrors).
TombstoneIsFinal ==
  pc \in {"inverse", "precheck"} => ledger[cur] # "restored"

\* An inverse runs only after a mirror has recorded that it is about to: if the
\* process dies in it, the action is not taken for one that was never touched.
InverseIsRecorded ==
  pc = "inverse" => "restoring" \in {db[cur], ledger[cur]} \/ db[cur] = "restored"

\* meta_runs never calls a run successful while a mirror has a pending action
\* of it or a target of it is faulty, although the two mirrors and the row are
\* written by separate calls (VerifyRestore, markTerminalRestoreOutcomes).
SuccessIsComplete ==
  \A a \in Action :
    row[RunOf[a]] = "success" =>
      target[a] = "clean" /\ ~Open(db[a]) /\ ~Open(ledger[a])

\* Restoring again and again ends with nothing left: no order of failures,
\* outages and crashes leaves the mirrors in states that no restore can finish.
Converges ==
  <>[](\A a \in Action : target[a] = "clean" /\ ~Open(db[a]) /\ ~Open(ledger[a]))

\* What the coordinator promises after any failures: mirrors that tell the
\* truth, inverses that are recorded and not repeated, and success only for a
\* run with nothing left.
CoordinatorSafety ==
  /\ TypeOK
  /\ RestoredIsClean
  /\ TombstoneIsFinal
  /\ InverseIsRecorded
  /\ SuccessIsComplete
=============================================================================
