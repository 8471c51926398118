---------------------------- MODULE CommandLocks ----------------------------
(* The gsbench commands that run side by side on one benchmark schema and the *)
(* advisory locks that keep them apart (run_lock.go, app.go,                  *)
(* app_plan_phases.go, plan_control.go).                                      *)
(*                                                                            *)
(* Every lock lives in a database session of its own, beside the sessions     *)
(* that do the work: the lock is held as long as that session lives, and the  *)
(* process learns of its loss only when it gives the lock back.  A process    *)
(* executes one command, may die at any step, and its statements may fail.    *)
EXTENDS Naturals

CONSTANTS Process,    \* one gsbench command each
          Command,    \* the commands they may be given
          Code,       \* plan scenarios (601-606)
          LockSessionsTagged, \* database.application_name is "gsbench", as
                              \* shipped: lock sessions match gsbench/%
          MaxFaults,  \* bound on failed statements and dead processes
          MaxLost     \* bound on lock sessions the server drops

AllCommands == {"init", "run", "plan_init", "fault", "stop", "cleanup"}

ASSUME CommandLocksConstants ==
  /\ Command \subseteq AllCommands
  /\ LockSessionsTagged \in BOOLEAN
  /\ MaxFaults \in Nat
  /\ MaxLost \in Nat

VARIABLES cmd,      \* the command of each process
          code,     \* its scenario, for plan_init and fault
          pc,       \* where it is
          held,     \* the locks its living lock sessions hold
          row,      \* the status of its meta_runs row
          started,  \* started_at of that row
          clock,    \* the last started_at given out
          schema,   \* the benchmark schema exists
          faults, lost,
          bereft    \* history: whose lock sessions were ended by others

vars == <<cmd, code, pc, held, row, started, clock, schema, faults, lost, bereft>>
meta == <<row, started, clock, schema>>
args == <<cmd, code>>

-----------------------------------------------------------------------------
(* Locks.  "lease" and "lifecycle" are the shared and the exclusive mode of   *)
(* the dataset lifecycle key; "run" is the key of the process's own run.      *)
Lock == {"lease", "lifecycle", "plan", "restore", "activity", "run"}

Conflicting(k) ==
  CASE k = "lease" -> {"lifecycle"}
    [] k = "lifecycle" -> {"lease", "lifecycle"}
    [] k = "run" -> {}
    [] OTHER -> {k}

Free(k) == \A q \in Process : held[q] \cap Conflicting(k) = {}

Active(p) == row[p] \in {"preparing", "workload_running"}
Newest(p) == Active(p) /\ \A q \in Process : Active(q) => started[q] <= started[p]

Goto(p, point) == pc' = [pc EXCEPT ![p] = point]
Fault == faults < MaxFaults /\ faults' = faults + 1
NoFault == faults' = faults

\* A step of p from one point to another that touches no lock and no table.
Step(p, from, to) ==
  /\ pc[p] = from /\ Goto(p, to)
  /\ UNCHANGED <<args, held, meta, faults, lost, bereft>>

\* pg_try_advisory_lock in a new session, and what follows when it succeeds.
TryLock(p, k, from, to) ==
  /\ pc[p] = from
  /\ Free(k)
  /\ held' = [held EXCEPT ![p] = @ \cup {k}]
  /\ Goto(p, to)
  /\ UNCHANGED <<args, meta, faults, lost, bereft>>

Busy(p, k, from, to) == ~Free(k) /\ Step(p, from, to)

Unlock(p, k, from, to) ==
  /\ pc[p] = from
  /\ held' = [held EXCEPT ![p] = @ \ {k}]
  /\ Goto(p, to)
  /\ UNCHANGED <<args, meta, faults, lost, bereft>>

\* An update of meta_runs that sets the status of the rows in S.
SetStatus(S, status) ==
  /\ row' = [q \in Process |-> IF q \in S THEN status ELSE row[q]]
  /\ UNCHANGED <<started, clock, schema>>

-----------------------------------------------------------------------------
Init ==
  /\ cmd \in [Process -> {"none"}]
  /\ code \in [Process -> Code]
  /\ pc = [p \in Process |-> "off"]
  /\ held = [p \in Process |-> {}]
  /\ row = [p \in Process |-> "none"]
  /\ started = [p \in Process |-> 0]
  /\ clock = 0
  /\ schema \in BOOLEAN
  /\ faults = 0
  /\ lost = 0
  /\ bereft = {}

\* executeCommand: init and stop need no schema; the others look for it before
\* any lock is taken.
Invoke(p) ==
  /\ pc[p] = "off"
  /\ \E c \in Command :
       /\ c \in {"init", "stop"} \/ schema
       /\ cmd' = [cmd EXCEPT ![p] = c]
       /\ Goto(p, CASE c = "stop" -> "request"
                    [] c = "cleanup" -> "exclude"
                    [] OTHER -> "lease")
  /\ UNCHANGED <<code, held, meta, faults, lost, bereft>>

AfterLease == [init |-> "init_plan", run |-> "run_lock",
               plan_init |-> "pi_control", fault |-> "f_control"]

\* Mutant: fault is not covered by the shared lease.
LeaseExceptFault(p) ==
  \/ /\ cmd[p] \in DOMAIN AfterLease \ {"fault"}
     /\ TryLock(p, "lease", "lease", AfterLease[cmd[p]])
  \/ cmd[p] = "fault" /\ Step(p, "lease", "f_control")
  \/ cmd[p] # "fault" /\ Busy(p, "lease", "lease", "leave")

\* withDatasetExecutionDatabaseLease: a single attempt.
Lease(p) ==
  \/ /\ cmd[p] \in DOMAIN AfterLease
     /\ TryLock(p, "lease", "lease", AfterLease[cmd[p]])
  \/ Busy(p, "lease", "lease", "leave")

\* The deferred releases, innermost first, and the process exits.
Leave(p) ==
  /\ pc[p] = "leave"
  /\ held' = [held EXCEPT ![p] = {}]
  /\ Goto(p, "done")
  /\ UNCHANGED <<args, meta, faults, lost, bereft>>

-----------------------------------------------------------------------------
(* init: the plan lock and the restore lock, one attempt each.                *)

InitPlan(p) ==
  \/ TryLock(p, "plan", "init_plan", "init_restore")
  \/ Busy(p, "plan", "init_plan", "leave")

InitRestore(p) ==
  \/ TryLock(p, "restore", "init_restore", "init_mutate")
  \/ Busy(p, "restore", "init_restore", "leave")

\* manager.Init ends: the schema is there, or was left as it was.
InitMutate(p) ==
  /\ pc[p] = "init_mutate"
  /\ \/ schema' = TRUE /\ NoFault
     \/ schema' = schema /\ Fault
  /\ Goto(p, "leave")
  /\ UNCHANGED <<args, held, row, started, clock, lost, bereft>>

InitCommand(p) == InitPlan(p) \/ InitRestore(p) \/ InitMutate(p)

-----------------------------------------------------------------------------
(* run (scenarios other than 601-606).                                        *)

RunLock(p) == TryLock(p, "run", "run_lock", "run_start")

\* startRun: the row is recorded, or a warning is logged and the run goes on.
StartRun(p) ==
  /\ pc[p] = "run_start"
  /\ \/ schema /\ SetStatus({p}, "running") /\ NoFault
     \/ ~schema /\ UNCHANGED meta /\ NoFault
     \/ UNCHANGED meta /\ Fault
  /\ Goto(p, "run_work")
  /\ UNCHANGED <<args, held, lost, bereft>>

\* Mutant: the watcher waits for a status nobody writes.
WatchStopFinished(p) ==
  schema /\ row[p] = "finished" /\ Step(p, "run_work", "run_stop")

\* watchStop polls the row and cancels the run.
WatchStop(p) ==
  schema /\ row[p] = "stop_requested" /\ Step(p, "run_work", "run_stop")

\* The duration is over, or a scenario failed.
WorkEnds(p) == Step(p, "run_work", "run_stop")

\* recordRunOutcome: whatever the status was; an error is only a warning.
RecordRunOutcome(p) ==
  /\ pc[p] = "run_stop"
  /\ \/ schema /\ row[p] # "none" /\ SetStatus({p}, "finished") /\ NoFault
     \/ (~schema \/ row[p] = "none") /\ UNCHANGED meta /\ NoFault
     \/ UNCHANGED meta /\ Fault
  /\ Goto(p, "leave")
  /\ UNCHANGED <<args, held, lost, bereft>>

RunCommand(p) == RunLock(p) \/ StartRun(p) \/ WatchStop(p) \/ RecordRunOutcome(p)

-----------------------------------------------------------------------------
(* A probe takes the lock it asks about and gives it back (DatabaseRunLockHeld). *)

Probe(p, from, probing, alive) ==
  \/ TryLock(p, "activity", from, probing)
  \/ Busy(p, "activity", from, alive)

\* Waiting for the plan lock with retries; giving up is possible while it is busy.
AwaitPlan(p, from, to, giveUp) ==
  TryLock(p, "plan", from, to) \/ Busy(p, "plan", from, giveUp)

-----------------------------------------------------------------------------
(* run <code> init: a resident plan workload (runPlanInit).                   *)

PlanControl(p) == AwaitPlan(p, "pi_control", "pi_resolve", "leave")

\* ResolveAnyWorkload, then WorkloadAlive if a row looks active.
PlanResolve(p) ==
  \/ (\E q \in Process : Active(q)) /\ schema /\ Step(p, "pi_resolve", "pi_probe")
  \/ (\A q \in Process : ~Active(q)) /\ schema /\ Step(p, "pi_resolve", "pi_activity")
  \/ ~schema /\ Step(p, "pi_resolve", "leave")

PlanProbe(p) ==
  \/ Probe(p, "pi_probe", "pi_probing", "pi_activity")
  \/ Unlock(p, "activity", "pi_probing", "pi_stale")

\* MarkWorkloadsStale: an error is only a warning.
MarkWorkloadsStale(p) ==
  /\ pc[p] = "pi_stale"
  /\ \/ SetStatus({q \in Process : schema /\ Active(q)}, "stale") /\ NoFault
     \/ UNCHANGED meta /\ Fault
  /\ Goto(p, "pi_activity")
  /\ UNCHANGED <<args, held, lost, bereft>>

PlanActivity(p) ==
  \/ TryLock(p, "activity", "pi_activity", "pi_start")
  \/ Busy(p, "activity", "pi_activity", "leave")

\* StartWorkload: the row, or the command ends.
StartWorkload(p) ==
  /\ pc[p] = "pi_start"
  /\ \/ /\ schema /\ NoFault
        /\ row' = [row EXCEPT ![p] = "preparing"]
        /\ clock' = clock + 1
        /\ started' = [started EXCEPT ![p] = clock + 1]
        /\ schema' = schema
        /\ Goto(p, "pi_release")
     \/ ((~schema /\ NoFault) \/ Fault) /\ UNCHANGED meta /\ Goto(p, "leave")
  /\ UNCHANGED <<args, held, lost, bereft>>

PlanRelease(p) == Unlock(p, "plan", "pi_release", "pi_warm")

\* Traffic is ready: MarkWorkloadRunning updates a row that is still preparing.
MarkWorkloadRunning(p) ==
  /\ pc[p] = "pi_warm"
  /\ \/ /\ schema /\ row[p] = "preparing" /\ NoFault
        /\ SetStatus({p}, "workload_running") /\ Goto(p, "pi_traffic")
     \/ /\ ((row[p] # "preparing" \/ ~schema) /\ NoFault) \/ Fault
        /\ UNCHANGED meta /\ Goto(p, "pi_finish")
  /\ UNCHANGED <<args, held, lost, bereft>>

\* Mutant: a heartbeat that updates no row is not an error.
HeartbeatIgnored(p) == ~schema /\ Step(p, "pi_traffic", "pi_finish")

\* HeartbeatWorkload finds that the row is no longer running: traffic stops.
Heartbeat(p) ==
  (row[p] # "workload_running" \/ ~schema) /\ Step(p, "pi_traffic", "pi_finish")

\* The duration is over, or the traffic failed.
TrafficEnds(p) == Step(p, "pi_traffic", "pi_finish")

\* Mutant: the row is finished without the plan lock.
PlanFinishUnlocked(p) == Step(p, "pi_finish", "pi_record")

\* acquirePlanFinalizationLock, for at most five seconds.
PlanFinish(p) == AwaitPlan(p, "pi_finish", "pi_record", "leave")

FinishWorkload(p) ==
  /\ pc[p] = "pi_record"
  /\ \/ SetStatus({q \in {p} : schema /\ Active(q)}, "finished") /\ NoFault
     \/ UNCHANGED meta /\ Fault
  /\ Goto(p, "leave")
  /\ UNCHANGED <<args, held, lost, bereft>>

PlanInitCommand(p) ==
  \/ PlanControl(p) \/ PlanResolve(p) \/ PlanProbe(p) \/ MarkWorkloadsStale(p)
  \/ PlanActivity(p) \/ StartWorkload(p) \/ PlanRelease(p)
  \/ MarkWorkloadRunning(p) \/ Heartbeat(p) \/ PlanFinish(p) \/ FinishWorkload(p)

-----------------------------------------------------------------------------
(* run <code> fault (executePlanFaultAction).                                 *)

FaultControl(p) == AwaitPlan(p, "f_control", "f_resolve", "leave")

\* ResolveWorkload: the newest row that looks active is running p's scenario.
Resolved(p, q) == Newest(q) /\ row[q] = "workload_running" /\ code[q] = code[p]

FaultResolve(p) ==
  \/ schema /\ (\E q \in Process : Resolved(p, q)) /\ Step(p, "f_resolve", "f_probe")
  \/ ~(schema /\ \E q \in Process : Resolved(p, q)) /\ Step(p, "f_resolve", "leave")

FaultProbe(p) ==
  \/ Probe(p, "f_probe", "f_probing", "f_record")
  \/ Unlock(p, "activity", "f_probing", "leave")

\* RecordFaultStart: a row, or only a warning.
RecordFaultStart(p) ==
  /\ pc[p] = "f_record"
  /\ \/ schema /\ SetStatus({p}, "running") /\ NoFault
     \/ ~schema /\ UNCHANGED meta /\ NoFault
     \/ UNCHANGED meta /\ Fault
  /\ Goto(p, "f_apply")
  /\ UNCHANGED <<args, held, lost, bereft>>

\* ApplyFault and VerifyFault: what they do to the catalog is Journal's.
ApplyFault(p) == Step(p, "f_apply", "f_finish")

RecordFaultFinish(p) ==
  /\ pc[p] = "f_finish"
  /\ \/ SetStatus({q \in {p} : schema /\ row[q] # "none"}, "finished") /\ NoFault
     \/ UNCHANGED meta /\ Fault
  /\ Goto(p, "leave")
  /\ UNCHANGED <<args, held, lost, bereft>>

FaultCommand(p) ==
  \/ FaultControl(p) \/ FaultResolve(p) \/ FaultProbe(p)
  \/ RecordFaultStart(p) \/ ApplyFault(p) \/ RecordFaultFinish(p)

-----------------------------------------------------------------------------
(* stop, and the stop inside cleanup --data, both without a run ID.           *)

\* requestRunsStop: only rows in status running; an error is only a warning.
RequestStop(p) ==
  /\ pc[p] = "request"
  /\ \/ SetStatus({q \in Process : schema /\ row[q] = "running"}, "stop_requested")
        /\ NoFault
     \/ UNCHANGED meta /\ Fault
  /\ Goto(p, "terminate")
  /\ UNCHANGED <<args, held, lost, bereft>>

\* StopTaggedSessions: every session named gsbench/% except the one asking,
\* the caller's own lock sessions included.
Terminate(p) ==
  /\ pc[p] = "terminate"
  /\ LET hit == {q \in Process : LockSessionsTagged /\ held[q] # {}}
     IN  /\ held' = [q \in Process |-> IF q \in hit THEN {} ELSE held[q]]
         /\ bereft' = bereft \cup hit
  /\ Goto(p, "quiesce")
  /\ UNCHANGED <<args, meta, faults, lost>>

\* No tagged session was left when it looked, or its context is over.
Quiesced(p) ==
  \/ cmd[p] = "cleanup" /\ Step(p, "quiesce", "c_probe")
  \/ Step(p, "quiesce", "leave")

StopCommand(p) == RequestStop(p) \/ Terminate(p) \/ Quiesced(p)

-----------------------------------------------------------------------------
(* cleanup --data.                                                            *)

\* withDatasetLifecycleDatabaseLock: retried until the context is over.
Exclude(p) ==
  \/ TryLock(p, "lifecycle", "exclude", "request")
  \/ Busy(p, "lifecycle", "exclude", "leave")

\* ensureNoPlanWorkload.
CleanupProbe(p) ==
  \/ Probe(p, "c_probe", "c_probing", "leave")
  \/ Unlock(p, "activity", "c_probing", "c_runs")

\* ensureNoActiveRunExecutionLeases: the runs that meta_runs knows.
LiveRun(q) == row[q] # "none" /\ "run" \in held[q]

CleanupRuns(p) ==
  \/ (\A q \in Process : ~LiveRun(q)) /\ Step(p, "c_runs", "c_drop")
  \/ (\E q \in Process : LiveRun(q)) /\ Step(p, "c_runs", "leave")

\* DROP SCHEMA ... CASCADE.
DropSchema(p) ==
  /\ pc[p] = "c_drop"
  /\ \/ /\ schema' = FALSE
        /\ row' = [q \in Process |-> "none"]
        /\ NoFault
     \/ UNCHANGED <<schema, row>> /\ Fault
  /\ Goto(p, "leave")
  /\ UNCHANGED <<args, held, started, clock, lost, bereft>>

CleanupCommand(p) == Exclude(p) \/ CleanupProbe(p) \/ CleanupRuns(p) \/ DropSchema(p)

-----------------------------------------------------------------------------
(* Failures.                                                                  *)

Running(p) == pc[p] \notin {"off", "done", "dead"}

\* Where an error, or the end of the context, ends the command.  Elsewhere an
\* error is a warning, or the way out leads through the final record.
Fallible ==
  {"lease", "init_plan", "init_restore", "run_lock", "pi_control", "pi_resolve",
   "pi_probe", "pi_probing", "pi_activity", "pi_release", "pi_warm", "pi_finish",
   "f_control", "f_resolve", "f_probe", "f_probing",
   "exclude", "c_probe", "c_probing", "c_runs"}

GiveUp(p) ==
  /\ pc[p] \in Fallible
  /\ Fault
  /\ Goto(p, "leave")
  /\ UNCHANGED <<args, held, meta, lost, bereft>>

\* The process dies; the server closes its sessions some time later.
Dies(p) ==
  /\ Running(p)
  /\ Fault
  /\ Goto(p, "dead")
  /\ UNCHANGED <<args, held, meta, lost, bereft>>

Reap(p) ==
  /\ pc[p] = "dead" /\ held[p] # {}
  /\ held' = [held EXCEPT ![p] = {}]
  /\ UNCHANGED <<args, pc, meta, faults, lost, bereft>>

\* The server drops one lock session; the process goes on.
LoseSession(p) ==
  /\ lost < MaxLost
  /\ lost' = lost + 1
  /\ \E k \in held[p] : held' = [held EXCEPT ![p] = @ \ {k}]
  /\ bereft' = bereft \cup {p}
  /\ UNCHANGED <<args, pc, meta, faults>>

Proceed(p) ==
  \/ Lease(p) \/ Leave(p) \/ Reap(p)
  \/ InitCommand(p) \/ RunCommand(p) \/ PlanInitCommand(p) \/ FaultCommand(p)
  \/ StopCommand(p) \/ CleanupCommand(p)

Next ==
  \E p \in Process :
    \/ Invoke(p) \/ Proceed(p) \/ WorkEnds(p) \/ TrafficEnds(p)
    \/ GiveUp(p) \/ Dies(p) \/ LoseSession(p)

Spec == Init /\ [][Next]_vars

\* A command that can take a step takes it.  Nothing is assumed of the duration
\* of a workload, or of the failures.
FairSpec == Spec /\ \A p \in Process : WF_vars(Proceed(p))

-----------------------------------------------------------------------------
(* Properties.                                                                *)

Point ==
  {"off", "lease", "leave", "done", "dead", "init_plan", "init_restore", "init_mutate",
   "run_lock", "run_start", "run_work", "run_stop",
   "pi_control", "pi_resolve", "pi_probe", "pi_probing", "pi_stale", "pi_activity",
   "pi_start", "pi_release", "pi_warm", "pi_traffic", "pi_finish", "pi_record",
   "f_control", "f_resolve", "f_probe", "f_probing", "f_record", "f_apply", "f_finish",
   "request", "terminate", "quiesce", "exclude", "c_probe", "c_probing", "c_runs", "c_drop"}

\* Every variable holds a value of its kind.
TypeOK ==
  /\ cmd \in [Process -> Command \cup {"none"}]
  /\ code \in [Process -> Code]
  /\ pc \in [Process -> Point]
  /\ held \in [Process -> SUBSET Lock]
  /\ row \in [Process -> {"none", "running", "stop_requested", "preparing",
                          "workload_running", "stale", "finished"}]
  /\ started \in [Process -> 0..clock]
  /\ clock \in Nat
  /\ schema \in BOOLEAN
  /\ faults \in 0..MaxFaults
  /\ lost \in 0..MaxLost
  /\ bereft \subseteq Process

\* Between its shared lease and its exit a command works on the schema.
Inside(p) ==
  /\ cmd[p] \in DOMAIN AfterLease
  /\ pc[p] \notin {"lease", "leave", "done", "dead"}

\* The schema is dropped only when no other command is at work on it
\* (withDatasetLifecycleDatabaseLock against withDatasetExecutionDatabaseLease).
DropAlone ==
  \A p, q \in Process : pc[p] = "c_drop" => ~Inside(q)

\* Under any configuration and whatever the server drops: a drop meets a command at
\* work only if one of the two has lost a lock session of its own.
DropMeetsOnlyBereft ==
  \A p, q \in Process : (pc[p] = "c_drop" /\ Inside(q)) => {p, q} \cap bereft # {}

\* While a plan workload lives nobody marks its row stale or finished, so that
\* faults find it and its heartbeat goes on (runPlanInit, MarkWorkloadsStale).
LiveWorkloadKeepsItsRow ==
  \A p \in Process :
    /\ pc[p] \in {"pi_release", "pi_warm"} => row[p] = "preparing"
    /\ pc[p] = "pi_traffic" => row[p] = "workload_running"

\* From the moment a fault has checked its workload until the fault is recorded,
\* that workload's row is the newest active one and still says running: the
\* workload cannot be finished and no other started meanwhile.
FaultKeepsItsWorkload ==
  \A p \in Process :
    pc[p] \in {"f_probe", "f_record", "f_apply", "f_finish"} =>
      \E q \in Process : Resolved(p, q)

\* Of two commands that keep their lock sessions, dataset initialization and fault
\* injection never change the schema at once.
MutatorsApart ==
  \A p, q \in Process \ bereft :
    /\ pc[p] = "init_mutate"
    /\ pc[q] \in {"init_mutate", "f_apply", "pi_stale", "pi_start"}
    => p = q

\* Nor is the activity lock found busy because of a probe: a workload is refused
\* only by a workload.
ProbeNeverRefuses ==
  \A p, q \in Process \ bereft :
    ~(pc[p] = "pi_activity" /\ pc[q] \in {"pi_probing", "f_probing", "c_probing"})

\* What the advisory locks and the rows keep apart, besides the drop.  The rows are
\* everybody's: a command that goes on without its lock may mark any of them.
CommandsApart ==
  /\ TypeOK
  /\ bereft = {} => LiveWorkloadKeepsItsRow /\ FaultKeepsItsWorkload
  /\ MutatorsApart
  /\ ProbeNeverRefuses

Ended(p) == pc[p] \in {"leave", "done", "dead"}

\* A run that is asked to stop ends, however long its workload would take.
StopReachesRuns ==
  \A p \in Process : (cmd[p] = "run" /\ row[p] = "stop_requested") ~> Ended(p)

\* A workload that lost its activity lock and was marked stale ends, so that two
\* workloads do not go on side by side.
StaleWorkloadEnds ==
  \A p \in Process : row[p] = "stale" ~> Ended(p)
=============================================================================
