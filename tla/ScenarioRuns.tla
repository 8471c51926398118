---------------------------- MODULE ScenarioRuns ----------------------------
(* gsbench run: the runner prepares every scenario, opens a barrier once all  *)
(* of them are ready or have failed, and takes each through Ramp, Hold,       *)
(* Verify and Stop (runner.go); what the registered scenarios do in these     *)
(* phases with their sessions and goroutines (scenario_*.go,                  *)
(* resource_workloads.go).  Lock scenarios are in LockEngine, the lanes of    *)
(* the fixed-worker scenarios in FixedRun.                                    *)
(*                                                                            *)
(* A scenario's sessions are counted, its goroutines too: workers of a group, *)
(* connections kept busy, or the one VACUUM.                                  *)
EXTENDS Naturals, FiniteSets

CONSTANTS Slot,   \* the scenarios of one run
          Plans,  \* what kinds run together: functions on sets of slots
          Width   \* workers or connections of each scenario

Kinds == {"fixed", "resource", "churn", "pressure", "total", "retention",
          "connections", "threads", "vacuum"}

ASSUME ScenarioRunsConstants ==
  /\ IsFiniteSet(Slot)
  /\ \A plan \in Plans : DOMAIN plan \subseteq Slot /\ plan \in [DOMAIN plan -> Kinds]
  /\ Width \in Nat \ {0}

VARIABLES parent,     \* the context of the run: "live" or "canceled"
          workload,   \* the error of the context with the run's duration:
                      \* "none" before the barrier, then "nil" until it ends
          sc          \* for each scenario, where it is and what it holds

scenarioVars == <<parent, workload, sc>>

\* alive: goroutines; open: sessions; group: of the workers; errs: an operation
\* failed; ended: the error Ramp or Hold returned.
FreshRun(kind) ==
  [kind |-> kind, pc |-> "preflight", alive |-> 0, open |-> 0, group |-> "new",
   errs |-> FALSE, warned |-> FALSE, failed |-> FALSE, verdict |-> "none",
   ended |-> "nil", outcome |-> "none"]

ScenariosInit ==
  /\ parent = "live"
  /\ workload = "none"
  /\ sc = [s \in Slot |-> [FreshRun("fixed") EXCEPT !.pc = "off"]]

\* Run: one goroutine for each scenario.
StartRun(plan) ==
  /\ \A s \in Slot : sc[s].pc = "off"
  /\ sc' = [s \in Slot |-> IF s \in DOMAIN plan THEN FreshRun(plan[s]) ELSE sc[s]]
  /\ UNCHANGED <<parent, workload>>

Grouped == {"fixed", "resource", "churn", "pressure", "total", "retention", "threads"}
Owns(s) == sc[s].kind = "fixed"

\* The context of Ramp and Hold (OwnsWorkloadDuration), once it has ended.
PhaseErr(s) ==
  IF Owns(s) THEN IF parent = "canceled" THEN "canceled" ELSE "nil"
  ELSE IF workload = "none" THEN "nil" ELSE workload

Set(s, r) == sc' = [sc EXCEPT ![s] = r] /\ UNCHANGED <<parent, workload>>

-----------------------------------------------------------------------------
(* Before the barrier.                                                        *)

\* Not authorised, no provider, no factory, or another code: nothing was made.
Refuse(s) ==
  /\ sc[s].pc = "preflight"
  /\ Set(s, [sc[s] EXCEPT !.pc = "prepared", !.failed = TRUE, !.group = "none"])

\* Advisory checks warn: applicability, requirements, the shape of plans.
Authorize(s) ==
  /\ sc[s].pc = "preflight"
  /\ \E warned \in BOOLEAN :
       Set(s, [sc[s] EXCEPT !.pc = "prepare", !.warned = warned])

Prepares(s, kinds) == sc[s].pc = "prepare" /\ sc[s].kind \in kinds
Prepared(s, ok, warned, open) ==
  Set(s, [sc[s] EXCEPT !.pc = "prepared", !.failed = ~ok, !.open = open,
                       !.warned = @ \/ warned])

\* PrepareSessions: one failure cancels the others; those that opened stay.
PrepareFixed(s) ==
  /\ Prepares(s, {"fixed"})
  /\ \E k \in 0..Width : Prepared(s, k = Width, FALSE, k)

\* The mutation of 322 may not be recorded; a missing stream only warns.
PrepareResource(s) ==
  /\ Prepares(s, {"resource", "churn"})
  /\ \E ok, warned \in BOOLEAN : Prepared(s, ok, warned, 0)

\* Unreadable metrics and too small a headroom only warn.
PreparePressure(s) ==
  /\ Prepares(s, {"pressure"})
  /\ \E ok, warned \in BOOLEAN : Prepared(s, ok, warned, 0)

\* 207 and 208 prepare one resource scenario after another.
PrepareChildren(s) ==
  /\ Prepares(s, {"total", "retention"})
  /\ \E ok \in BOOLEAN : Prepared(s, ok, FALSE, 0)

\* The budget is computed from facts, or from a fallback with a warning.
PrepareConnections(s) ==
  /\ Prepares(s, {"connections"})
  /\ \E warned \in BOOLEAN : Prepared(s, TRUE, warned, 0)

\* 402: a recorded parameter change and a restart that may fail.
PrepareThreads(s) ==
  /\ Prepares(s, {"threads"})
  /\ \E ok, warned \in BOOLEAN : Prepared(s, ok, warned, 0)

\* 801: the baseline and the recorded churn of the table.
PrepareVacuum(s) ==
  /\ Prepares(s, {"vacuum"})
  /\ \E ok \in BOOLEAN : Prepared(s, ok, FALSE, 0)

Preparing(s) ==
  \/ Refuse(s) \/ Authorize(s) \/ PrepareFixed(s) \/ PrepareResource(s)
  \/ PreparePressure(s) \/ PrepareChildren(s) \/ PrepareConnections(s)
  \/ PrepareThreads(s) \/ PrepareVacuum(s)

\* Mutant: the barrier opens when the first scenario is ready.
AnyPrepared == \E s \in Slot : sc[s].pc = "prepared"

Chosen == {s \in Slot : sc[s].pc # "off"}

\* prepareWG: every runOne calls prepared(), whatever happened.
AllPrepared == Chosen # {} /\ \A s \in Chosen : sc[s].pc = "prepared"

\* The clock of the workload starts, and the barrier opens for all.
OpenBarrier ==
  /\ AllPrepared
  /\ workload = "none"
  /\ workload' = IF parent = "canceled" THEN "canceled" ELSE "nil"
  /\ UNCHANGED <<parent, sc>>

\* The workload contexts derive from the parent: the first to end decides.
CancelRun ==
  /\ parent = "live"
  /\ parent' = "canceled"
  /\ workload' = IF workload = "nil" THEN "canceled" ELSE workload
  /\ UNCHANGED sc

DurationElapses ==
  /\ workload = "nil"
  /\ workload' = "deadline"
  /\ UNCHANGED <<parent, sc>>

PassBarrier(s) ==
  /\ sc[s].pc = "prepared" /\ workload # "none"
  /\ Set(s, [sc[s] EXCEPT !.pc = IF sc[s].failed THEN "stop" ELSE "ramp"])

-----------------------------------------------------------------------------
(* The end of Ramp and Hold.                                                  *)

\* runDurationElapsed.
DurationElapsed(s, e) ==
  /\ parent = "live"
  /\ PhaseErr(s) = "deadline"
  /\ e = "deadline"

Ended(s, e, next, r) ==
  Set(s, [r EXCEPT
            !.ended = e,
            !.pc = IF e = "nil" THEN next
                   ELSE IF DurationElapsed(s, e) THEN "verify" ELSE "stop",
            !.failed = @ \/ (e # "nil" /\ ~DurationElapsed(s, e))])

Ramps(s, kinds) == sc[s].pc = "ramp" /\ sc[s].kind \in kinds
Holds(s, kinds) == sc[s].pc = "hold" /\ sc[s].kind \in kinds
Rampend(s, e, r) == Ended(s, e, "hold", r)
Holdend(s, e, r) == Ended(s, e, "verify", r)
CtxDone(s) == PhaseErr(s) # "nil"

-----------------------------------------------------------------------------
(* Ramp.                                                                      *)

Started(s, n) == [sc[s] EXCEPT !.alive = n, !.group = "running"]

\* SetTarget of a fixed number of workers; sessions are opened by them.
RampWorkers(s) ==
  /\ Ramps(s, {"resource", "churn", "total"})
  /\ Rampend(s, "nil", Started(s, Width))

\* 101 to 103, 201, 202: all workers wait at the gate, or one failed.
RampFixed(s) ==
  /\ Ramps(s, {"fixed"})
  /\ \/ Rampend(s, "nil", Started(s, Width))
     \/ \E e \in {"error", PhaseErr(s)} \ {"nil"} : Rampend(s, e, Started(s, Width))

StartPressure(s) ==
  /\ Ramps(s, {"pressure", "retention"})
  /\ sc[s].group = "new"
  /\ Set(s, Started(s, Width))

\* waitForSessions: all there, an error, its own timeout, or the context.
WaitForSessions(s) ==
  /\ Ramps(s, {"pressure"})
  /\ sc[s].group = "running"
  /\ \/ sc[s].errs /\ Rampend(s, "error", sc[s])
     \/ sc[s].open >= Width /\ Rampend(s, "nil", sc[s])
     \/ CtxDone(s) /\ Rampend(s, PhaseErr(s), sc[s])
     \/ ~CtxDone(s) /\ Rampend(s, "nil", [sc[s] EXCEPT !.warned = TRUE])

\* 208: after the window, the target of every child is lowered to none, which
\* retires its workers.
StopAllocating(s) ==
  /\ Ramps(s, {"retention"})
  /\ sc[s].group = "running"
  /\ \/ CtxDone(s) /\ Rampend(s, PhaseErr(s), sc[s])
     \/ Rampend(s, "nil", [sc[s] EXCEPT !.group = "retiring"])

\* 402: RunToMinimum ends with any verdict; an error but that of a worker only
\* warns, and the workers are frozen where they are.
RampThreads(s) ==
  /\ Ramps(s, {"threads"})
  /\ \/ sc[s].group = "new" /\ Set(s, Started(s, Width))
     \/ /\ sc[s].group = "running"
        /\ IF sc[s].errs THEN Rampend(s, "error", sc[s])
           ELSE \E warned \in BOOLEAN :
                  Rampend(s, "nil", [sc[s] EXCEPT !.warned = @ \/ warned])

\* 401: one session after another, some of them kept busy; the error of a
\* session that cannot be opened is wrapped without its cause.
OpenConnection(s) ==
  /\ Ramps(s, {"connections"})
  /\ sc[s].open < Width
  /\ \/ /\ ~CtxDone(s)
        /\ Set(s, [sc[s] EXCEPT !.open = @ + 1,
                                !.alive = IF sc[s].open = 0 THEN 1 ELSE @])
     \/ Rampend(s, IF PhaseErr(s) = "deadline" THEN "error"
                   ELSE IF CtxDone(s) THEN "canceled" ELSE "error",
                [sc[s] EXCEPT !.errs = TRUE])

SampleConnections(s) ==
  /\ Ramps(s, {"connections"})
  /\ sc[s].open = Width
  /\ \E e \in {"nil", "error"} : Rampend(s, e, sc[s])

\* 801: the session is opened and the command started in a goroutine.
RampVacuum(s) ==
  /\ Ramps(s, {"vacuum"})
  /\ \/ Rampend(s, "nil", [sc[s] EXCEPT !.open = 1, !.alive = 1])
     \/ \E e \in {"error", PhaseErr(s)} \ {"nil"} : Rampend(s, e, sc[s])

-----------------------------------------------------------------------------
(* Workers and other goroutines.                                              *)

InGroup(s) == sc[s].kind \in Grouped /\ sc[s].group # "none"

\* sqlWorkload.session: opened by the worker that needs it.
OpenSession(s) ==
  /\ InGroup(s) /\ sc[s].open < sc[s].alive
  /\ sc[s].group = "running"
  /\ Set(s, [sc[s] EXCEPT !.open = @ + 1])

\* An operation of connection churn closes its own session.
CloseOwnSession(s) ==
  /\ sc[s].kind = "churn" /\ sc[s].open > 0
  /\ Set(s, [sc[s] EXCEPT !.open = @ - 1])

\* An operation fails, and its worker ends; its session stays in the map. The
\* error of a VACUUM only ends its goroutine.
OperationFails(s) ==
  /\ sc[s].alive > 0
  /\ sc[s].kind = "churn" => sc[s].open < sc[s].alive
  /\ InGroup(s) => sc[s].group = "running"
  /\ Set(s, [sc[s] EXCEPT !.alive = @ - 1, !.errs = @ \/ sc[s].kind # "vacuum"])

\* retireSession: a worker whose target was lowered closes its session.
RetireWorker(s) ==
  /\ sc[s].group = "retiring" /\ sc[s].alive > 0
  /\ Set(s, [sc[s] EXCEPT !.alive = @ - 1, !.open = IF @ > 0 THEN @ - 1 ELSE @])

\* A goroutine whose context has ended returns.
GoroutineEnds(s) ==
  /\ sc[s].alive > 0
  /\ \/ sc[s].group = "stopped"
     \/ parent = "canceled" /\ InGroup(s)
     \/ sc[s].kind \in {"connections", "vacuum"} /\ CtxDone(s)
  /\ sc[s].kind = "churn" => sc[s].open < sc[s].alive
  /\ Set(s, [sc[s] EXCEPT !.alive = @ - 1])

Working(s) ==
  \/ OpenSession(s) \/ CloseOwnSession(s) \/ OperationFails(s)
  \/ RetireWorker(s) \/ GoroutineEnds(s)

-----------------------------------------------------------------------------
(* Hold.  The timer of a scenario that does not own its duration is set after *)
(* that of the workload context.                                              *)

TimerFired(s) == workload = "deadline" \/ (Owns(s) /\ workload # "none")

HoldWaits(s) ==
  /\ Holds(s, {"resource", "churn", "retention"})
  /\ \/ CtxDone(s) /\ Holdend(s, PhaseErr(s), sc[s])
     \/ TimerFired(s) /\ Holdend(s, "nil", sc[s])

\* At every tick 404, 207 and 402 look for errors of workers ...
WorkerFailed(s) == sc[s].errs

\* ... 402 for a worker that has gone since they were frozen ...
FrozenWorkerGone(s) == sc[s].kind = "threads" /\ sc[s].alive # Width

\* ... and 401 counts its sessions on the server: any number may have gone.
ConnectionsGone(s) == sc[s].kind = "connections"

HoldWatches(s) ==
  /\ Holds(s, {"pressure", "total", "threads", "connections"})
  /\ \/ CtxDone(s) /\ Holdend(s, PhaseErr(s), sc[s])
     \/ TimerFired(s) /\ Holdend(s, "nil", sc[s])
     \/ /\ WorkerFailed(s) \/ FrozenWorkerGone(s) \/ ConnectionsGone(s)
        /\ Holdend(s, "error", sc[s])

HoldVacuum(s) ==
  /\ Holds(s, {"vacuum"})
  /\ \/ CtxDone(s) /\ Holdend(s, PhaseErr(s), sc[s])
     \/ TimerFired(s) /\ Holdend(s, "nil", sc[s])
     \/ Holdend(s, "error", sc[s])

\* Fixed workers are stopped within Hold, which may give up with the error of
\* its own timeout.
HoldFixed(s) ==
  /\ Holds(s, {"fixed"})
  /\ IF sc[s].group = "running"
     THEN /\ CtxDone(s) \/ TimerFired(s)
          /\ Set(s, [sc[s] EXCEPT !.group = "stopped"])
     ELSE \/ /\ sc[s].alive = 0
             /\ Holdend(s, PhaseErr(s), [sc[s] EXCEPT !.open = 0])
          \/ Holdend(s, "deadline", sc[s])

HoldStep(s) == HoldWaits(s) \/ HoldWatches(s) \/ HoldVacuum(s) \/ HoldFixed(s)
Ramping(s) ==
  \/ RampWorkers(s) \/ RampFixed(s) \/ StartPressure(s) \/ WaitForSessions(s)
  \/ StopAllocating(s) \/ RampThreads(s) \/ OpenConnection(s)
  \/ SampleConnections(s) \/ RampVacuum(s)

-----------------------------------------------------------------------------
(* Verify, Stop and the outcome.                                              *)

\* Fixed workers and 404 also look at the errors of their workers.
MayJudge(s, verdict) ==
  sc[s].errs /\ sc[s].kind \in {"fixed", "pressure"} => verdict = "FAILED"

\* Any verdict the measurements give.
Verify(s) ==
  /\ sc[s].pc = "verify"
  /\ \E verdict \in {"SUCCESS", "DEGRADED", "FAILED", "error"} :
       /\ MayJudge(s, verdict)
       /\ Set(s, [sc[s] EXCEPT !.pc = "stop", !.verdict = verdict,
                               !.warned = @ \/ verdict # "SUCCESS"])

\* Stop cancels what the scenario started.
CancelGroup(s) ==
  /\ sc[s].pc = "stop"
  /\ Set(s, [sc[s] EXCEPT !.pc = IF sc[s].group = "none" THEN "report" ELSE "stopping",
                          !.group = IF @ = "none" THEN @ ELSE "stopped"])

\* Everything it started has ended.
Joined(s) == sc[s].pc = "stopping" /\ sc[s].alive = 0

\* Then its sessions are closed, and closing one may fail.
StopScenario(s) ==
  /\ Joined(s)
  /\ \E result \in {"nil", "error"} :
       Set(s, [sc[s] EXCEPT !.pc = "report", !.open = 0,
                            !.failed = @ \/ result # "nil"])

\* The cleanup context ends first. All but 801 and the fixed workers close the
\* sessions they know of all the same.
StopTimesOut(s) ==
  /\ sc[s].pc = "stopping" /\ sc[s].alive > 0
  /\ Set(s, [sc[s] EXCEPT !.pc = "report", !.failed = TRUE,
               !.open = IF sc[s].kind \in {"vacuum", "fixed", "churn"} THEN @ ELSE 0])

\* executionReporter, then the advisories.
Outcome(s) ==
  IF sc[s].failed \/ sc[s].errs THEN "FAILED"
  ELSE IF sc[s].warned THEN "COMPLETED_WITH_WARNINGS"
  ELSE sc[s].verdict

\* What only the outcome needed is forgotten.
Report(s) ==
  /\ sc[s].pc = "report"
  /\ Set(s, [sc[s] EXCEPT !.pc = "done", !.outcome = Outcome(s),
                          !.warned = FALSE, !.failed = FALSE, !.verdict = "none"])

Finishing(s) ==
  Verify(s) \/ CancelGroup(s) \/ StopScenario(s) \/ StopTimesOut(s) \/ Report(s)

ScenariosNext ==
  \/ \E plan \in Plans : StartRun(plan)
  \/ OpenBarrier \/ CancelRun \/ DurationElapses
  \/ \E s \in Slot :
       \/ Preparing(s) \/ PassBarrier(s) \/ Ramping(s) \/ Working(s)
       \/ HoldStep(s) \/ Finishing(s)

\* The runner and the scenarios go on; the clock does; goroutines whose context
\* has ended return.
RunClock == OpenBarrier \/ DurationElapses
Advances(s) == Preparing(s) \/ PassBarrier(s) \/ Ramping(s) \/ HoldStep(s) \/ Finishing(s)
Joins(s) == GoroutineEnds(s) \/ CloseOwnSession(s)

ScenariosFairness ==
  /\ WF_scenarioVars(RunClock)
  /\ \A s \in Slot : WF_scenarioVars(Advances(s)) /\ WF_scenarioVars(Joins(s))

ScenariosSpec == ScenariosInit /\ [][ScenariosNext]_scenarioVars /\ ScenariosFairness

-----------------------------------------------------------------------------
(* Properties.                                                                *)

Past(s) == sc[s].pc \in {"ramp", "hold", "verify", "stop", "stopping", "report", "done"}

\* Types; no scenario has more sessions than it has workers or connections.
ScenariosTypeOK ==
  /\ parent \in {"live", "canceled"}
  /\ workload \in {"none", "nil", "deadline", "canceled"}
  /\ \A s \in Slot :
       /\ sc[s].kind \in Kinds
       /\ sc[s].alive \in 0..Width /\ sc[s].open \in 0..Width
       /\ sc[s].group \in {"new", "none", "running", "retiring", "stopped"}
       /\ sc[s].pc = "done" => sc[s].outcome # "none"

\* No scenario puts any load on the database before all of them are prepared:
\* while one is, the goroutines of all others have not been started.
BarrierHolds ==
  \A s, t \in Slot : sc[s].pc \in {"preflight", "prepare"} => ~Past(t) /\ sc[t].alive = 0

\* A scenario that is not reported as failed left nothing behind: its Stop
\* joined every goroutine and closed every session it ever opened.
CleanUnlessFailed ==
  \A s \in Slot :
    sc[s].pc = "done" /\ sc[s].outcome # "FAILED"
    => sc[s].alive = 0 /\ sc[s].open = 0

\* A run that was cancelled while a scenario was ramping or holding is never
\* taken for one that ran its time, and an error of a worker is never covered
\* by a warning, a verdict or the deadline.
NoFalseSuccess ==
  \A s \in Slot :
    sc[s].pc = "done" /\ (sc[s].ended \in {"canceled", "error"} \/ sc[s].errs)
    => sc[s].outcome = "FAILED"

\* Every run ends: no scenario waits for a barrier that another one holds.
ScenariosSettled == \A s \in Chosen : sc[s].pc = "done"

\* What a run with several scenarios promises: no load before the barrier,
\* nothing left behind by a scenario that is not reported as failed, and no
\* failure reported as a success.
ScenariosSafety ==
  /\ ScenariosTypeOK
  /\ BarrierHolds
  /\ CleanUnlessFailed
  /\ NoFalseSuccess
=============================================================================
