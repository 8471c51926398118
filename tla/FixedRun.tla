------------------------------ MODULE FixedRun ------------------------------
(* A run with a fixed number of workers: scenarios 101 to 103, 201 and 202    *)
(* (fixed_workers.go, scenario_workmem.go) and the traffic of the plan        *)
(* scenarios (plan_traffic.go).  Workers are initialised, wait at one gate    *)
(* for all lanes, work until one deadline, and are stopped together.          *)
(*                                                                            *)
(* Stop may give up waiting while stopAll goes on in its own goroutine; what  *)
(* the workers did is read from the snapshots stopAll took, or from the live  *)
(* groups when there are none.                                                *)
EXTENDS Naturals, FiniteSets

CONSTANTS Lane,    \* "tp" and "ap", or the one lane of the other scenarios
          Crew     \* workers of each lane

ASSUME FixedRunConstants == IsFiniteSet(Lane) /\ Crew \in Nat \ {0}

Styles == {"cpu", "workmem", "traffic"}

VARIABLES fixed,   \* the scenario's own goroutine and the shared gate
          lane     \* for each lane its workers, its sessions and its snapshot

fixedVars == <<fixed, lane>>

\* born: started goroutines; ready: at the gate; busy: in an operation; errs:
\* those ended by an error; open: sessions; bounded: the deadline is known;
\* over: the group is cancelled; final: the errors in stopAll's snapshot.
NoSnapshot == Crew + 1
NewLane == [born |-> 0, ready |-> 0, busy |-> 0, errs |-> 0, open |-> 0,
            bounded |-> FALSE, over |-> FALSE, final |-> NoSnapshot]

FixedInit ==
  /\ fixed = [style |-> "none", pc |-> "start", ctx |-> "live", gate |-> FALSE,
              late |-> FALSE, err |-> "nil", verdict |-> "none", stop |-> "idle",
              closed |-> FALSE]
  /\ lane = [l \in Lane |-> NewLane]

CrewStarted(l) == lane[l].ready + lane[l].busy
AllLanes(n) == \A l \in Lane : lane[l].born = n
Goto(pc) == fixed' = [fixed EXCEPT !.pc = pc]
GiveUpWith(e) == fixed' = [fixed EXCEPT !.pc = "stop", !.err = e]
FixedErrs == {"nil", "canceled", "deadline", "error"}

-----------------------------------------------------------------------------
(* Prepare and Ramp.                                                          *)

ChooseStyle(style) ==
  /\ fixed.pc = "start"
  /\ fixed' = [fixed EXCEPT !.style = style, !.pc = "prepare"]
  /\ UNCHANGED lane

\* PrepareSessions: every worker its session; the first failure cancels the rest.
PrepareSessions ==
  /\ fixed.pc = "prepare"
  /\ \E opened \in [Lane -> 0..Crew] :
       /\ lane' = [l \in Lane |-> [lane[l] EXCEPT !.open = opened[l]]]
       /\ IF \A l \in Lane : opened[l] = Crew THEN Goto("start workers")
          ELSE GiveUpWith("error")

\* SetTarget, one lane after the other; it fails when the group is stopped.
SetTarget(l) ==
  /\ fixed.pc = "start workers"
  /\ lane[l].born = 0
  /\ lane' = [lane EXCEPT ![l].born = Crew]
  /\ UNCHANGED fixed

\* runWorker up to the gate.
Initialise(l) ==
  /\ CrewStarted(l) + lane[l].errs < lane[l].born
  /\ ~lane[l].over
  /\ lane' = [lane EXCEPT ![l].ready = @ + 1]
  /\ UNCHANGED fixed

AfterReady == CASE fixed.style = "cpu" -> "hold"
                [] fixed.style = "workmem" -> "wait pressure"
                [] fixed.style = "traffic" -> "announce"

\* WaitReady of every lane; 201 and 202 open the gate here (ReleaseWorkers).
WaitReady ==
  /\ fixed.pc = "start workers"
  /\ AllLanes(Crew)
  /\ \/ /\ \A l \in Lane : CrewStarted(l) + lane[l].errs = Crew
        /\ fixed' = [fixed EXCEPT !.pc = AfterReady, !.gate = fixed.style = "workmem"]
     \/ fixed.ctx = "canceled" /\ GiveUpWith("canceled")
  /\ UNCHANGED lane

\* waitPressureReady: each worker reported, or one of them has gone.
WaitPressureReady ==
  /\ fixed.pc = "wait pressure"
  /\ \/ (\A l \in Lane : lane[l].busy = Crew) /\ Goto("hold")
     \/ (\E l \in Lane : lane[l].errs > 0) /\ GiveUpWith("error")
     \/ fixed.ctx = "canceled" /\ GiveUpWith("canceled")
  /\ UNCHANGED lane

\* RunWithReady: onReady may fail, and then the traffic is stopped.
Announce ==
  /\ fixed.pc = "announce"
  /\ Goto("hold") \/ GiveUpWith("error")
  /\ UNCHANGED lane

-----------------------------------------------------------------------------
(* Hold.                                                                      *)

\* A cancelled context ends the run before the gate opens.
HoldCanceled ==
  /\ fixed.pc = "hold" /\ fixed.ctx = "canceled"
  /\ fixed.style # "traffic"
  /\ GiveUpWith("canceled")
  /\ UNCHANGED lane

\* SetRunDeadline for each lane; a deadline that has passed closes it at once.
SetRunDeadline(l) ==
  /\ fixed.pc = "hold" /\ ~lane[l].bounded
  /\ lane' = [lane EXCEPT ![l].bounded = TRUE, ![l].over = @ \/ fixed.late]
  /\ UNCHANGED fixed

Bounded == \A l \in Lane : lane[l].bounded

\* ReleaseWorkers: the gate is closed once, here or in Ramp.
ReleaseWorkers ==
  /\ fixed.pc = "hold" /\ Bounded
  /\ fixed' = [fixed EXCEPT !.gate = TRUE, !.pc = "run"]
  /\ UNCHANGED lane

DeadlinePasses ==
  /\ fixed.pc \in {"hold", "run"} /\ ~fixed.late
  /\ fixed' = [fixed EXCEPT !.late = TRUE]
  /\ UNCHANGED lane

\* The timer of a group: no operation starts, those in flight are cancelled.
CloseInjection(l) ==
  /\ ~lane[l].over
  /\ fixed.late /\ lane[l].bounded
  /\ lane' = [lane EXCEPT ![l].over = TRUE]
  /\ UNCHANGED fixed

\* The context of every group derives from the run's.
CancelFixed ==
  /\ fixed.ctx = "live" /\ fixed.pc # "start"
  /\ fixed' = [fixed EXCEPT !.ctx = "canceled"]
  /\ lane' = [l \in Lane |-> [lane[l] EXCEPT !.over = TRUE]]

RunOver ==
  /\ fixed.pc = "run"
  /\ \/ fixed.late /\ GiveUpWith("nil")
     \/ fixed.ctx = "canceled" /\ GiveUpWith("canceled")
  /\ UNCHANGED lane

-----------------------------------------------------------------------------
(* Workers.                                                                   *)

\* Past the gate, if its context lives.
BeginOperation(l) ==
  /\ fixed.gate /\ ~lane[l].over
  /\ lane[l].ready > 0
  /\ lane' = [lane EXCEPT ![l].ready = @ - 1, ![l].busy = @ + 1]
  /\ UNCHANGED fixed

\* An error while the context lives is counted and ends the worker.
OperationFailed(l) ==
  /\ lane[l].busy > 0 /\ ~lane[l].over
  /\ lane' = [lane EXCEPT ![l].busy = @ - 1, ![l].errs = @ + 1]
  /\ UNCHANGED fixed

\* Cancelled workers return, in whatever state they were.
WorkerReturns(l) ==
  /\ lane[l].over
  /\ \/ lane[l].ready > 0 /\ lane' = [lane EXCEPT ![l].ready = @ - 1]
     \/ lane[l].busy > 0 /\ lane' = [lane EXCEPT ![l].busy = @ - 1]
     \* its operation failed just before, and it had not yet looked at its context
     \/ lane[l].busy > 0 /\ lane' = [lane EXCEPT ![l].busy = @ - 1, ![l].errs = @ + 1]
  /\ UNCHANGED fixed

-----------------------------------------------------------------------------
(* Stop.                                                                      *)

\* stopOnce: the first caller starts stopAll.
CallStop ==
  /\ fixed.pc \in {"stop", "stop again"}
  /\ fixed.stop = "idle"
  /\ fixed' = [fixed EXCEPT !.stop = "running"]
  /\ lane' = [l \in Lane |-> [lane[l] EXCEPT !.over = TRUE]]

Gone(l) == lane[l].ready = 0 /\ lane[l].busy = 0

\* One goroutine of stopAll: sqlWorkload.Stop with no deadline waits for the
\* workers and closes the sessions; then the snapshot.
StopLane(l) ==
  /\ fixed.stop = "running" /\ lane[l].final = NoSnapshot
  /\ Gone(l)
  /\ lane' = [lane EXCEPT ![l].open = 0, ![l].final = lane[l].errs]
  /\ UNCHANGED fixed

\* close(stopDone), after every lane; the error of a session that did not close
\* is kept for every caller.
StopDone ==
  /\ fixed.stop = "running"
  /\ \A l \in Lane : lane[l].final # NoSnapshot
  /\ \E dirty \in BOOLEAN : fixed' = [fixed EXCEPT !.stop = "done", !.closed = ~dirty]
  /\ UNCHANGED lane

StopError == IF fixed.closed THEN "nil" ELSE "error"

\* What Hold, or RunWithReady, returns: errors.Join of the run's and Stop's.
Worse(e) == IF fixed.err # "nil" THEN fixed.err ELSE e
RunStopped ==
  /\ fixed.pc = "stop"
  /\ \/ fixed.stop = "done" /\ fixed' = [fixed EXCEPT !.err = Worse(StopError), !.pc = "held"]
     \/ fixed.stop = "running" /\ fixed' = [fixed EXCEPT !.err = Worse("deadline"), !.pc = "held"]
  /\ UNCHANGED lane

\* LaneSnapshot: stopAll's if there is one, else the live group's.
LaneErrors(l) == IF lane[l].final = NoSnapshot THEN lane[l].errs ELSE lane[l].final

\* Mutant: the deadline of Stop passes for the end of the run.
HeldOrDeadline == fixed.err \in {"nil", "deadline"}

\* The runner verifies only what Hold returned without an error: the scenario
\* owns its duration, so no deadline is expected.
Held == fixed.err = "nil"

\* verifyFixedWorkerResult; RunWithReady: workerSnapshotError.
VerifyFixed ==
  /\ fixed.pc = "held"
  /\ fixed' = [fixed EXCEPT !.pc = "stop again",
                 !.verdict = IF ~Held THEN "FAILED"
                             ELSE IF \E l \in Lane : LaneErrors(l) > 0 \/ lane[l].born # Crew
                             THEN "FAILED" ELSE "SUCCESS"]
  /\ UNCHANGED lane

\* Stop of the scenario, with the runner's cleanup context.
StopAgain ==
  /\ fixed.pc = "stop again"
  /\ \/ fixed.stop = "done" /\ fixed' = [fixed EXCEPT !.err = Worse(StopError), !.pc = "end"]
     \/ fixed.stop = "running" /\ fixed' = [fixed EXCEPT !.err = Worse("deadline"), !.pc = "end"]
  /\ UNCHANGED lane

Director ==
  \/ PrepareSessions \/ WaitReady \/ WaitPressureReady \/ Announce \/ HoldCanceled
  \/ ReleaseWorkers \/ RunOver \/ CallStop \/ RunStopped \/ VerifyFixed \/ StopAgain

FixedNext ==
  \/ \E style \in Styles : ChooseStyle(style)
  \/ Director \/ DeadlinePasses \/ CancelFixed \/ StopDone
  \/ \E l \in Lane :
       \/ SetTarget(l) \/ Initialise(l) \/ SetRunDeadline(l) \/ CloseInjection(l)
       \/ BeginOperation(l) \/ OperationFailed(l) \/ WorkerReturns(l) \/ StopLane(l)

\* The goroutines run, clocks advance, cancelled statements return.
FixedGoesOn ==
  \/ Director
  \/ DeadlinePasses
  \/ StopDone
  \/ \E l \in Lane : \/ SetTarget(l) \/ Initialise(l)
                     \/ SetRunDeadline(l) \/ CloseInjection(l)
                     \/ BeginOperation(l) \/ WorkerReturns(l)
                     \/ StopLane(l)

FixedFairness == WF_fixedVars(FixedGoesOn)

FixedSpec == FixedInit /\ [][FixedNext]_fixedVars /\ FixedFairness

-----------------------------------------------------------------------------
(* Properties.                                                                *)

FixedTypeOK ==
  /\ fixed.style \in Styles \cup {"none"}
  /\ fixed.err \in FixedErrs
  /\ \A l \in Lane :
       /\ lane[l].open \in 0..Crew
       /\ CrewStarted(l) + lane[l].errs <= lane[l].born

\* All lanes start together and under one deadline: no worker of the CPU
\* scenarios or of plan traffic is in an operation while another lane's group
\* does not know when to stop.
NoEarlyOperation ==
  \A l, m \in Lane :
    lane[l].busy > 0 /\ fixed.style # "workmem" => lane[m].bounded

\* A success is judged on final numbers: when it is given, no worker of any
\* lane can still fail, and none has failed unseen.
VerifiedIsFinal ==
  fixed.verdict = "SUCCESS" => \A l \in Lane : Gone(l) /\ lane[l].errs = 0

\* A run that ended without an error left no worker and no session.
StoppedIsClean ==
  fixed.pc = "end" /\ fixed.err = "nil" => \A l \in Lane : Gone(l) /\ lane[l].open = 0

\* Whoever gave up waiting, what was started is in the end closed: stopAll does
\* not depend on the context of its caller.
FixedSettled == fixed.stop # "idle" => \A l \in Lane : Gone(l) /\ lane[l].open = 0

\* What a fixed-size run promises: one start and one deadline for all lanes, a
\* verdict on final numbers, and nothing left after a run without an error.
FixedSafety ==
  /\ FixedTypeOK
  /\ NoEarlyOperation
  /\ VerifiedIsFinal
  /\ StoppedIsClean
=============================================================================
