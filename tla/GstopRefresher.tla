---------------------------- MODULE GstopRefresher ----------------------------
(***************************************************************************)
(* gstop's refresh scheduler and shutdown, src/internal/app/refresher.go   *)
(* and the lifecycle of app.go.  Every panel has a slot that runs at most  *)
(* one refresh; the scheduler starts the idle slots on a tick or a wake,   *)
(* unless the program is paused or stopping; a successful refresh starts   *)
(* the analysis hook unless one runs.  The exit is asked for by the main   *)
(* loop or by the screen's input goroutine, even before the refresher is   *)
(* made; the cleanup waits for the slots, the hook and the data logger,    *)
(* which a goroutine of its own makes and starts.                          *)
(***************************************************************************)
EXTENDS Naturals, FiniteSets

CONSTANT Panel   \* the resident monitors

ASSUME RefresherAssumption == IsFiniteSet(Panel) /\ Panel # {}

VARIABLES shell,      \* main loop: pc; exit (exitRequested); asker: who runs
                      \* requestExit and where it is; heard: a heartbeat
          scheduler,  \* made, stopped, paused, wake (its channel is full), loop
          slot,       \* per panel: busy, and the refreshes running in it
          badge,      \* per panel: RefreshState (phase, LastSuccess non-zero)
          hook,       \* emergencyBusy, pc, and results no analysis has read
          logger,     \* the data logger: starter's pc, held, row, file
          cleanup     \* pc of the goroutine stop() starts

refresherVars == <<shell, scheduler, slot, badge, hook, logger, cleanup>>

\* Goroutines of one slot: a second one only if the slot does not refuse it.
Turn == {1, 2}
\* "loading" and "refreshing" differ by LastSuccess; "timeout" is a failure.
Phases == {"running", "fresh", "failed"}
NoRun == [pc |-> "off", had |-> FALSE, result |-> "none"]

RefresherTypeOK ==
  /\ shell.pc \in {"begin", "loop", "sub", "exiting", "stop", "exited"}
  /\ \A p \in Panel : badge[p].phase \in Phases /\ badge[p].success \in BOOLEAN
  /\ \A p \in Panel, t \in Turn :
       slot[p].run[t].pc \in {"off", "begin", "collect", "publish", "after", "free"}

RefresherInit ==
  /\ shell = [pc |-> "begin", exit |-> FALSE, asker |-> "none", heard |-> FALSE]
  /\ scheduler = [made |-> FALSE, stopped |-> FALSE, paused |-> FALSE,
                  wake |-> FALSE, loop |-> "off"]
  /\ slot = [p \in Panel |-> [busy |-> FALSE, run |-> [t \in Turn |-> NoRun]]]
  /\ badge = [p \in Panel |-> [phase |-> "running", success |-> FALSE]]
  /\ hook = [busy |-> FALSE, pc |-> "off", unread |-> FALSE]
  /\ logger = [pc |-> "off", held |-> FALSE, row |-> "none", file |-> FALSE]
  /\ cleanup = "off"

(***************************************************************************)
(* The main loop and the exit request                                      *)
(***************************************************************************)
StartRefresher ==
  /\ shell.pc = "begin"
  /\ shell' = [shell EXCEPT !.pc = "loop"]
  /\ scheduler' = [scheduler EXCEPT !.made = TRUE, !.loop = "first"]
  /\ logger' = [logger EXCEPT !.pc = "start"]
  /\ UNCHANGED <<slot, badge, hook, cleanup>>

\* sessionMode, emergencyMode: paused while the sub-view owns the keys.
EnterSubView ==
  /\ shell.pc = "loop" /\ ~shell.exit
  /\ shell' = [shell EXCEPT !.pc = "sub"]
  /\ scheduler' = [scheduler EXCEPT !.paused = TRUE]
  /\ UNCHANGED <<slot, badge, hook, logger, cleanup>>

LeaveSubView ==
  /\ shell.pc = "sub"
  /\ shell' = [shell EXCEPT !.pc = "loop"]
  /\ scheduler' = IF scheduler.stopped THEN scheduler
                  ELSE [scheduler EXCEPT !.paused = FALSE, !.wake = TRUE]
  /\ UNCHANGED <<slot, badge, hook, logger, cleanup>>

\* 'q' in the main loop, or the loop sees the request.
LoopQuits ==
  /\ shell.pc = "loop"
  /\ shell' = IF shell.exit THEN [shell EXCEPT !.pc = "stop"]
              ELSE [shell EXCEPT !.pc = "exiting", !.exit = TRUE, !.asker = "main"]
  /\ UNCHANGED <<scheduler, slot, badge, hook, logger, cleanup>>

\* checkStalled: five silent minutes after a heartbeat, at any time.
LoopStalled ==
  /\ shell.pc = "loop" /\ shell.heard
  /\ shell' = IF shell.exit THEN [shell EXCEPT !.pc = "stop"]
              ELSE [shell EXCEPT !.pc = "exiting", !.exit = TRUE, !.asker = "main"]
  /\ UNCHANGED <<scheduler, slot, badge, hook, logger, cleanup>>

\* The screen's pump goroutine runs the quit handler.
ScreenQuits ==
  /\ ~shell.exit
  /\ shell' = [shell EXCEPT !.exit = TRUE, !.asker = "screen"]
  /\ UNCHANGED <<scheduler, slot, badge, hook, logger, cleanup>>

RequestStop(s) == IF s.stopped THEN s ELSE [s EXCEPT !.stopped = TRUE]

\* requestExit after its CompareAndSwap; a.refresher may still be nil.
RequestExit ==
  /\ shell.asker \in {"main", "screen"}
  /\ scheduler' = IF scheduler.made THEN RequestStop(scheduler) ELSE scheduler
  /\ shell' = [shell EXCEPT !.asker = "done",
                            !.pc = IF @ = "exiting" THEN "stop" ELSE @]
  /\ UNCHANGED <<slot, badge, hook, logger, cleanup>>

StopBegins ==
  /\ shell.pc = "stop" /\ cleanup = "off"
  /\ cleanup' = "request"
  /\ UNCHANGED <<shell, scheduler, slot, badge, hook, logger>>

\* The cleanup is done, or its 500 ms are over.
StopReturns ==
  /\ shell.pc = "stop" /\ cleanup # "off"
  /\ shell' = [shell EXCEPT !.pc = "exited"]
  /\ UNCHANGED <<scheduler, slot, badge, hook, logger, cleanup>>

(***************************************************************************)
(* The scheduler                                                           *)
(***************************************************************************)
Launched(p) ==
  LET t == CHOOSE i \in Turn : slot[p].run[i].pc = "off"
  IN  [slot[p] EXCEPT !.busy = TRUE, !.run[t] = [NoRun EXCEPT !.pc = "begin"]]

HasRoom(p) == \E t \in Turn : slot[p].run[t].pc = "off"

\* Mutant: the slot is started whether or not a refresh runs in it.
LaunchedAlways(p) == IF HasRoom(p) THEN Launched(p) ELSE slot[p]

LaunchedIdle(p) ==
  IF slot[p].busy \/ ~HasRoom(p) THEN slot[p] ELSE Launched(p)

\* A tick, a wake or the first pass; the select may take a tick after the stop.
TriggerIdle ==
  /\ scheduler.loop \in {"first", "on"}
  /\ \/ scheduler' = [scheduler EXCEPT !.loop = "on"]
     \/ scheduler.wake /\ scheduler' = [scheduler EXCEPT !.wake = FALSE, !.loop = "on"]
  /\ slot' = IF scheduler.stopped \/ scheduler.paused THEN slot
             ELSE [p \in Panel |-> LaunchedIdle(p)]
  /\ UNCHANGED <<shell, badge, hook, logger, cleanup>>

LoopEnds ==
  /\ scheduler.loop = "on" /\ scheduler.stopped
  /\ scheduler' = [scheduler EXCEPT !.loop = "ended"]
  /\ UNCHANGED <<shell, slot, badge, hook, logger, cleanup>>

(***************************************************************************)
(* One refresh of a panel                                                  *)
(***************************************************************************)
To(p, t, at) == slot' = [slot EXCEPT ![p].run[t].pc = at]
In(p, t, at) == slot[p].run[t].pc = at

\* The badge's LastSuccess is read here and written back at the end.
RefreshBegins(p, t) ==
  /\ In(p, t, "begin")
  /\ slot' = [slot EXCEPT ![p].run[t] =
                [pc |-> "collect", had |-> badge[p].success, result |-> "none"]]
  /\ badge' = [badge EXCEPT ![p].phase = "running"]
  /\ UNCHANGED <<shell, scheduler, hook, logger, cleanup>>

\* A success has published the panel's values; a stop cancels the context.
Collected(p, t, result) ==
  /\ In(p, t, "collect")
  /\ slot' = [slot EXCEPT ![p].run[t].pc = "publish", ![p].run[t].result = result]
  /\ hook' = [hook EXCEPT !.unread = @ \/ result = "fresh"]
  /\ UNCHANGED <<shell, scheduler, badge, logger, cleanup>>

Published(p, t) ==
  LET r == slot[p].run[t]
  IN  /\ r.pc = "publish"
      /\ badge' = [badge EXCEPT ![p] =
                     [phase |-> r.result, success |-> r.had \/ r.result = "fresh"]]
      /\ To(p, t, IF r.result = "fresh" THEN "after" ELSE "free")
      /\ shell' = [shell EXCEPT !.heard = @ \/ r.result = "fresh"]
      /\ UNCHANGED <<scheduler, hook, logger, cleanup>>

\* runAfterRefreshAsync: at most one hook, none after the stop.
HookLaunched(p, t) ==
  /\ In(p, t, "after")
  /\ To(p, t, "free")
  /\ hook' = IF scheduler.stopped \/ hook.busy THEN hook
             ELSE [hook EXCEPT !.busy = TRUE, !.pc = "begin"]
  /\ UNCHANGED <<shell, scheduler, badge, logger, cleanup>>

\* The slot is idle again, and its WaitGroup is told.
SlotFreed(p, t) ==
  /\ In(p, t, "free")
  /\ slot' = [slot EXCEPT ![p].run[t] = NoRun, ![p].busy = FALSE]
  /\ UNCHANGED <<shell, scheduler, badge, hook, logger, cleanup>>

(***************************************************************************)
(* afterMonitorRefresh                                                     *)
(***************************************************************************)
HookReads ==
  /\ hook.pc = "begin"
  /\ hook' = [hook EXCEPT !.pc = "analyse", !.unread = FALSE]
  /\ UNCHANGED <<shell, scheduler, slot, badge, logger, cleanup>>

HookEnds ==
  /\ hook.pc = "analyse"
  /\ hook' = [hook EXCEPT !.pc = "off", !.busy = FALSE]
  /\ UNCHANGED <<shell, scheduler, slot, badge, logger, cleanup>>

(***************************************************************************)
(* The data logger                                                         *)
(***************************************************************************)
\* The first look at the exit; persist.New waits for the database's version.
LoggerMade ==
  /\ logger.pc = "start"
  /\ logger' = IF shell.exit THEN [logger EXCEPT !.pc = "end"]
               ELSE [logger EXCEPT !.pc = "made", !.file = TRUE]
  /\ UNCHANGED <<shell, scheduler, slot, badge, hook, cleanup>>

LoggerStarted ==
  /\ logger.pc = "made"
  /\ logger' = IF shell.exit THEN [logger EXCEPT !.pc = "end", !.file = FALSE]
               ELSE [logger EXCEPT !.pc = "end", !.held = TRUE, !.row = "running"]
  /\ UNCHANGED <<shell, scheduler, slot, badge, hook, cleanup>>

LoggerRowsEnd ==
  /\ logger.row = "closing"
  /\ logger' = [logger EXCEPT !.row = "ended"]
  /\ UNCHANGED <<shell, scheduler, slot, badge, hook, cleanup>>

(***************************************************************************)
(* The cleanup goroutine of stop                                           *)
(***************************************************************************)
CleanupRequests ==
  /\ cleanup = "request"
  /\ scheduler' = RequestStop(scheduler)
  /\ cleanup' = "work"
  /\ UNCHANGED <<shell, slot, badge, hook, logger>>

CleanupWaitsWork ==
  /\ cleanup = "work"
  /\ \A p \in Panel, t \in Turn : In(p, t, "off")
  /\ cleanup' = "hook"
  /\ UNCHANGED <<shell, scheduler, slot, badge, hook, logger>>

CleanupWaitsHook ==
  /\ cleanup = "hook" /\ hook.pc = "off"
  /\ cleanup' = "logger"
  /\ UNCHANGED <<shell, scheduler, slot, badge, hook, logger>>

CleanupStopsLogger ==
  /\ cleanup = "logger"
  /\ logger' = IF logger.held THEN [logger EXCEPT !.held = FALSE, !.row = "closing"]
               ELSE logger
  /\ cleanup' = IF logger.held THEN "rows" ELSE "rest"
  /\ UNCHANGED <<shell, scheduler, slot, badge, hook>>

CleanupClosesFile ==
  /\ cleanup = "rows" /\ logger.row = "ended"
  /\ logger' = [logger EXCEPT !.file = FALSE]
  /\ cleanup' = "rest"
  /\ UNCHANGED <<shell, scheduler, slot, badge, hook>>

\* The memory panel, the health collector and the alarm file.
CleanupEnds ==
  /\ cleanup = "rest"
  /\ cleanup' = "done"
  /\ UNCHANGED <<shell, scheduler, slot, badge, hook, logger>>

RefreshStep(p, t) ==
  \/ RefreshBegins(p, t)
  \/ \E result \in {"fresh", "failed"} : Collected(p, t, result)
  \/ Published(p, t)
  \/ HookLaunched(p, t)
  \/ SlotFreed(p, t)

HookStep == HookReads \/ HookEnds
LoggerStep == LoggerMade \/ LoggerStarted \/ LoggerRowsEnd
CleanupStep ==
  \/ CleanupRequests
  \/ CleanupWaitsWork
  \/ CleanupWaitsHook
  \/ CleanupStopsLogger
  \/ CleanupClosesFile
  \/ CleanupEnds

RefresherNext ==
  \/ StartRefresher
  \/ EnterSubView
  \/ LeaveSubView
  \/ LoopQuits
  \/ LoopStalled
  \/ ScreenQuits
  \/ RequestExit
  \/ StopBegins
  \/ StopReturns
  \/ TriggerIdle
  \/ LoopEnds
  \/ \E p \in Panel, t \in Turn : RefreshStep(p, t)
  \/ HookStep
  \/ LoggerStep
  \/ CleanupStep

\* Goroutines run, collections are bounded by collect_timeout, the hook by the
\* gateway's deadlines; keys, ticks and the passing of time are not promised.
MainGoesOn == RequestExit \/ StopBegins \/ LoggerStep \/ CleanupStep

RefresherFairness ==
  /\ WF_refresherVars(MainGoesOn)
  /\ WF_refresherVars(HookStep)
  /\ \A p \in Panel, t \in Turn : WF_refresherVars(RefreshStep(p, t))

RefresherSpec == RefresherInit /\ [][RefresherNext]_refresherVars /\ RefresherFairness

(***************************************************************************)
(* Properties                                                              *)
(***************************************************************************)
\* A panel that has been refreshed once is never again shown as one that has
\* not: LastSuccess, read when a refresh begins and written when it ends, is
\* not lost to a refresh of the same slot that ended in between.
SuccessKept ==
  [][\A p \in Panel : badge[p].success => badge'[p].success]_refresherVars

\* Once Stop has waited, no refresh and no hook runs or starts any more: the
\* data logger, the memory panel and the alarm file are closed under nobody.
QuietAfterStop ==
  cleanup \in {"logger", "rows", "rest", "done"} =>
    /\ \A p \in Panel, t \in Turn : In(p, t, "off")
    /\ hook.pc = "off"

\* The logger that a goroutine makes while the program stops is stopped and
\* its file closed by one of the two, whatever their order.
NoLoggerLeft ==
  (cleanup = "done" /\ logger.pc = "end") =>
    (~logger.file /\ logger.row # "running")

\* The cleanup waits for nobody that waits for it, and ends; and the hook always
\* comes back with its flag cleared, so that a later completion starts the next
\* analysis, though completions that met a running one were skipped.
RefresherSettled == cleanup \in {"off", "done"} /\ ~hook.busy

\* What the refresher promises: no success forgotten, nothing running after
\* Stop, and no data logger left behind.
RefresherSafety ==
  /\ [](RefresherTypeOK /\ QuietAfterStop /\ NoLoggerLeft)
  /\ SuccessKept
=============================================================================
