--------------------------- MODULE EmergencyPanel ---------------------------
(***************************************************************************)
(* gstop's emergency panel (internal/emergency/dispatcher.go, base.go,     *)
(* snapshot.go; internal/app/emergency.go).                                *)
(*                                                                         *)
(* The hook behind a refresh analyses a snapshot with every scenario at    *)
(* once and publishes what they found (Main).  Meanwhile the screen's loop *)
(* draws the published results, keeps the snapshot and lets every scenario *)
(* log it while its capture is open (Draw, Persist), and after 'e' takes   *)
(* the keys that remedy the selected line (HandleCommand).  Both sides     *)
(* touch the scenarios' live state, so both hold analysisMu for it; the    *)
(* screen's side only ever tries the lock.  An analysis may take for ever. *)
(*                                                                         *)
(* A scenario's lines are the SQL ids it shows.  The scenario Plan also    *)
(* checks that the id on the line is one it holds live.                    *)
(***************************************************************************)
EXTENDS Integers, FiniteSets, FiniteSetsExt

CONSTANTS
    Scenario,        \* the registered scenarios
    Plan,            \* the one that checks the selected id (PlanChange)
    First,           \* Scenario -> its place in the registration order
    ShownSql,        \* the SQL ids a line may show
    CaptureLength,   \* snapshot_persist_number of a scenario
    MaxRetained,     \* emergency.max_snapshot_number
    MaxAnalyses      \* bound: the analyses of a behaviour

ASSUME PanelAssumption ==
    /\ Plan \in Scenario
    /\ CaptureLength \in Nat \ {0}
    /\ MaxRetained \in Nat \ {0}
    /\ MaxAnalyses \in Nat

VARIABLES
    analysis,        \* the hook in Main, and who holds analysisMu
    live,            \* each scenario's own fields
    published,       \* the results the screen draws from
    desk,            \* the screen's loop and the lines it drew last
    retained,        \* snapshotDict: the kept snapshots
    capture          \* each scenario's log of snapshots

panelVars == <<analysis, live, published, desk, retained, capture>>

NoFinding == [fired |-> FALSE, sql |-> {}, of |-> 0]

NoCapture == [open |-> FALSE, start |-> 0, ids |-> {}, log |-> [k \in 1..MaxAnalyses |-> 0]]

PanelTypeOK ==
    /\ analysis \in [pc : {"idle", "analysing"}, snap : 0..MaxAnalyses,
                     pending : SUBSET Scenario, lock : {"free", "main", "screen"}]
    /\ \A s \in Scenario : live[s].sql \subseteq ShownSql /\ published[s].sql \subseteq ShownSql
    /\ desk.pc \in {"draw", "persist", "key", "draw again", "prompt"}
    /\ retained \subseteq 1..MaxAnalyses
    /\ \A s \in Scenario : capture[s].ids \subseteq 1..MaxAnalyses

PanelInit ==
    /\ analysis = [pc |-> "idle", snap |-> 0, pending |-> {}, lock |-> "free"]
    /\ live = [s \in Scenario |-> NoFinding]
    /\ published = [s \in Scenario |-> NoFinding]
    /\ desk = [pc |-> "draw", lines |-> {}, mode |-> "main", at |-> [on |-> Plan, sql |-> {}]]
    /\ retained = {}
    /\ capture = [s \in Scenario |-> NoCapture]

Free == analysis.lock = "free"

-----------------------------------------------------------------------------
(***************************************************************************)
(* Main, in the hook.  While keys are handled the refresher is paused, but *)
(* a refresh that was already running may still reach its hook.            *)
(***************************************************************************)
MainStarts ==
    /\ analysis.pc = "idle"
    /\ Free
    /\ analysis.snap < MaxAnalyses
    /\ analysis' = [pc |-> "analysing", snap |-> analysis.snap + 1,
                    pending |-> Scenario, lock |-> "main"]
    /\ live' = [s \in Scenario |-> NoFinding]
    /\ UNCHANGED <<published, desk, retained, capture>>

\* One scenario's goroutine ends; PlanChange and PerformanceJitter also say from
\* which earlier snapshot on the log is to start.
Analysed(s) ==
    /\ analysis.pc = "analysing"
    /\ s \in analysis.pending
    /\ analysis' = [analysis EXCEPT !.pending = @ \ {s}]
    /\ \E sql \in SUBSET ShownSql, start \in 1..analysis.snap :
          /\ live' = [live EXCEPT ![s] = [fired |-> sql # {}, sql |-> sql,
                                          of |-> analysis.snap]]
          /\ capture' = IF s = Plan /\ sql # {}
                        THEN [capture EXCEPT ![s].start = start]
                        ELSE capture
    /\ UNCHANGED <<published, desk, retained>>

\* Mutant: the last answer is not waited for.
AllButOneDone == Cardinality(analysis.pending) <= 1

AllDone == analysis.pending = {}

PublishResults ==
    /\ analysis.pc = "analysing"
    /\ AllDone
    /\ published' = live
    /\ analysis' = [analysis EXCEPT !.pc = "idle", !.lock = "free"]
    /\ UNCHANGED <<live, desk, retained, capture>>

-----------------------------------------------------------------------------
(***************************************************************************)
(* The screen's loop                                                       *)
(***************************************************************************)
Triggered == \E s \in Scenario : published[s].fired

\* Draw: only the first scenario that fired can be acted on.
DrawnLines ==
    LET fired == {s \in Scenario : published[s].fired}
        LinesOf(s) == {[on |-> s, sql |-> {q},
                        visible |-> \A t \in fired : First[s] <= First[t]] :
                          q \in published[s].sql} IN
    UNION {LinesOf(s) : s \in fired}

Draw ==
    /\ desk.pc \in {"draw", "draw again"}
    /\ desk' = [desk EXCEPT !.pc = (IF desk.mode = "main" THEN "persist" ELSE "key"),
                            !.lines = DrawnLines]
    /\ UNCHANGED <<analysis, live, published, retained, capture>>

\* Room is made when the dictionary is full, also for a snapshot already in it.
Retained ==
    (IF Cardinality(retained) = MaxRetained THEN retained \ {Min(retained)} ELSE retained)
        \cup {analysis.snap}

\* writePendingSnapshots: what this capture has not logged yet.
Pending(c) == {k \in retained' : k >= c.start /\ k \notin c.ids}

\* Base.Persist of one scenario.
Logged(s) ==
    LET c == IF live[s].fired THEN [capture[s] EXCEPT !.open = TRUE] ELSE capture[s] IN
    CASE ~c.open -> c
      [] c.open /\ Cardinality(c.ids) >= CaptureLength -> NoCapture
      [] OTHER -> [c EXCEPT !.ids = @ \cup Pending(c),
                            !.log = [k \in DOMAIN @ |->
                                        @[k] + (IF k \in Pending(c) THEN 1 ELSE 0)]]

Persist ==
    /\ desk.pc = "persist"
    /\ Free
    /\ analysis.snap > 0
    /\ retained' = Retained
    /\ capture' = [s \in Scenario |-> Logged(s)]
    /\ desk' = [desk EXCEPT !.pc = "key"]
    /\ UNCHANGED <<analysis, live, published>>

\* An analysis is under way, or there are no sessions to keep: the frame goes by.
PersistSkips ==
    /\ desk.pc = "persist"
    /\ desk' = [desk EXCEPT !.pc = "key"]
    /\ UNCHANGED <<analysis, live, published, retained, capture>>

NoKey ==
    /\ desk.pc = "key"
    /\ desk.mode = "main"
    /\ desk' = [desk EXCEPT !.pc = "draw"]
    /\ UNCHANGED <<analysis, live, published, retained, capture>>

\* 'e': the selection mode, entered only while something fires.
EnterMode ==
    /\ desk.pc = "key"
    /\ desk.mode = "main"
    /\ Triggered
    /\ desk' = [desk EXCEPT !.mode = "selection"]
    /\ UNCHANGED <<analysis, live, published, retained, capture>>

\* An arrow or 'e' draws again; any other key leaves the mode.
MoveOrLeave ==
    /\ desk.pc = "key"
    /\ desk.mode = "selection"
    /\ \E mode \in {"main", "selection"} :
          desk' = [desk EXCEPT !.mode = mode,
                               !.pc = IF mode = "main" THEN "draw" ELSE "draw again"]
    /\ UNCHANGED <<analysis, live, published, retained, capture>>

LockForCommand ==
    /\ Free
    /\ analysis' = [analysis EXCEPT !.lock = "screen"]

\* 'k' on a visible line: the lock, and what the scenario checks before it asks.
Command(line) ==
    /\ desk.pc = "key"
    /\ desk.mode = "selection"
    /\ line.visible
    /\ LockForCommand
    /\ line.on = Plan => line.sql \subseteq live[Plan].sql
    /\ desk' = [desk EXCEPT !.pc = "prompt", !.at = [on |-> line.on, sql |-> line.sql]]
    /\ UNCHANGED <<live, published, retained, capture>>

\* 'k' that does nothing: the line cannot be acted on, an analysis is under way,
\* or the scenario no longer holds the id.
CommandIgnored ==
    /\ desk.pc = "key"
    /\ desk.mode = "selection"
    /\ desk' = [desk EXCEPT !.pc = "draw again"]
    /\ UNCHANGED <<analysis, live, published, retained, capture>>

PromptEnds ==
    /\ desk' = [desk EXCEPT !.pc = "draw again"]
    /\ analysis' = IF analysis.lock = "screen"
                   THEN [analysis EXCEPT !.lock = "free"]
                   ELSE analysis
    /\ UNCHANGED <<live, published, retained, capture>>

\* Confirm, or the number or menu that follows, says no.
Declined ==
    /\ desk.pc = "prompt"
    /\ PromptEnds

\* The statement that terminates sessions of the id on the line.
PlanKilled ==
    /\ desk.pc = "prompt"
    /\ PromptEnds

ScreenSteps ==
    \/ Draw \/ Persist \/ PersistSkips \/ NoKey \/ EnterMode
    \/ MoveOrLeave \/ CommandIgnored \/ Declined \/ PlanKilled
    \/ \E line \in desk.lines : Command(line)

PanelNext ==
    \/ MainStarts
    \/ \E s \in Scenario : Analysed(s)
    \/ PublishResults
    \/ ScreenSteps

\* The screen's loop runs and the operator answers; the hook promises nothing.
BackToMain == MoveOrLeave /\ desk'.mode = "main"

PanelFairness == WF_panelVars(ScreenSteps) /\ SF_panelVars(BackToMain)

PanelSpec == PanelInit /\ [][PanelNext]_panelVars /\ PanelFairness

-----------------------------------------------------------------------------
(***************************************************************************)
(* Properties                                                              *)
(***************************************************************************)
\* The screen never waits for an analysis: frames of the main view go on though
\* Main, which holds the lock the frame needs, may never end.
PanelSettled == desk.pc = "draw"

\* What is drawn comes from one analysis: the results of all scenarios belong to
\* the same snapshot, though each is found by a goroutine of its own.
ResultsOfOneAnalysis ==
    \A s, t \in Scenario : published[s].of = published[t].of

\* A plan-change kill is for a statement that the newest finished analysis still
\* holds, however long the prompts took to answer.
PlanKillIsCurrent ==
    [][ desk.pc = "prompt" /\ desk.at.on = Plan => desk.at.sql \subseteq live[Plan].sql ]_panelVars

\* A capture logs a snapshot once, although the same snapshot is kept again by
\* every frame drawn until the next analysis.
LogHasNoRepeats ==
    \A s \in Scenario : \A k \in DOMAIN capture[s].log : capture[s].log[k] <= 1

\* What the dashboard promises: one analysis per frame, kills for what it still
\* holds, and no line logged twice.
PanelSafety ==
  /\ [](PanelTypeOK /\ ResultsOfOneAnalysis /\ LogHasNoRepeats)
  /\ PlanKillIsCurrent
=============================================================================
