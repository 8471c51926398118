-------------------------- MODULE DetectionWindows --------------------------
(***************************************************************************)
(* Two of gstop's emergency detections that depend on when a cycle comes   *)
(* and on what earlier cycles left behind.                                 *)
(*                                                                         *)
(* PerformanceJitter (internal/emergency/performance_jitter.go) keeps a    *)
(* sliding window of samples.  It fires when the 80th percentile of the    *)
(* latency was over its threshold in the newest JitterStreak samples, else *)
(* when another metric jumped over one of the window's samples.  A cycle   *)
(* with no sessions or no panel values adds nothing, after room was made.  *)
(*                                                                         *)
(* SlowSQL (slow_sql.go) inspects the sessions when a strategy's window of *)
(* the day holds the time and the strategy's interval has passed.          *)
(*                                                                         *)
(* Cycles come at any distance: load, a paused refresh, a slow query.      *)
(***************************************************************************)
EXTENDS Integers, Sequences, FiniteSets

CONSTANTS
    JitterScope,     \* snapshot_compare_scope
    JitterStreak,    \* p80_breach_streak
    Strategies,      \* the slow-SQL strategies: sequence of [from, to, every]
    MaxGap,          \* bound: the time between two cycles
    LastMoment       \* bound: the time a behaviour takes, within one day

ASSUME WindowsAssumption ==
    /\ JitterScope \in Nat \ {0}
    /\ JitterStreak \in 1..JitterScope
    /\ Strategies \in Seq([from : Nat, to : Nat, every : Nat \ {0}])
    /\ LastMoment \in Nat

VARIABLES
    cycle,           \* the snapshot id and the time of the cycle
    jitter,          \* the window, and what the newest cycle fired
    slowSql          \* the last check by its own record, and the last there was

windowVars == <<cycle, jitter, slowSql>>

WindowsTypeOK ==
    /\ cycle \in [id : 0..LastMoment, at : 0..LastMoment]
    /\ Len(jitter.window) <= JitterScope
    /\ slowSql \in [last : -1..LastMoment, looked : -1..LastMoment, in : 0..Len(Strategies)]

WindowsInit ==
    /\ cycle = [id |-> 0, at |-> 0]
    /\ jitter = [window |-> << >>, first |-> TRUE, fired |-> "no", start |-> 0, shown |-> FALSE]
    /\ slowSql = [last |-> -1, looked |-> -1, in |-> 0]

-----------------------------------------------------------------------------
(***************************************************************************)
(* PerformanceJitter                                                       *)
(***************************************************************************)
Evict(w) == IF Len(w) = JitterScope THEN Tail(w) ELSE w

\* jitterFind
Find(w, id) == \E i \in DOMAIN w : w[i].id = id

\* analyzeSustainedP80: where a streak that ends with the newest sample starts.
StreakStarts(w) ==
    {i \in DOMAIN w : /\ Len(w) - i + 1 = JitterStreak
                      /\ \A j \in i..Len(w) : w[j].p80}

\* The log starts one snapshot before the streak when that one is in the window.
Before(w, i) == IF Find(w, w[i].id - 1) THEN w[i].id - 1 ELSE w[i].id

\* analyzeInstantaneous: the oldest sample that another metric jumped over.
JumpedOver(w) == {i \in 1..(Len(w) - 1) : w[Len(w)].load > w[i].load}

Fires(w, kind, id) ==
    jitter' = [window |-> w, first |-> FALSE, fired |-> kind, start |-> id,
               shown |-> Find(w, id)]

Judge(w) ==
    IF StreakStarts(w) # {}
    THEN \E i \in StreakStarts(w) : Fires(w, "p80", Before(w, i))
    ELSE IF JumpedOver(w) # {}
    THEN \E i \in JumpedOver(w) :
            /\ \A j \in JumpedOver(w) : i <= j
            /\ Fires(w, "jump", w[i].id)
    ELSE jitter' = [jitter EXCEPT !.window = w, !.fired = "no", !.shown = FALSE]

\* The first snapshot is discarded.
JitterFirst ==
    /\ jitter.first
    /\ jitter' = [jitter EXCEPT !.first = FALSE]

JitterSkips ==
    /\ ~jitter.first
    /\ jitter' = [jitter EXCEPT !.window = Evict(@), !.fired = "no", !.shown = FALSE]

JitterAnalyzes ==
    /\ ~jitter.first
    /\ \E p80 \in BOOLEAN, load \in 0..1 :
          Judge(Append(Evict(jitter.window), [id |-> cycle'.id, p80 |-> p80, load |-> load]))

-----------------------------------------------------------------------------
(***************************************************************************)
(* SlowSQL                                                                 *)
(***************************************************************************)
Matching(now) ==
    {i \in DOMAIN Strategies : now \in Strategies[i].from..Strategies[i].to}

\* matchStrategy: the first that matches, 0 when none does.
MatchStrategy(now) ==
    IF Matching(now) = {} THEN 0
    ELSE CHOOSE i \in Matching(now) : \A j \in Matching(now) : i <= j

Due(now, i) ==
    \/ slowSql.last = -1
    \/ now - slowSql.last >= Strategies[i].every

\* Mutant: a cycle that is not due yet counts as a check.
CheckedAlways(now, i) ==
    slowSql' = [last |-> now, looked |-> IF Due(now, i) THEN now ELSE slowSql.looked, in |-> i]

\* dueForCheck
Checked(now, i) ==
    slowSql' = [last |-> IF Due(now, i) THEN now ELSE slowSql.last,
                looked |-> IF Due(now, i) THEN now ELSE slowSql.looked, in |-> i]

SlowAnalyzes(now) ==
    IF MatchStrategy(now) = 0
    THEN slowSql' = [slowSql EXCEPT !.in = 0]
    ELSE Checked(now, MatchStrategy(now))

-----------------------------------------------------------------------------
Cycles(gap) ==
    /\ cycle.at + gap <= LastMoment
    /\ cycle' = [id |-> cycle.id + 1, at |-> cycle.at + gap]
    /\ JitterFirst \/ JitterSkips \/ JitterAnalyzes
    /\ SlowAnalyzes(cycle.at + gap)

WindowsNext == \E gap \in 1..MaxGap : Cycles(gap)

WindowsSpec == WindowsInit /\ [][WindowsNext]_windowVars

-----------------------------------------------------------------------------
(***************************************************************************)
(* Properties                                                              *)
(***************************************************************************)
\* Inside a strategy's window the sessions are inspected often enough: after a
\* cycle, less than the strategy's interval has passed since they really were.
InspectedInTime ==
    slowSql.in # 0 => cycle.at - slowSql.looked < Strategies[slowSql.in].every

\* A sustained breach is told from a spotty one: it fires exactly when the newest
\* JitterStreak samples kept are all over the threshold.
StreakIsExact ==
    LET w == jitter.window IN
    jitter.fired = "p80" <=>
        /\ w # << >>
        /\ w[Len(w)].id = cycle.id
        /\ Len(w) >= JitterStreak
        /\ \A j \in (Len(w) - JitterStreak + 1)..Len(w) : w[j].p80

\* What fires is shown and reported: the sample it is compared with is still in
\* the window, from which samples were evicted and into which some never came.
FiredIsShown == jitter.fired # "no" => jitter.shown

\* What the sampled detectors promise: inspections in time, sustained breaches
\* only, and evidence for what fires.
WindowsSafety ==
  /\ WindowsTypeOK
  /\ InspectedInTime
  /\ StreakIsExact
  /\ FiredIsShown
=============================================================================
