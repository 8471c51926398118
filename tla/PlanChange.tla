----------------------------- MODULE PlanChange -----------------------------
(***************************************************************************)
(* gstop's detection of execution-plan regressions                         *)
(* (internal/emergency/plan_change.go, plan_change_trigger.go) over its    *)
(* bounded in-memory history (persist_mem.go).                             *)
(*                                                                         *)
(* Every refresh takes a snapshot id and samples each statement: how many  *)
(* sessions run it and how slow a call has become.  The hot statements are *)
(* then evaluated one by one, in the order of a Go map.  A statement whose *)
(* sessions and latency have both surged over a sample of the last Scope   *)
(* snapshots fires; the sample it is measured against is kept apart as its *)
(* baseline, since the window soon holds nothing but surged samples.  The  *)
(* baseline goes, and the event closes, when the statement has not fired   *)
(* on an analysis at least Observation after it first did.  The baselines  *)
(* have only MaxSnap snapshots, though, and room for one more is made at   *)
(* the cost of the oldest, with all its statements.                        *)
(*                                                                         *)
(* A sample is [acs, lat]: acs 1 when the sessions exceed both thresholds  *)
(* over a sample with acs 0, and lat 0 when no call ended, 1 when calls    *)
(* are quick, 2 when they take over the threshold times that.  The text of *)
(* a trigger, and the instance samples printed in it, are left out.        *)
(***************************************************************************)
EXTENDS Integers, Sequences, FiniteSets, FiniteSetsExt

CONSTANTS
    Sql,             \* the unique SQL ids
    Scope,           \* emergency.plan_change.snapshot_compare_scope
    MaxSnap,         \* emergency.plan_change.max_sql_snapshot_number
    Observation,     \* emergency.plan_change.observation_time
    MaxCycle         \* bound: the refreshes of a behaviour

ASSUME HistoryAssumption ==
    /\ IsFiniteSet(Sql)
    /\ Scope \in Nat \ {0}
    /\ MaxSnap \in Nat \ {0}
    /\ Observation \in Nat
    /\ MaxCycle \in Nat

VARIABLES
    snap,            \* the snapshot being analysed, and the statement rows kept
    history,         \* MemPersist: samples by snapshot, and the baselines
    events,          \* the retained events, and the open one of each statement
    round,           \* the analysis under way: what is left, and what fired
    verdict          \* the last finished analysis: what it saw and what fired

planVars == <<snap, history, events, round, verdict>>

None == [acs |-> 0, lat |-> 0]        \* such a row is left out

Sample == {[acs |-> 0, lat |-> 1], [acs |-> 1, lat |-> 2], [acs |-> 1, lat |-> 0]}

Unseen == [q \in Sql |-> None]

NoRound == [open |-> FALSE, todo |-> {}, fired |-> {}, sample |-> Unseen]

PlanTypeOK ==
    /\ snap \in [id : 0..MaxCycle, at : 0..MaxCycle, last : -1..MaxCycle]
    /\ DOMAIN history.sql \subseteq 1..MaxCycle
    /\ \A b \in history.baseline :
          b \in [sql : Sql, snap : 1..MaxCycle, is : Sample, since : 0..MaxCycle]
    /\ events.open \in [Sql -> 0..Len(events.kept)]
    /\ round.todo \subseteq Sql /\ round.fired \subseteq Sql
    /\ verdict.fired \subseteq Sql

PlanInit ==
    /\ snap = [id |-> 0, at |-> 0, last |-> -1]
    /\ history = [sql |-> << >>, baseline |-> {}]
    /\ events = [kept |-> << >>, open |-> [q \in Sql |-> 0]]
    /\ round = NoRound
    /\ verdict = [fired |-> {}, sample |-> Unseen]

-----------------------------------------------------------------------------
(***************************************************************************)
(* MemPersist.  Room is made before every addition, also when the sample   *)
(* goes into a bucket that is already there: a snapshot that brings two    *)
(* statements may cost two old ones.                                       *)
(***************************************************************************)
Evicted(keys) == IF Cardinality(keys) < MaxSnap THEN keys ELSE keys \ {Min(keys)}

\* The snapshots kept after n samples of snapshot id are added to keys.
KeysAfter(keys, id, n) ==
    LET step[k \in 0..n] == IF k = 0 THEN keys ELSE Evicted(step[k - 1]) \cup {id}
    IN  step[n]

SqlAfter(id, sample) ==
    LET new  == {q \in Sql : sample[q] # None}
        keep == KeysAfter(DOMAIN history.sql, id, Cardinality(new))
    IN  [k \in keep |-> IF k = id THEN sample ELSE history.sql[k]]

\* GetSQLInfoSnap: the snapshots that may be compared with the one analysed.
Window(q) ==
    {k \in DOMAIN history.sql :
        k \in (snap.id - Scope)..(snap.id - 1) /\ history.sql[k][q] # None}

BaselineOf(q) == {b \in history.baseline : b.sql = q}

\* The snapshots that hold a baseline, and the baselines kept when one is added.
BaselineSnaps == {b.snap : b \in history.baseline}

BaselinesKept == {b \in history.baseline : b.snap \in Evicted(BaselineSnaps)}

-----------------------------------------------------------------------------
(***************************************************************************)
(* PlanChange                                                              *)
(***************************************************************************)
\* regressedAgainst: a stuck statement counts as slow only against a baseline.
Regressed(s, last, emergency) ==
    /\ s.acs > last.acs
    /\ \/ s.lat > last.lat
       \/ emergency /\ s.lat = 0

WorseThanWindow(q) ==
    {k \in Window(q) : Regressed(round.sample[q], history.sql[k][q], FALSE)}

WorseThanBaseline(q) == \E b \in BaselineOf(q) : Regressed(round.sample[q], b.is, TRUE)

\* Mutant: the window is compared even when there is a baseline.
ComparesWindow(q) == WorseThanWindow(q) # {}

\* evaluateSQL: the statement is measured against its baseline if it has one.
FiresNow(q) ==
    IF BaselineOf(q) # {} THEN WorseThanBaseline(q) ELSE WorseThanWindow(q) # {}

\* persistBaseline, for a statement that fires without one.
BaselinesAfter(q) ==
    IF BaselineOf(q) # {} THEN history.baseline
    ELSE LET k == Min(WorseThanWindow(q))
         IN  BaselinesKept \cup
                {[sql |-> q, snap |-> k, is |-> history.sql[k][q], since |-> snap.at]}

\* recordPlanChangeEvent: an event is opened, or the open one is seen again.
Opened(q) ==
    LET event == [sql |-> q, recovered |-> FALSE, last |-> snap.at]
    IN  IF events.open[q] = 0
        THEN [kept |-> Append(events.kept, event),
              open |-> [events.open EXCEPT ![q] = Len(events.kept) + 1]]
        ELSE [events EXCEPT !.kept[events.open[q]] = event]

\* judgeRecovered: the baselines that outlived the observation time and whose
\* statement did not fire now.
Recovered ==
    {b \in history.baseline : snap.last - b.since >= Observation /\ b.sql \notin round.fired}

\* recordPlanChangeRecovered
Closed(gone) ==
    [kept |-> [i \in DOMAIN events.kept |->
                  [events.kept[i] EXCEPT
                     !.recovered = @ \/ \E q \in gone : events.open[q] = i]],
     open |-> [q \in Sql |-> IF q \in gone THEN 0 ELSE events.open[q]]]

NextRefresh == ~round.open /\ snap.id < MaxCycle

\* Nothing fires in a refresh that cannot compare: the verdict was reset.
Unjudged ==
    /\ verdict' = [fired |-> {}, sample |-> Unseen]
    /\ UNCHANGED <<history, events, round>>

\* The statement query failed: the rows of the refresh before stay.
QueryFails(tick) ==
    /\ NextRefresh
    /\ snap' = [snap EXCEPT !.id = @ + 1, !.at = @ + tick]
    /\ Unjudged

\* The first rows, or rows read in the same instant, only replace the last.
Replaces(tick) ==
    /\ NextRefresh
    /\ snap.last = -1 \/ snap.at + tick = snap.last
    /\ snap' = [id |-> snap.id + 1, at |-> snap.at + tick, last |-> snap.at + tick]
    /\ Unjudged

\* Analyze with a time since the last rows to divide by: the samples are kept,
\* and on a busy machine the hot statements are to be evaluated.
Analyzes(tick) ==
    /\ NextRefresh
    /\ snap.last # -1
    /\ snap.at + tick # snap.last
    /\ snap' = [snap EXCEPT !.id = @ + 1, !.at = @ + tick]
    /\ \E sample \in [Sql -> Sample \cup {None}] :
          \E hot \in SUBSET {q \in Sql : sample[q].acs = 1} :
             /\ history' = [history EXCEPT !.sql = SqlAfter(snap'.id, sample)]
             /\ round' = [open |-> TRUE, todo |-> hot, fired |-> {}, sample |-> sample]
    /\ UNCHANGED <<events, verdict>>

Regresses(q) ==
    /\ q \in round.todo
    /\ FiresNow(q)
    /\ history' = [history EXCEPT !.baseline = BaselinesAfter(q)]
    /\ events' = Opened(q)
    /\ round' = [round EXCEPT !.todo = @ \ {q}, !.fired = @ \cup {q}]
    /\ UNCHANGED <<snap, verdict>>

StaysQuiet(q) ==
    /\ q \in round.todo
    /\ ~FiresNow(q)
    /\ round' = [round EXCEPT !.todo = @ \ {q}]
    /\ UNCHANGED <<snap, history, events, verdict>>

\* The recovered are looked for with the time of the rows before, and only then
\* is it replaced.
Judges ==
    /\ round.open
    /\ round.todo = {}
    /\ history' = [history EXCEPT !.baseline = @ \ Recovered]
    /\ events' = Closed({b.sql : b \in Recovered})
    /\ snap' = [snap EXCEPT !.last = snap.at]
    /\ verdict' = [fired |-> round.fired, sample |-> round.sample]
    /\ round' = NoRound

PlanNext ==
    \/ \E tick \in 0..1 : QueryFails(tick) \/ Replaces(tick) \/ Analyzes(tick)
    \/ \E q \in Sql : Regresses(q) \/ StaysQuiet(q)
    \/ Judges

PlanSpec == PlanInit /\ [][PlanNext]_planVars

-----------------------------------------------------------------------------
(***************************************************************************)
(* Properties                                                              *)
(***************************************************************************)
\* A regression stays detected for as long as it lasts: a statement that fired
\* and is sampled just the same fires again when it is evaluated, however long
\* ago its quick samples left the comparison window, unless its baseline is gone.
StillFires ==
    [][ \A q \in round.todo \ round'.todo :
           (/\ q \in verdict.fired
            /\ round.sample[q] = verdict.sample[q]
            /\ BaselineOf(q) # {})
           => q \in round'.fired ]_planVars

\* A baseline goes with the event of its statement, when it has not fired again.
\* Otherwise it is lost only to make room: it is of the oldest of the MaxSnap
\* snapshots that hold one, and another statement has just fired.
BaselineStays ==
    [][ \A b \in history.baseline \ history'.baseline :
           \/ events'.open[b.sql] = 0 /\ b.sql \notin verdict'.fired
           \/ /\ Cardinality(BaselineSnaps) >= MaxSnap
              /\ \A c \in history.baseline : b.snap <= c.snap
              /\ \E q \in round'.fired \ round.fired : q # b.sql ]_planVars

\* Each statement with a baseline has one, and an open event of its own, and an
\* event is marked recovered exactly when it is not open: the records are updated
\* by different calls and are never reconciled.
EventMatchesBaseline ==
    /\ \A q \in Sql :
          /\ Cardinality(BaselineOf(q)) <= (IF events.open[q] = 0 THEN 0 ELSE 1)
          /\ events.open[q] # 0 => events.kept[events.open[q]].sql = q
    /\ \A i \in DOMAIN events.kept :
          events.kept[i].recovered <=> \A q \in Sql : events.open[q] # i

\* Making room for samples costs the oldest only, although a refresh may evict
\* several: what goes is older than all that stays, and at least MaxSnap - 1
\* snapshots stay, so that the next comparisons find theirs.
KeepsNewest ==
    \A k \in DOMAIN history.sql \ DOMAIN history'.sql :
        /\ Cardinality(DOMAIN history'.sql) >= MaxSnap - 1
        /\ \A y \in DOMAIN history'.sql : k < y

WindowHasHistory == [][KeepsNewest]_planVars

\* What the plan-change scenario promises: a regression that lasts fires, its
\* events and baselines agree, and an eviction costs no more than it must.
PlanSafety ==
  /\ [](PlanTypeOK /\ EventMatchesBaseline)
  /\ StillFires
  /\ BaselineStays
  /\ WindowHasHistory
=============================================================================
