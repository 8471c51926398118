--------------------------- MODULE InstancePanel ---------------------------
(***************************************************************************)
(* gstop's instance panel (internal/monitor/instance.go): a refresh reads  *)
(* its cells one query after another, in the order of instance.cfg, and    *)
(* shows all of them or none.                                              *)
(*                                                                         *)
(* TPS, QPS and XLOG are rates: the growth of a counter of the server over *)
(* the time between two refreshes.  The panel keeps the readings it takes  *)
(* the differences to, and puts them back when a later query of the same   *)
(* refresh fails.  The server works on between two queries, and a restart  *)
(* of it sets back the counters that live in memory.                       *)
(***************************************************************************)
EXTENDS Integers, Sequences

CONSTANTS
    RateCells,       \* sequence of the rate cells, in the order of the panel
    DurableCells,    \* those whose counter a restart of the server keeps
    LastSecond,      \* bound: the clock
    MaxWork          \* bound: the work the server does for each counter

Counter == {RateCells[i] : i \in DOMAIN RateCells}

\* Each rate has one cell (configs/monitor/instance.cfg).
ASSUME PanelCellsAssumption ==
    /\ RateCells \in Seq(Counter)
    /\ \A i, j \in DOMAIN RateCells : RateCells[i] = RateCells[j] => i = j
    /\ DurableCells \subseteq Counter
    /\ LastSecond \in Nat \ {0}
    /\ MaxWork \in [Counter -> Nat \ {0}]

VARIABLES
    dbms,            \* the server: its clock, its counters and the work behind them
    meter,           \* lastTime, interval and the readings before (prevTPS, ...)
    sweepOf,         \* the refresh that runs: its cell, what it saved, showed, read
    tiles,           \* what the panel shows
    readings         \* the last two refreshes shown, and what they had read

instanceVars == <<dbms, meter, sweepOf, tiles, readings>>

NoRate == [by |-> 0, over |-> 0]

NothingRead == [at |-> 0, of |-> [c \in Counter |-> 0], work |-> [c \in Counter |-> 0]]

InstanceTypeOK ==
    /\ dbms.now \in 1..LastSecond
    /\ meter.lastTime \in 0..dbms.now
    /\ meter.interval \in 0..LastSecond
    /\ sweepOf.cell \in 0..(Len(RateCells) + 3)
    /\ \A c \in Counter :
           /\ dbms.count[c] \in 0..dbms.work[c]
           /\ meter.prev[c] \in 0..MaxWork[c]
           /\ tiles[c].over \in 0..LastSecond
    /\ Len(readings) <= 2

InstanceInit ==
    /\ dbms = [now |-> 1, count |-> [c \in Counter |-> 1], work |-> [c \in Counter |-> 1],
               boot |-> 0]
    /\ meter = [lastTime |-> 0, interval |-> 0, prev |-> [c \in Counter |-> 0]]
    /\ sweepOf = [cell |-> 0, saved |-> meter, cells |-> [c \in Counter |-> NoRate],
                  read |-> NothingRead]
    /\ tiles = [c \in Counter |-> NoRate]
    /\ readings = << >>

-----------------------------------------------------------------------------
(***************************************************************************)
(* The server                                                              *)
(***************************************************************************)
Elapse ==
    /\ dbms.now < LastSecond
    /\ dbms' = [dbms EXCEPT !.now = @ + 1]

ServerWorks(c) ==
    /\ dbms.work[c] < MaxWork[c]
    /\ dbms' = [dbms EXCEPT !.work[c] = @ + 1, !.count[c] = @ + 1]

ServerRestarts ==
    /\ dbms.boot = 0
    /\ dbms' = [dbms EXCEPT
           !.boot = 1,
           !.count = [c \in Counter |-> IF c \in DurableCells THEN dbms.count[c] ELSE 0]]

ServerMoves ==
    /\ \/ Elapse
       \/ \E c \in Counter : ServerWorks(c)
       \/ ServerRestarts
    /\ UNCHANGED <<meter, sweepOf, tiles, readings>>

-----------------------------------------------------------------------------
(***************************************************************************)
(* The refresh                                                             *)
(***************************************************************************)
\* RefreshWithContext, up to its first query.
RefreshStarts ==
    /\ sweepOf.cell = 0
    /\ sweepOf' = [cell |-> 1, saved |-> meter, cells |-> [c \in Counter |-> NoRate],
                   read |-> NothingRead]
    /\ UNCHANGED <<dbms, meter, tiles, readings>>

\* failRefresh
PutsReadingsBack == meter' = sweepOf.saved

\* A query returns nothing, or a row that is no timestamp, counter or LSN.
CellFails ==
    /\ sweepOf.cell \in 1..(Len(RateCells) + 2)
    /\ PutsReadingsBack
    /\ sweepOf' = [sweepOf EXCEPT !.cell = 0, !.cells = tiles, !.read = NothingRead]
    /\ UNCHANGED <<dbms, tiles, readings>>

\* refreshTime: the first cell.  It takes no interval on the first refresh.
TimeRead ==
    /\ sweepOf.cell = 1
    /\ meter' = [meter EXCEPT
           !.interval = IF meter.lastTime = 0 THEN @ ELSE dbms.now - meter.lastTime,
           !.lastTime = dbms.now]
    /\ sweepOf' = [sweepOf EXCEPT !.cell = 2, !.read.at = dbms.now]
    /\ UNCHANGED <<dbms, tiles, readings>>

\* refreshSession, refreshPercentile, refreshThreadpool: cells that show what
\* they read, here one of them; it can only fail the refresh.
GaugeRead ==
    /\ sweepOf.cell = 2
    /\ sweepOf' = [sweepOf EXCEPT !.cell = 3]
    /\ UNCHANGED <<dbms, meter, tiles, readings>>

\* Mutant: a counter below the reading before is not told apart.
RateUnchecked(c, cur) ==
    IF /\ meter.prev[c] # 0
       /\ meter.interval > 0
    THEN [by |-> cur - meter.prev[c], over |-> meter.interval]
    ELSE NoRate

\* The value of refreshCounter and refreshXlog.
RateOf(c, cur) ==
    IF /\ meter.prev[c] # 0
       /\ cur >= meter.prev[c]
       /\ meter.interval > 0
    THEN [by |-> cur - meter.prev[c], over |-> meter.interval]
    ELSE NoRate

CounterRead ==
    /\ sweepOf.cell \in 3..(Len(RateCells) + 2)
    /\ LET c   == RateCells[sweepOf.cell - 2]
           cur == dbms.count[c]
       IN  /\ meter' = [meter EXCEPT !.prev[c] = cur]
           /\ sweepOf' = [sweepOf EXCEPT
                  !.cell = @ + 1,
                  !.cells[c] = RateOf(c, cur),
                  !.read.of[c] = cur,
                  !.read.work[c] = dbms.work[c]]
    /\ UNCHANGED <<dbms, tiles, readings>>

\* The values are shown, all of them.
RefreshShown ==
    /\ sweepOf.cell = Len(RateCells) + 3
    /\ tiles' = sweepOf.cells
    /\ readings' = IF readings = << >>
                   THEN <<sweepOf.read>>
                   ELSE <<readings[Len(readings)], sweepOf.read>>
    /\ sweepOf' = [sweepOf EXCEPT !.cell = 0, !.read = NothingRead]
    /\ UNCHANGED <<dbms, meter>>

RefreshMoves ==
    \/ RefreshStarts
    \/ CellFails
    \/ TimeRead
    \/ GaugeRead
    \/ CounterRead
    \/ RefreshShown

InstanceNext == ServerMoves \/ RefreshMoves

InstanceSpec == InstanceInit /\ [][InstanceNext]_instanceVars

-----------------------------------------------------------------------------
Older == readings[1]
Newer == readings[2]

(* A rate is never negative and never more than the work the server did    *)
(* between the two refreshes shown last, over the time between them: a     *)
(* restart of the server in between makes it smaller, never larger         *)
(* (refreshCounter and refreshXlog).                                       *)
RateIsReal ==
    Len(readings) = 2 =>
        \A c \in Counter :
            /\ tiles[c].by \in 0..(Newer.work[c] - Older.work[c])
            /\ tiles[c].by > 0 => tiles[c].over = Newer.at - Older.at

(* Without a restart no work goes missing: whatever refreshes failed in    *)
(* between, and at whichever of their queries, the rate is all the work    *)
(* since the last refresh shown (captureSampleState, failRefresh).         *)
RateIsComplete ==
    Len(readings) = 2 =>
        \A c \in Counter :
            (/\ Newer.of[c] - Older.of[c] = Newer.work[c] - Older.work[c]
             /\ Older.of[c] # 0
             /\ Newer.at > Older.at)
            => tiles[c].by = Newer.work[c] - Older.work[c]

\* What the instance panel promises of its rates: no more than the work that
\* was done, and all of it without a restart.
InstanceSafety ==
  /\ InstanceTypeOK
  /\ RateIsReal
  /\ RateIsComplete
=============================================================================
