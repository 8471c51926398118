---------------------------- MODULE EventPanel -----------------------------
(***************************************************************************)
(* gstop's wait-event panel (internal/monitor/event.go).  A refresh takes  *)
(* the mode and the sample of the refresh before, reads every wait event   *)
(* and the CPU time with one query, and shows one row for the CPU and one  *)
(* for each event: absolute values in the cumulative mode, differences to  *)
(* the sample before in the realtime one.  The mode's keys may come at any *)
(* moment of a refresh; the server may restart and count from 0 again.     *)
(*                                                                         *)
(* An event that never waited has no row in the result of the query; here  *)
(* it is a row of zeros, to which the panel compares a new event too.      *)
(***************************************************************************)
EXTENDS Integers, FiniteSets, FiniteSetsExt

CONSTANTS
    WaitEvent,       \* the wait events
    MaxTime,         \* bound: the waits and the time of one event
    MaxReads         \* bound: the refreshes that read something

ASSUME EventAssumption ==
    /\ IsFiniteSet(WaitEvent)
    /\ MaxTime \in Nat
    /\ MaxReads \in Nat

VARIABLES
    waits,           \* the server's counters: CPU time, and waits and time by event
    immediate,       \* the mode asked for: TRUE for realtime
    last,            \* lastCPU, lastTotal, lastEvents
    reading,         \* the refresh that runs: its mode, its last sample, its rows
    board            \* header, rows and total shown, and the samples behind them

eventVars == <<waits, immediate, last, reading, board>>

NoCounts == [cpu |-> 0, waits |-> [e \in WaitEvent |-> 0], time |-> [e \in WaitEvent |-> 0],
             boot |-> 0]

\* One row by event, and the row of the CPU.
NoRows == [cpu |-> 0, time |-> [e \in WaitEvent |-> 0], part |-> [e \in WaitEvent |-> 0],
           total |-> 0]

NotReading == [pc |-> "idle", realtime |-> TRUE, last |-> NoCounts]

EventTypeOK ==
    /\ waits.cpu \in 1..(MaxTime + 1)
    /\ \A e \in WaitEvent : waits.time[e] \in 0..MaxTime
    /\ immediate \in BOOLEAN
    /\ reading.pc \in {"idle", "querying"}
    /\ board.reads \in 0..MaxReads

EventInit ==
    /\ waits = [NoCounts EXCEPT !.cpu = 1]
    /\ immediate = TRUE
    /\ last = NoCounts
    /\ reading = NotReading
    /\ board = [realtime |-> TRUE, rowsOf |-> TRUE, rows |-> NoRows, old |-> NoCounts,
                new |-> NoCounts, reads |-> 0]

-----------------------------------------------------------------------------
\* A wait may still be going on: time without a wait counted, or the reverse.
EventServerMoves ==
    /\ \/ /\ waits.cpu <= MaxTime
          /\ waits' = [waits EXCEPT !.cpu = @ + 1]
       \/ \E e \in WaitEvent, w \in 0..1, t \in 0..1 :
              /\ waits.time[e] + t <= MaxTime
              /\ waits.waits[e] + w <= MaxTime
              /\ w + t > 0
              /\ waits.waits[e] + w > 0
              /\ waits' = [waits EXCEPT !.waits[e] = @ + w, !.time[e] = @ + t]
       \/ /\ waits.boot = 0
          /\ waits' = [NoCounts EXCEPT !.cpu = 1, !.boot = 1]
    /\ UNCHANGED <<immediate, last, reading, board>>

\* SetImmediate
ModeKey ==
    /\ immediate' = ~immediate
    /\ UNCHANGED <<waits, last, reading, board>>

\* RefreshWithContext: the mode and the last sample, under the lock.
EventRefreshStarts ==
    /\ reading.pc = "idle"
    /\ board.reads < MaxReads
    /\ reading' = [pc |-> "querying", realtime |-> immediate, last |-> last]
    /\ UNCHANGED <<waits, immediate, last, board>>

SumTime(s) == MapThenSumSet(LAMBDA e : s.time[e], WaitEvent)

\* computeEventDiffs
CpuDiff == waits.cpu - (IF reading.realtime THEN reading.last.cpu ELSE 0)

TotalDiff ==
    IF reading.realtime
    THEN SumTime(waits) - SumTime(reading.last) + CpuDiff
    ELSE SumTime(waits) + CpuDiff

\* buildCumulativeLines and buildRealtimeLines: the time shown for an event, and
\* the part of the total it is given, which needs both a wait and time.
TimeOf(e) == waits.time[e] - (IF reading.realtime THEN reading.last.time[e] ELSE 0)

WaitsOf(e) == waits.waits[e] - (IF reading.realtime THEN reading.last.waits[e] ELSE 0)

PartOf(e) ==
    IF /\ reading.realtime
       /\ TimeOf(e) <= 0 \/ WaitsOf(e) <= 0
    THEN 0
    ELSE TimeOf(e)

EventRows == [cpu |-> CpuDiff, time |-> [e \in WaitEvent |-> TimeOf(e)],
         part |-> [e \in WaitEvent |-> PartOf(e)], total |-> TotalDiff]

\* Mutant: the header follows the key at once.
HeaderByKey == immediate

\* The header's mode is the one the rows were made for.
HeaderMode == reading.realtime

\* The query fails, or has no row, an invalid one, no total or no CPU time:
\* nothing is shown or kept.
EventRefreshFails ==
    /\ reading.pc = "querying"
    /\ reading' = NotReading
    /\ UNCHANGED <<waits, immediate, last, board>>

\* snapshotEvents, lastCPU and lastTotal: the sample the next refresh differs to.
NextSample == waits

EventRefreshShown ==
    /\ reading.pc = "querying"
    /\ SumTime(waits) # 0
    /\ TotalDiff # 0
    /\ board' = [realtime |-> HeaderMode, rowsOf |-> reading.realtime, rows |-> EventRows,
                 old |-> board.new, new |-> waits, reads |-> board.reads + 1]
    /\ last' = NextSample
    /\ reading' = NotReading
    /\ UNCHANGED <<waits, immediate>>

EventNext ==
    \/ EventServerMoves
    \/ ModeKey
    \/ EventRefreshStarts
    \/ EventRefreshFails
    \/ EventRefreshShown

EventSpec == EventInit /\ [][EventNext]_eventVars

-----------------------------------------------------------------------------
Sameboot == board.old.boot = board.new.boot

(* The header names the mode the rows were made for, whenever the key came *)
(* (RefreshWithContext takes the mode once).                               *)
HeaderMatchesRows == board.realtime = board.rowsOf

(* As long as the server was not restarted, the times of the rows add up   *)
(* to the total their shares are taken of, and no share is over the whole: *)
(* an event that is new, that disappears behind a failed refresh or that   *)
(* waits in the other mode is counted once (computeEventDiffs,             *)
(* snapshotEvents).                                                        *)
SharesAddUp ==
    (board.reads > 0 /\ Sameboot) =>
        /\ board.rows.cpu + SumTime(board.rows) = board.rows.total
        /\ board.rows.total > 0
        /\ board.rows.cpu >= 0
        /\ \A e \in WaitEvent : board.rows.part[e] \in 0..board.rows.total

(* In the realtime mode a row is the growth since the refresh that was     *)
(* shown before, whichever mode that one was in.                           *)
RealtimeSpansOneFrame ==
    (board.reads > 0 /\ board.realtime) =>
        \A e \in WaitEvent : board.rows.time[e] = board.new.time[e] - board.old.time[e]

\* What the event panel promises of a frame: a header of its rows, shares of
\* one total, and realtime values over one frame.
EventSafety ==
  /\ EventTypeOK
  /\ HeaderMatchesRows
  /\ SharesAddUp
  /\ RealtimeSpansOneFrame
=============================================================================
