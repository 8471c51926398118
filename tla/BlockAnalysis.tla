----------------------------- MODULE BlockAnalysis -----------------------------
(***************************************************************************)
(* The session panel's analysis of lock blocking, monitor/                 *)
(* session_block.go: a role per row (holder, waiter, both), an alarm for   *)
(* each plain holder, and the deadlocks, found by a walk along the         *)
(* blocking edges from every waiter, in the order a Go map yields them.    *)
(***************************************************************************)
EXTENDS Naturals, Sequences, FiniteSets

CONSTANT Backend   \* the rows' pids

ASSUME BackendAssumption == IsFiniteSet(Backend) /\ Backend \subseteq Nat \ {0}

VARIABLES blocker,    \* per row: its BLOCKER cell, Nobody when it is NULL
          walk,       \* findCycle: starts left, current, path (visitedLocal)
          visitedAll, \* rows of the deadlocks found
          deadlocks   \* the cycles found, as sets of rows, in order

blockVars == <<blocker, walk, visitedAll, deadlocks>>

Nobody == 0
Outside == 1 + CHOOSE n \in Backend : \A m \in Backend : m <= n

BlockInit ==
  /\ blocker \in [Backend -> Backend \cup {Nobody, Outside}]
  /\ walk = [left |-> {p \in Backend : blocker[p] \notin {Nobody, p}},
             current |-> Nobody, path |-> <<>>]
  /\ visitedAll = {}
  /\ deadlocks = <<>>

Waiting(p) == blocker[p] # Nobody
Holding(p) == \E q \in Backend : blocker[q] = p

BlockRole(p) ==
  IF Waiting(p) THEN IF Holding(p) THEN "H&W" ELSE "W"
  ELSE IF Holding(p) THEN "H" ELSE ""

\* classifyRow raises the alarm for the plain holders only.
Alarmed == {p \in Backend : BlockRole(p) = "H"}

\* The edges: waiters that do not wait for themselves.
Edges == {p \in Backend : Waiting(p) /\ blocker[p] # p}

WalkFrom(p) ==
  /\ walk.current = Nobody /\ p \in walk.left
  /\ walk' = [left |-> walk.left \ {p}, path |-> <<>>,
              current |-> IF p \in visitedAll THEN Nobody ELSE p]
  /\ UNCHANGED <<blocker, visitedAll, deadlocks>>

OnPath(p) == \E i \in 1 .. Len(walk.path) : walk.path[i] = p

WalkOn ==
  /\ walk.current # Nobody /\ walk.current \in Edges
  /\ ~OnPath(walk.current) /\ walk.current \notin visitedAll
  /\ walk' = [walk EXCEPT !.path = Append(@, walk.current),
                          !.current = blocker[walk.current]]
  /\ UNCHANGED <<blocker, visitedAll, deadlocks>>

\* The walk left the graph, or reached a deadlock that is known.
WalkLeaves ==
  /\ walk.current # Nobody
  /\ walk.current \notin Edges \/ (~OnPath(walk.current) /\ walk.current \in visitedAll)
  /\ walk' = [walk EXCEPT !.current = Nobody]
  /\ UNCHANGED <<blocker, visitedAll, deadlocks>>

\* reconstructCycle: the path from the row met again.
CycleNodes ==
  LET first == CHOOSE i \in 1 .. Len(walk.path) : walk.path[i] = walk.current
  IN  {walk.path[i] : i \in first .. Len(walk.path)}

\* Mutant: the deadlock's rows are not remembered.
CycleForgotten ==
  /\ walk.current # Nobody /\ walk.current \in Edges /\ OnPath(walk.current)
  /\ deadlocks' = Append(deadlocks, CycleNodes)
  /\ walk' = [walk EXCEPT !.current = Nobody]
  /\ UNCHANGED <<blocker, visitedAll>>

CycleFound ==
  /\ walk.current # Nobody /\ walk.current \in Edges /\ OnPath(walk.current)
  /\ deadlocks' = Append(deadlocks, CycleNodes)
  /\ visitedAll' = visitedAll \cup CycleNodes
  /\ walk' = [walk EXCEPT !.current = Nobody]
  /\ UNCHANGED blocker

BlockNext ==
  \/ \E p \in Backend : WalkFrom(p)
  \/ WalkOn
  \/ WalkLeaves
  \/ CycleFound

BlockSpec == BlockInit /\ [][BlockNext]_blockVars

(***************************************************************************)
(* Properties                                                              *)
(***************************************************************************)
\* A deadlock: rows each waiting for the next, all around.
Deadlock(c) ==
  /\ c # {} /\ c \subseteq Edges
  /\ \A p \in c : blocker[p] \in c
  /\ \A p, q \in c : \A d \in SUBSET c :
       (p \in d /\ \A r \in d : blocker[r] \in d) => q \in d

\* Whatever the order of the walks, every deadlock is found, once, and nothing
\* else is: not the tail that leads into one, not a row that blocks itself.
DeadlocksExact ==
  /\ \A i \in 1 .. Len(deadlocks) : Deadlock(deadlocks[i])
  /\ \A i, j \in 1 .. Len(deadlocks) : deadlocks[i] = deadlocks[j] => i = j
  /\ (walk.left = {} /\ walk.current = Nobody) =>
       \A c \in SUBSET Backend :
         Deadlock(c) => \E i \in 1 .. Len(deadlocks) : deadlocks[i] = c

\* An alarm names a row that can be ended to free others: it waits for nobody,
\* and every row that is alarmed blocks another one.
AlarmsAreRoots ==
  \A p \in Alarmed : ~Waiting(p) /\ \E q \in Backend \ {p} : blocker[q] = p

\* What the block view promises of any wait graph: the deadlocks and nothing
\* else, and alarms on rows whose end frees others.
BlockSafety ==
  /\ DeadlocksExact
  /\ AlarmsAreRoots
=============================================================================
