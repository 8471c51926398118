------------------------------ MODULE DbPanel ------------------------------
(***************************************************************************)
(* gstop's database panel (internal/monitor/db.go).  Some of its cells are *)
(* not read at every refresh: the version is read once, the primary node   *)
(* every PriEvery refreshes, and the plan cache's memory no more often     *)
(* than a gate shared by the process allows (internal/health/health.go),   *)
(* which also shuts while the machine's CPU is busy.  The cells db% and    *)
(* WTR% are rates: each is computed from one sample of the server's busy   *)
(* time, against the sample it was last computed from.                     *)
(*                                                                         *)
(* A refresh that fails at any cell must leave these caches, the gate and  *)
(* the metadata it shares with the writers of files (model/dbinfo.go) as   *)
(* it found them.                                                          *)
(***************************************************************************)
EXTENDS Integers, Sequences

CONSTANTS
    ClusterNode,     \* the nodes a primary may run on
    HostNode,        \* the node gstop runs on
    PriEvery,        \* priRefreshEvery
    GateInterval,    \* main.dynamic_mem_interval
    LastTick         \* bound: the clock

ASSUME DbPanelAssumption ==
    /\ HostNode \in ClusterNode
    /\ PriEvery \in Nat
    /\ GateInterval \in Nat \ {0}
    /\ LastTick \in Nat \ {0}

VARIABLES
    cluster,         \* the clock, the primary's node, and whether the CPU is busy
    gate,            \* lastMemRef["pcache"]: 0 before the first commit
    dbCache,         \* version, primaryNode, counter, pcache, and busy with lastBusy
    dbRefresh,       \* the refresh that runs: its cell, what it saved and commits
    dbInfo,          \* the shared version and role
    dbTiles          \* what the panel shows, and when it found the gate open

dbPanelVars == <<cluster, gate, dbCache, dbRefresh, dbInfo, dbTiles>>

DbCells == <<"version", "PRI", "pcache", "db%", "WTR%">>

NoNode == 0

NoInfo == [version |-> FALSE, role |-> "unknown"]

\* The plan cache's memory is told apart by when it was read and shown.
NoMemory == [read |-> 0, shown |-> 0]

\* Samples of the busy time are told apart by when they were taken, 0 for none: the
\* newest, and those db% and WTR% were last computed from.
NoSamples == [newest |-> 0, rate |-> 0, wait |-> 0]

\* The two rates, as the intervals they are about.
NoRates == [rate |-> [from |-> 0, to |-> 0], wait |-> [from |-> 0, to |-> 0]]

Idle == [cell |-> 0, saved |-> [version |-> FALSE, node |-> NoNode, counter |-> 0,
                                pcache |-> NoMemory, busy |-> NoSamples],
         info |-> NoInfo, commits |-> FALSE, checked |-> 0, rates |-> NoRates]

DbPanelTypeOK ==
    /\ cluster \in [now : 1..LastTick, primary : ClusterNode, busy : BOOLEAN]
    /\ gate \in 0..LastTick
    /\ dbCache \in [version : BOOLEAN, node : ClusterNode \cup {NoNode},
                    counter : 0..(PriEvery + 1),
                    pcache : [read : 0..LastTick, shown : 0..LastTick],
                    busy : [newest : 0..LastTick, rate : 0..LastTick,
                            wait : 0..LastTick]]
    /\ dbRefresh.cell \in 0..(Len(DbCells) + 1)
    /\ dbInfo \in [version : BOOLEAN, role : {"unknown", "primary", "standby"}]

DbPanelInit ==
    /\ cluster \in [now : {1}, primary : ClusterNode, busy : {FALSE}]
    /\ gate = 0
    /\ dbRefresh = Idle
    /\ dbCache = Idle.saved
    /\ dbInfo = NoInfo
    /\ dbTiles = [version |-> FALSE, node |-> NoNode, pcache |-> NoMemory, checked |-> 0,
                  rates |-> NoRates]

-----------------------------------------------------------------------------
\* The clock, a switchover, and UpdateCPUUsage by the OS panel.
ClusterMoves ==
    /\ \/ /\ cluster.now < LastTick
          /\ cluster' = [cluster EXCEPT !.now = @ + 1]
       \/ \E n \in ClusterNode \ {cluster.primary} : cluster' = [cluster EXCEPT !.primary = n]
       \/ cluster' = [cluster EXCEPT !.busy = ~@]
    /\ UNCHANGED <<gate, dbCache, dbRefresh, dbInfo, dbTiles>>

\* RefreshWithContext, up to the first cell.
DbRefreshStarts ==
    /\ dbRefresh.cell = 0
    /\ dbRefresh' = [Idle EXCEPT !.cell = 1, !.saved = dbCache, !.info = dbInfo]
    /\ dbCache' = [dbCache EXCEPT !.counter = @ + 1]
    /\ UNCHANGED <<cluster, gate, dbInfo, dbTiles>>

\* Mutant: the primary node of a refresh that failed is kept.
RestoresTheRest == [dbRefresh.saved EXCEPT !.node = dbCache.node]

\* restoreRefreshState
Restores == dbRefresh.saved

\* A query, or a command of the shell, fails or has no usable result.  WTR% has
\* neither.
DbCellFails ==
    /\ dbRefresh.cell \in DOMAIN DbCells \ {Len(DbCells)}
    /\ dbCache' = Restores
    /\ dbRefresh' = Idle
    /\ UNCHANGED <<cluster, gate, dbInfo, dbTiles>>

DbAt(cell) ==
    /\ dbRefresh.cell \in DOMAIN DbCells
    /\ DbCells[dbRefresh.cell] = cell

VersionCell ==
    /\ DbAt("version")
    /\ dbCache' = [dbCache EXCEPT !.version = TRUE]
    /\ dbRefresh' = [dbRefresh EXCEPT
           !.cell = @ + 1,
           !.info.version = IF dbCache.version THEN @ ELSE TRUE]
    /\ UNCHANGED <<cluster, gate, dbInfo, dbTiles>>

\* isPrimary
RoleOf(node) == IF node = HostNode THEN "primary" ELSE "standby"

\* shortCircuit for PRI: the primary node has been found, and not too long ago.
NodeIsCached ==
    /\ dbCache.node # NoNode
    /\ dbCache.counter <= PriEvery

\* The command finds the node, or no node; only a node found is kept as such.
NodeCell ==
    /\ DbAt("PRI")
    /\ \/ /\ NodeIsCached
          /\ dbRefresh' = [dbRefresh EXCEPT !.cell = @ + 1]
          /\ UNCHANGED dbCache
       \/ /\ ~NodeIsCached
          /\ \E node \in {cluster.primary, NoNode} :
                 /\ dbCache' = [dbCache EXCEPT !.node = node, !.counter = 0]
                 /\ dbRefresh' = [dbRefresh EXCEPT !.cell = @ + 1, !.info.role = RoleOf(node)]
    /\ UNCHANGED <<cluster, gate, dbInfo, dbTiles>>

\* canRefreshMemoryLocked
GateIsOpen ==
    /\ ~cluster.busy
    /\ gate = 0 \/ cluster.now - gate >= GateInterval

\* phasePost for the plan cache: the gate is told when the refresh is shown.
CommitsLater ==
    /\ gate' = gate
    /\ dbRefresh' = [dbRefresh EXCEPT !.cell = @ + 1, !.checked = cluster.now, !.commits = TRUE]

MemoryCell ==
    /\ DbAt("pcache")
    /\ \/ /\ GateIsOpen
          /\ dbCache' = [dbCache EXCEPT !.pcache = [read |-> cluster.now, shown |-> 0]]
          /\ CommitsLater
       \/ /\ ~GateIsOpen
          /\ dbRefresh' = [dbRefresh EXCEPT
                 !.cell = @ + 1,
                 !.checked = IF cluster.busy THEN 0 ELSE cluster.now]
          /\ UNCHANGED <<gate, dbCache>>
    /\ UNCHANGED <<cluster, dbInfo, dbTiles>>

\* db%: phaseQuery takes the sample, busyPercent measures it against the last one.
BusyCell ==
    /\ DbAt("db%")
    /\ dbCache' = [dbCache EXCEPT !.busy = [newest |-> cluster.now, rate |-> cluster.now,
                                            wait |-> dbCache.busy.wait]]
    /\ dbRefresh' = [dbRefresh EXCEPT
           !.cell = @ + 1,
           !.rates = [rate |-> [from |-> dbCache.busy.rate, to |-> cluster.now],
                      wait |-> NoRates.wait]]
    /\ UNCHANGED <<cluster, gate, dbInfo, dbTiles>>

\* WTR%: busyPercent alone, of the sample db% has taken.
WaitCell ==
    /\ DbAt("WTR%")
    /\ dbCache' = [dbCache EXCEPT !.busy = [newest |-> dbCache.busy.newest,
                                            rate |-> dbCache.busy.rate,
                                            wait |-> dbCache.busy.newest]]
    /\ dbRefresh' = [dbRefresh EXCEPT
           !.cell = @ + 1,
           !.rates = [rate |-> dbRefresh.rates.rate,
                      wait |-> [from |-> dbCache.busy.wait, to |-> dbCache.busy.newest]]]
    /\ UNCHANGED <<cluster, gate, dbInfo, dbTiles>>

\* The values, the shared metadata and the gate, under the panel's lock.
DbRefreshShown ==
    /\ dbRefresh.cell = Len(DbCells) + 1
    /\ LET memory == IF dbRefresh.commits
                     THEN [dbCache.pcache EXCEPT !.shown = cluster.now]
                     ELSE dbCache.pcache
       IN  /\ dbCache' = [dbCache EXCEPT !.pcache = memory]
           /\ dbTiles' = [version |-> dbCache.version, node |-> dbCache.node,
                          pcache |-> memory, checked |-> dbRefresh.checked,
                          rates |-> dbRefresh.rates]
    /\ dbInfo' = dbRefresh.info
    /\ gate' = IF dbRefresh.commits THEN cluster.now ELSE gate
    /\ dbRefresh' = Idle
    /\ UNCHANGED cluster

DbPanelNext ==
    \/ ClusterMoves
    \/ DbRefreshStarts
    \/ DbCellFails
    \/ VersionCell
    \/ NodeCell
    \/ MemoryCell
    \/ BusyCell
    \/ WaitCell
    \/ DbRefreshShown

DbPanelSpec == DbPanelInit /\ [][DbPanelNext]_dbPanelVars

-----------------------------------------------------------------------------
(* The metadata other parts of gstop name their files by is what the panel *)
(* shows: the version once it is shown, and the role of the node shown,    *)
(* whatever refreshes failed after reading a newer one                     *)
(* (dbRefreshCommit, restoreRefreshState).                                 *)
InfoMatchesPanel ==
    /\ dbInfo.version = dbTiles.version
    /\ dbTiles.version => dbInfo.role = RoleOf(dbTiles.node)

(* A refresh that looks at the gate while the CPU is idle shows memory     *)
(* that is less than an interval old or was read by itself: a refresh that *)
(* fails after reading it uses nothing up (CanRefreshMemory,               *)
(* CommitMemoryRefresh).  What is shown was always read.                   *)
MemoryIsPaced ==
    dbTiles.checked # 0 =>
        /\ dbTiles.pcache.read # 0
        /\ dbTiles.pcache.shown > dbTiles.checked - GateInterval

(* The two rates shown are about one interval, and the next ones will go   *)
(* on where it ends, so that no work is missed or counted twice, whatever  *)
(* refreshes fail after taking a sample (busyPercent, restoreRefreshState).*)
RatesGoOn ==
    /\ dbTiles.rates.rate = dbTiles.rates.wait
    /\ dbRefresh.cell = 0 =>
           dbCache.busy.rate = dbTiles.rates.rate.to /\ dbCache.busy.wait = dbCache.busy.rate

\* What the database panel promises: metadata that agree with what it shows,
\* memory that is read when it is due, and rates that leave no gap.
DbPanelSafety ==
  /\ DbPanelTypeOK
  /\ InfoMatchesPanel
  /\ MemoryIsPaced
  /\ RatesGoOn
=============================================================================
