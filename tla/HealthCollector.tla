---------------------------- MODULE HealthCollector ----------------------------
(***************************************************************************)
(* The health dashboard's collector, src/internal/healthdash/collector.go: *)
(* three refresh classes, each single flight, publish into one snapshot.   *)
(* RefreshFast samples the statement counters and the active sessions and  *)
(* starts the two others: a memory refresh that joins session memory with  *)
(* the active list it was given, and a slow refresh of every user database *)
(* and of the cluster.  Cancel and Stop end the collector.                 *)
(*                                                                         *)
(* A statement counter only grows, except when the server resets it or     *)
(* drops the statement from its view; the deltas shown are against a       *)
(* baseline the collector rebases when it sees a counter go back.          *)
(***************************************************************************)
EXTENDS Naturals

CONSTANTS SqlId,        \* statements
          MaxCalls,     \* bound: a statement's counter
          MaxSample,    \* bound: samples taken
          MaxResets     \* bound: counter resets

ASSUME CollectorAssumption ==
         /\ MaxCalls \in Nat
         /\ MaxSample \in Nat
         /\ MaxResets \in Nat

VARIABLES counters,  \* calls per statement (0: not in the view), and resets so far
          shown,     \* the published snapshot: statement deltas, the sample of
                     \* the memory list (0: blank) and slowRefreshing
          memo,      \* what the collector remembers: baseline, last, whether
                     \* the baseline is set, the newest sample number
          work,      \* per class: pc, the sample it works for, what it read
          ending     \* the shutdown: open, canceled, stopped

collectorVars == <<counters, shown, memo, work, ending>>

Class == {"fast", "memory", "slow"}
Quiet == [pc |-> "idle", sample |-> 0, read |-> [s \in SqlId |-> 0]]

CollectorInit ==
  /\ counters = [calls |-> [s \in SqlId |-> 0], resets |-> 0]
  /\ shown = [delta |-> [s \in SqlId |-> 0], memory |-> 0,
              slowRefreshing |-> FALSE]
  /\ memo = [baseline |-> [s \in SqlId |-> 0], last |-> [s \in SqlId |-> 0],
             set |-> FALSE, sample |-> 0]
  /\ work = [c \in Class |-> Quiet]
  /\ ending = "open"

Canceling == ending # "open"
Busy(c) == work[c].pc # "idle"
\* beginWork: under lifecycleMu, so an accepted refresh is one Stop waits for.
MayBegin(c) == ~Canceling /\ ~Busy(c)

----------------------------------------------------------------------------
\* The server.

RunStatement(s) ==
  /\ counters.calls[s] < MaxCalls
  /\ counters' = [counters EXCEPT !.calls[s] = @ + 1]
  /\ UNCHANGED <<shown, memo, work, ending>>

\* The counter restarts, or the statement leaves the view.
ResetStatement(s, to) ==
  /\ counters.calls[s] > to /\ counters.resets < MaxResets
  /\ counters' = [calls |-> [counters.calls EXCEPT ![s] = to], resets |-> counters.resets + 1]
  /\ UNCHANGED <<shown, memo, work, ending>>

----------------------------------------------------------------------------
\* RefreshFast.

BeginFast ==
  /\ MayBegin("fast") /\ memo.sample < MaxSample
  /\ memo' = [memo EXCEPT !.sample = @ + 1]
  /\ work' = [work EXCEPT !["fast"].pc = "query", !["fast"].sample = memo.sample + 1]
  /\ UNCHANGED <<counters, shown, ending>>

\* The statement query answers; nil on failure.
ReadStatements(ok) ==
  /\ work["fast"].pc = "query"
  /\ work' = [work EXCEPT !["fast"].pc = IF ok THEN "publish" ELSE "blank",
                          !["fast"].read = counters.calls]
  /\ UNCHANGED <<counters, shown, memo, ending>>

\* rebaseStatements: a statement seen before whose counter went back starts
\* again from what it shows now.
Rebased(current) ==
  [s \in SqlId |->
     IF current[s] # 0 /\ current[s] < memo.last[s] THEN current[s] ELSE memo.baseline[s]]

Baseline(current) == IF memo.set THEN Rebased(current) ELSE current

\* Mutant: only the previous sample is remembered, not every statement seen.
LastSampleOnly(current) == current

Remembered(current) ==
  [s \in SqlId |-> IF current[s] # 0 THEN current[s] ELSE memo.last[s]]

\* nonNegativeDelta: a counter behind its baseline counts as no call.  A
\* statement without a baseline counts from zero.
Delta(current, baseline) ==
  [s \in SqlId |-> IF current[s] > baseline[s] THEN current[s] - baseline[s] ELSE 0]

\* Every list of the sample is published together.
PublishFast ==
  /\ work["fast"].pc \in {"publish", "blank"}
  /\ LET current == work["fast"].read
         ok == work["fast"].pc = "publish"
     IN /\ memo' = IF ok THEN [memo EXCEPT !.baseline = Baseline(current), !.set = TRUE,
                                           !.last = Remembered(current)]
                   ELSE memo
        /\ shown' = [shown EXCEPT
                       !.delta = IF ok THEN Delta(current, Baseline(current))
                                 ELSE [s \in SqlId |-> 0]]
  /\ work' = [work EXCEPT !["fast"].pc = "memory", !["fast"].read = Quiet.read]
  /\ UNCHANGED <<counters, ending>>

\* startMemoryRefresh: due, the gate agrees and none is running.
StartMemory ==
  /\ work["fast"].pc = "memory" /\ MayBegin("memory")
  /\ work' = [work EXCEPT !["fast"].pc = "slow",
                          !["memory"] = [Quiet EXCEPT !.pc = "query", !.sample = work["fast"].sample]]
  /\ UNCHANGED <<counters, shown, memo, ending>>

\* Not enabled, not due, refused by the CPU gate, busy, or stopping.
SkipMemory ==
  /\ work["fast"].pc = "memory"
  /\ work' = [work EXCEPT !["fast"].pc = "slow"]
  /\ UNCHANGED <<counters, shown, memo, ending>>

\* startSlowRefresh: by RefreshFast when due, or by the user at any time
\* (RequestSlowRefresh).  The flag is raised before the goroutine starts.
StartSlow(by) ==
  /\ by = "fast" => work["fast"].pc = "slow"
  /\ MayBegin("slow")
  /\ work' = [work EXCEPT !["fast"].pc = IF by = "fast" THEN "end" ELSE @,
                          !["slow"].pc = "query"]
  /\ shown' = [shown EXCEPT !.slowRefreshing = TRUE]
  /\ UNCHANGED <<counters, memo, ending>>

SkipSlow ==
  /\ work["fast"].pc = "slow"
  /\ work' = [work EXCEPT !["fast"].pc = "end"]
  /\ UNCHANGED <<counters, shown, memo, ending>>

----------------------------------------------------------------------------
\* refreshMemory and refreshSlow.

\* The metrics join the memory rows with the active list of the sample the
\* refresh was started for; a failed query blanks them.
PublishMemory(ok) ==
  /\ work["memory"].pc = "query"
  /\ shown' = [shown EXCEPT !.memory = IF ok THEN work["memory"].sample ELSE 0]
  /\ work' = [work EXCEPT !["memory"].pc = "end"]
  /\ UNCHANGED <<counters, memo, ending>>

\* refreshSlow asks every user database and the cluster manager; a part that
\* failed is blank or kept from before, database by database.
PublishSlow ==
  /\ work["slow"].pc = "query"
  /\ shown' = [shown EXCEPT !.slowRefreshing = FALSE]
  /\ work' = [work EXCEPT !["slow"].pc = "end"]
  /\ UNCHANGED <<counters, memo, ending>>

EndWork(c) ==
  /\ work[c].pc = "end"
  /\ work' = [work EXCEPT ![c] = Quiet]
  /\ UNCHANGED <<counters, shown, memo, ending>>

----------------------------------------------------------------------------
\* requestExit cancels, the shutdown waits for what was accepted.

CancelCollector ==
  /\ ending = "open"
  /\ ending' = "canceled"
  /\ UNCHANGED <<counters, shown, memo, work>>

CollectorStopped ==
  /\ ending = "canceled" /\ \A c \in Class : ~Busy(c)
  /\ ending' = "stopped"
  /\ UNCHANGED <<counters, shown, memo, work>>

FastWorks ==
  \/ \E ok \in BOOLEAN : ReadStatements(ok)
  \/ PublishFast
  \/ SkipMemory
  \/ SkipSlow

MemoryWorks == \E ok \in BOOLEAN : PublishMemory(ok)

CollectorNext ==
  \/ \E s \in SqlId :
       \/ RunStatement(s)
       \/ \E to \in {0, 1} : ResetStatement(s, to)
  \/ BeginFast
  \/ FastWorks
  \/ MemoryWorks
  \/ PublishSlow
  \/ StartMemory
  \/ \E by \in {"fast", "user"} : StartSlow(by)
  \/ \E c \in Class : EndWork(c)
  \/ CancelCollector
  \/ CollectorStopped

\* Every query of a refresh returns (DbGateway's CallsReturn).
CollectorGoesOn ==
  \/ FastWorks \/ MemoryWorks \/ PublishSlow
  \/ CollectorStopped
  \/ \E c \in Class : EndWork(c)

CollectorFairness == WF_collectorVars(CollectorGoesOn)

CollectorSpec == CollectorInit /\ [][CollectorNext]_collectorVars /\ CollectorFairness

----------------------------------------------------------------------------
\* No baseline is ever above the newest counter seen of its statement,
\* whatever the server resets, drops and lists again between samples, failed
\* samples included: nonNegativeDelta would hide the statement's calls until
\* the counter has caught up.
BaselineBehind == \A s \in SqlId : memo.baseline[s] <= memo.last[s]

\* The memory list is never replaced by one joined with an older active list.
MemoryNeverOlder ==
  [][shown.memory' # shown.memory => shown.memory' \notin 1 .. shown.memory]_collectorVars

\* "Refreshing" is shown only while a slow refresh is really under way, so it
\* cannot stay on the screen for ever.
SlowFlagHonest == shown.slowRefreshing => work["slow"].pc = "query"

\* After Stop has returned no refresh runs or starts, not even the one the
\* user requests by hand: the database is closed next.
CollectorQuiet == ending = "stopped" => \A c \in Class : ~Busy(c)

\* Stop returns once it has cancelled.
CollectorSettled == ending # "canceled"

\* What the collector promises: baselines behind the counters, an honest
\* "refreshing", memory lists in order, and silence after Stop.
CollectorSafety ==
  /\ [](BaselineBehind /\ SlowFlagHonest /\ CollectorQuiet)
  /\ MemoryNeverOlder
=============================================================================
