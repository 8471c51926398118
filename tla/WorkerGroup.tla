---------------------------- MODULE WorkerGroup ----------------------------
(* A group of load workers (internal/gsbench/workers.go): goroutines that     *)
(* count themselves in, wait behind a shared start gate, and then execute     *)
(* operations back to back until their context, the deadline or the group     *)
(* ends.                                                                      *)
(*                                                                            *)
(* Three parties share the group: its owner, which sets the target, waits for *)
(* the workers, installs the deadline and opens the gate; whoever stops it;   *)
(* and the workers.  Each step below is one atomic operation, one critical    *)
(* section of the mutex, or one operation of the workload.                    *)
EXTENDS Integers, FiniteSets

CONSTANTS Max,         \* the maximum of the group
          MaxSpawned   \* bound on goroutines started in a behaviour

ASSUME GroupConstants == Max \in Nat /\ MaxSpawned \in Nat

VARIABLES nextID, slots, retiring, stopped,  \* under the mutex
          cancelled,  \* workers whose own context was cancelled
          groupDone,  \* the context of the group is over
          closed,     \* no operation may start any more
          deadline,   \* "none", "ahead" or "past"
          timer,      \* the deadline timer is armed
          gate,       \* the start channel is closed
          token,      \* the one slot of the state channel is full
          active, started, peak,             \* atomic counters
          pc,         \* where each worker is
          mine,       \* the value its active.Add returned
          read,       \* the peak it loaded
          owner,      \* where the owner is in WaitReady
          wanted,     \* the target it waits for
          stopper,    \* where Stop is
          highest     \* history: the highest value active ever had

locked == <<nextID, slots, retiring, stopped, cancelled>>
cutoff == <<groupDone, closed, deadline, timer>>
counters == <<active, started, peak, highest>>
workers == <<pc, mine, read>>
owners == <<owner, wanted>>
vars == <<locked, cutoff, gate, token, counters, workers, owners, stopper>>

Worker == 0..(MaxSpawned - 1)
Spawned == 0..(nextID - 1)
Done(w) == w \in cancelled \/ groupDone
Goto(w, point) == pc' = [pc EXCEPT ![w] = point]

\* A group without a gate of its own is one whose gate opens first.
Init ==
  /\ nextID = 0 /\ slots = {} /\ retiring = {} /\ stopped = FALSE
  /\ cancelled = {} /\ groupDone = FALSE /\ closed = FALSE
  /\ deadline = "none" /\ timer = FALSE
  /\ gate = FALSE
  /\ token = FALSE
  /\ active = 0 /\ started = 0 /\ peak = 0 /\ highest = 0
  /\ pc = [w \in Worker |-> "off"]
  /\ mine = [w \in Worker |-> 0]
  /\ read = [w \in Worker |-> 0]
  /\ owner = "free" /\ wanted = 0
  /\ stopper = "off"

-----------------------------------------------------------------------------
(* The owner.                                                                 *)

\* The n highest of the ids in S.
Newest(S, n) == {w \in S : Cardinality({v \in S : v > w}) < n}

Raise(n) ==
  LET fresh == nextID..(nextID + n - Cardinality(slots) - 1) IN
  /\ n > Cardinality(slots)
  /\ fresh \subseteq Worker
  /\ nextID' = nextID + n - Cardinality(slots)
  /\ slots' = slots \cup fresh
  /\ pc' = [w \in Worker |-> IF w \in fresh THEN "spawned" ELSE pc[w]]
  /\ UNCHANGED <<retiring, cancelled>>

Lower(n) ==
  LET leaving == Newest(slots, Cardinality(slots) - n) IN
  /\ n <= Cardinality(slots)
  /\ retiring' = retiring \cup leaving
  /\ cancelled' = cancelled \cup leaving
  /\ slots' = slots \ leaving
  /\ UNCHANGED <<nextID, pc>>

\* A stopped group refuses every target.
SetTarget(n) ==
  /\ owner = "free"
  /\ ~stopped
  /\ Raise(n) \/ Lower(n)
  /\ UNCHANGED <<stopped, cutoff, gate, token, counters, mine, read, owners, stopper>>

\* The owner moves to point, waiting for n workers.
OwnerGoes(point, n) ==
  /\ owner' = point /\ wanted' = n
  /\ UNCHANGED <<locked, cutoff, gate, counters, workers, stopper>>

\* For n > 0: WaitReady for nobody returns at once.
WaitReady(n) == owner = "free" /\ OwnerGoes("check", n) /\ UNCHANGED token

\* The loop of WaitReady: read started, then sleep on the channel.
WaitReadyChecks ==
  /\ owner = "check"
  /\ \/ started >= wanted /\ OwnerGoes("free", 0)
     \/ started < wanted /\ OwnerGoes("blocked", wanted)
  /\ UNCHANGED token

WaitReadyWakes ==
  /\ owner = "blocked" /\ token
  /\ token' = FALSE
  /\ OwnerGoes("check", wanted)

\* The group is over, or (at any time) the context of the owner.
WaitReadyFails == owner = "blocked" /\ OwnerGoes("free", 0) /\ UNCHANGED token

\* closeInjection; its three atomic steps are one here.
CloseInjection == closed' = TRUE /\ groupDone' = TRUE /\ token' = TRUE

\* Mutant: the deadline is stored, and no timer armed for it.
SetRunDeadlineUntimed ==
  /\ owner = "free" /\ ~stopped
  /\ deadline' = "ahead"
  /\ UNCHANGED <<locked, groupDone, closed, timer, gate, token, counters, workers,
                 owners, stopper>>

\* A deadline that lies ahead, or one that is over already.
SetRunDeadline ==
  /\ owner = "free" /\ ~stopped
  /\ \/ /\ deadline' = "ahead" /\ timer' = TRUE
        /\ UNCHANGED <<groupDone, closed, token>>
     \/ deadline' = "past" /\ timer' = FALSE /\ CloseInjection
  /\ UNCHANGED <<locked, gate, counters, workers, owners, stopper>>

OpenGate ==
  /\ owner = "free" /\ ~gate
  /\ gate' = TRUE
  /\ UNCHANGED <<locked, cutoff, token, counters, workers, owners, stopper>>

Waiting == WaitReadyChecks \/ WaitReadyWakes \/ (groupDone /\ WaitReadyFails)

-----------------------------------------------------------------------------
(* Time and the context of the caller.                                        *)

DeadlinePasses ==
  /\ deadline = "ahead" /\ deadline' = "past"
  /\ UNCHANGED <<locked, groupDone, closed, timer, gate, token, counters, workers,
                 owners, stopper>>

TimerFires ==
  /\ timer /\ deadline = "past"
  /\ timer' = FALSE
  /\ CloseInjection
  /\ UNCHANGED <<locked, deadline, gate, counters, workers, owners, stopper>>

ParentCancels ==
  /\ ~groupDone /\ groupDone' = TRUE
  /\ UNCHANGED <<locked, closed, deadline, timer, gate, token, counters, workers,
                 owners, stopper>>

-----------------------------------------------------------------------------
(* A worker.                                                                  *)

\* A step of w that touches only its own place.
Step(w, from, to) ==
  /\ pc[w] = from /\ Goto(w, to)
  /\ UNCHANGED <<locked, cutoff, gate, token, counters, mine, read, owners, stopper>>

CountActive(w) ==
  /\ pc[w] = "spawned"
  /\ active' = active + 1
  /\ highest' = IF active' > highest THEN active' ELSE highest
  /\ mine' = [mine EXCEPT ![w] = active']
  /\ Goto(w, "counted")
  /\ UNCHANGED <<locked, cutoff, gate, token, started, peak, read,
                 owners, stopper>>

CountStarted(w) ==
  /\ pc[w] = "counted"
  /\ started' = started + 1
  /\ Goto(w, "started")
  /\ UNCHANGED <<locked, cutoff, gate, token, active, peak, highest, mine,
                 read, owners, stopper>>

LoadPeak(w) ==
  /\ pc[w] = "started"
  /\ \/ mine[w] <= peak /\ Goto(w, "notify") /\ UNCHANGED read
     \/ mine[w] > peak /\ Goto(w, "swap") /\ read' = [read EXCEPT ![w] = peak]
  /\ UNCHANGED <<locked, cutoff, gate, token, counters, mine, owners, stopper>>

\* CompareAndSwap, or once more.
SwapPeak(w) ==
  /\ pc[w] = "swap"
  /\ \/ peak = read[w] /\ peak' = mine[w] /\ Goto(w, "notify")
     \/ peak # read[w] /\ peak' = peak /\ Goto(w, "started")
  /\ read' = [read EXCEPT ![w] = 0]
  /\ UNCHANGED <<locked, cutoff, gate, token, active, started, highest, mine, owners,
                 stopper>>

\* notifyState never blocks: a full slot stays full.
Notify(w) ==
  /\ pc[w] = "notify"
  /\ token' = TRUE
  /\ Goto(w, "gate")
  /\ mine' = [mine EXCEPT ![w] = 0]
  /\ UNCHANGED <<locked, cutoff, gate, counters, read, owners, stopper>>

PassGate(w) ==
  \/ Done(w) /\ Step(w, "gate", "leave")
  \/ gate /\ Step(w, "gate", "loop")

\* ctx.Err and canStartOperation.
CheckLoop(w) ==
  \/ (Done(w) \/ closed) /\ Step(w, "loop", "leave")
  \/ ~Done(w) /\ ~closed /\ deadline # "past" /\ Step(w, "loop", "cleared")
  \/ /\ pc[w] = "loop"
     /\ ~Done(w) /\ ~closed /\ deadline = "past"
     /\ CloseInjection
     /\ Goto(w, "leave")
     /\ UNCHANGED <<locked, deadline, timer, gate, counters, mine, read,
                    owners, stopper>>

StartOperation(w) == Step(w, "cleared", "work")

\* The operation returns nil; or an error, with which the worker leaves and
\* keeps its slot.
EndOperation(w) == Step(w, "work", "loop") \/ Step(w, "work", "leave")

\* Mutant: the worker counts itself out twice.
LeaveGroupTwice(w) ==
  /\ pc[w] = "leave"
  /\ active' = active - 2
  /\ token' = TRUE
  /\ Goto(w, "retire")
  /\ UNCHANGED <<locked, cutoff, gate, started, peak, highest, mine, read, owners,
                 stopper>>

LeaveGroup(w) ==
  /\ pc[w] = "leave"
  /\ active' = active - 1
  /\ token' = TRUE
  /\ Goto(w, "retire")
  /\ UNCHANGED <<locked, cutoff, gate, started, peak, highest, mine, read,
                 owners, stopper>>

\* retireWorker: look the worker up, then call the hook outside the mutex.
Retire(w) ==
  /\ pc[w] = "retire"
  /\ retiring' = retiring \ {w}
  /\ Goto(w, IF w \in retiring THEN "hook" ELSE "done")
  /\ UNCHANGED <<nextID, slots, stopped, cancelled, cutoff, gate, token,
                 counters, mine, read, owners, stopper>>

CallHook(w) == Step(w, "hook", "done")

\* Everything a worker does on its own; an operation comes to its end on its
\* own only once its context is over.
Proceed(w) ==
  \/ CountActive(w) \/ CountStarted(w) \/ LoadPeak(w) \/ SwapPeak(w) \/ Notify(w)
  \/ PassGate(w) \/ CheckLoop(w) \/ StartOperation(w)
  \/ (Done(w) /\ EndOperation(w))
  \/ LeaveGroup(w) \/ Retire(w) \/ CallHook(w)

-----------------------------------------------------------------------------
(* Stop.                                                                      *)

StopMarks ==
  /\ stopper = "off"
  /\ stopped' = TRUE
  /\ cancelled' = cancelled \cup slots
  /\ slots' = {}
  /\ timer' = FALSE
  /\ stopper' = "marked"
  /\ UNCHANGED <<nextID, retiring, groupDone, closed, deadline, gate, token, counters,
                 workers, owners>>

StopCloses ==
  /\ stopper = "marked"
  /\ CloseInjection
  /\ stopper' = "waiting"
  /\ UNCHANGED <<locked, deadline, timer, gate, counters, workers, owners>>

\* The wait group is empty, or the context of the caller is over first.
StopReturns ==
  /\ stopper = "waiting"
  /\ \/ (\A w \in Spawned : pc[w] = "done") /\ stopper' = "returned"
     \/ stopper' = "gave_up"
  /\ UNCHANGED <<locked, cutoff, gate, token, counters, workers, owners>>

Stop == StopMarks \/ StopCloses \/ StopReturns

Next ==
  \/ \E n \in 0..Max : SetTarget(n)
  \/ \E n \in 1..Max : WaitReady(n)
  \/ WaitReadyChecks \/ WaitReadyWakes \/ WaitReadyFails
  \/ SetRunDeadline \/ OpenGate
  \/ DeadlinePasses \/ TimerFires \/ ParentCancels
  \/ \E w \in Worker : Proceed(w) \/ EndOperation(w)
  \/ Stop

Spec == Init /\ [][Next]_vars

\* Goroutines and timers run; an operation heeds its context.
FairSpec ==
  /\ Spec
  /\ WF_vars(Waiting)
  /\ WF_vars(TimerFires)
  /\ \A w \in Worker : WF_vars(Proceed(w))

-----------------------------------------------------------------------------
(* Properties.                                                                *)

\* Every variable holds a value of its kind.
TypeOK ==
  /\ nextID \in 0..MaxSpawned
  /\ slots \subseteq Spawned /\ Cardinality(slots) <= Max
  /\ retiring \subseteq Spawned
  /\ cancelled \subseteq Spawned
  /\ {stopped, groupDone, closed, timer, gate, token} \subseteq BOOLEAN
  /\ deadline \in {"none", "ahead", "past"}
  /\ {active, started, peak, highest} \subseteq 0..MaxSpawned
  /\ pc \in [Worker -> {"off", "spawned", "counted", "started", "swap", "notify", "gate",
                        "loop", "cleared", "work", "leave", "retire", "hook", "done"}]
  /\ mine \in [Worker -> 0..MaxSpawned]
  /\ read \in [Worker -> 0..MaxSpawned]
  /\ owner \in {"free", "check", "blocked"}
  /\ wanted \in 0..Max
  /\ stopper \in {"off", "marked", "waiting", "returned", "gave_up"}

\* Once no worker is still counting itself in, the peak is the highest number of
\* workers that were ever active at once: no concurrent update is lost
\* (updatePeakActive), and verifyFixedWorkerResult can rely on it.
PeakIsExact ==
  (\A w \in Worker : pc[w] \notin {"counted", "started", "swap"}) => peak = highest

\* When Stop has returned nil no worker is left, and no late SetTarget starts another
\* that nobody would wait for.
StoppedForGood ==
  stopper = "returned" =>
    /\ \A w \in Spawned : pc[w] = "done"
    /\ active = 0 /\ slots = {}

\* WaitReady for no more workers than were started returns, whichever way the
\* counting, the notifications and the check interleave.
WaitReadyReturns == []<>(owner = "free" \/ wanted > nextID)

\* After the deadline every worker comes to its end, also one whose operation
\* would take forever.
DeadlineEndsWork == []<>(deadline = "past" => \A w \in Spawned : pc[w] = "done")

\* A worker that SetTarget retires while it lives is handed to the retire hook,
\* which closes its session: it ends, and on no other way than through the hook.
RetiredReachHook ==
  /\ [][\A w \in retiring : w \notin retiring' => pc'[w] = "hook"]_vars
  /\ \A w \in Worker : []<>(w \in retiring => pc[w] = "done")

\* What a snapshot of the group and a Stop that returned nil may be relied on for.
WorkersSafe == TypeOK /\ PeakIsExact /\ StoppedForGood

\* Everybody who waits for workers, and every session of a worker, comes to an end.
WorkersEnd == WaitReadyReturns /\ DeadlineEndsWork /\ RetiredReachHook
=============================================================================
