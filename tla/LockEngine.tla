----------------------------- MODULE LockEngine -----------------------------
(* The lock scenarios 501 to 5xx: sessions of one run that wait for each      *)
(* other on the server (lock_engine.go, lock_topology.go, lock_matrix.go,     *)
(* scenario_locks.go).  A holder takes its locks in Prepare; Ramp opens the   *)
(* waiters, each with a goroutine in its blocking statement, and looks for    *)
(* the waits on the server; Stop undoes everything in an order that keeps     *)
(* blockers locked until nobody waits.                                        *)
(*                                                                            *)
(* A lock of a table or a row is a resource, a number; sessions are 0, the    *)
(* holder, and 1.., the waiters in the order they are opened.                 *)
EXTENDS Integers, FiniteSets

CONSTANTS Layouts   \* what may be run: <<kind, sessions, depth>>

LockKinds == {"chain", "direct", "command", "deadlock"}

ASSUME LockConstants ==
  /\ \A l \in Layouts : l[1] \in LockKinds /\ l[2] \in Nat \ {0, 1} /\ l[3] \in Nat \ {0}
  /\ Layouts # {} /\ IsFiniteSet(Layouts)

VARIABLES engine,   \* where the scenario is and what it has kept
          server    \* what each session does there

lockVars == <<engine, server>>

-----------------------------------------------------------------------------
(* Who holds and wants what (configureLockDefinition).                        *)

LastSession == CHOOSE n \in {l[2] - 1 : l \in Layouts} : \A l \in Layouts : l[2] - 1 <= n
Sessions == 0..LastSession
Waiters == 1..(engine.layout[2] - 1)
Depth == engine.layout[3]
Kind == engine.layout[1]

Branch(w) == ((w - 1) \div Depth) + 1
RootRow(branch) == (branch - 1) * (Depth + 1) + 1

OwnRow(w) == RootRow(Branch(w)) + ((w - 1) % Depth) + 1

\* 501: a branch of rows, each waiter on the row of the one before it; 504: a
\* cycle of two; the others wait for the one object of the holder.
Setup(w) == CASE Kind = "chain" -> {OwnRow(w)}
              [] Kind = "deadlock" -> {2}
              [] OTHER -> {}
Wanted(w) == IF Kind = "chain" THEN OwnRow(w) - 1 ELSE 1

Blocker(w) == IF Kind = "chain" /\ (w - 1) % Depth > 0 THEN w - 1 ELSE 0
HolderLocks ==
  IF Kind = "chain" THEN {RootRow(Branch(w)) : w \in Waiters} ELSE {1}
ExpectedEdges ==
  {<<Blocker(w), w>> : w \in Waiters} \cup (IF Kind = "deadlock" THEN {<<1, 0>>} ELSE {})

-----------------------------------------------------------------------------
(* The server.                                                                *)

Closed == [open |-> FALSE, holds |-> {}, wants |-> 0, call |-> "none"]

LockInit ==
  /\ engine = [layout |-> <<"none", 1, 1>>, pc |-> "start", next |-> 1, ctx |-> "live",
               canceled |-> {}, errs |-> {}, edges |-> {}, victim |-> FALSE,
               verdict |-> "none"]
  /\ server = [s \in Sessions |-> Closed]

LockFree(r) == \A s \in Sessions : r \notin server[s].holds

\* call: "wait" while the goroutine of the session is in its statement.
Grant(s) ==
  /\ server[s].wants # 0
  /\ LockFree(server[s].wants)
  /\ server' = [server EXCEPT ![s].holds = @ \cup {server[s].wants}, ![s].wants = 0,
                              ![s].call = "none"]
  /\ UNCHANGED engine

WaitsFor(s, t) == server[s].wants # 0 /\ server[s].wants \in server[t].holds

\* Its transaction is aborted, and its locks are free.
Abort(s) == [server EXCEPT ![s].holds = {}, ![s].wants = 0, ![s].call = "none"]

\* The server ends one of two sessions that wait for each other.
DeadlockDetected(s) ==
  /\ \E t \in Sessions \ {s} : WaitsFor(s, t) /\ WaitsFor(t, s)
  /\ server' = Abort(s)
  /\ engine' = [engine EXCEPT !.errs = @ \cup {<<s, "deadlock">>}, !.victim = TRUE]

\* lock_timeout, a broken connection, a terminated session.
BlockedFails(s) ==
  /\ server[s].call = "wait" /\ engine.pc \in {"ramp", "observe", "hold"}
  /\ server' = Abort(s)
  /\ engine' = [engine EXCEPT !.errs = @ \cup {<<s, "error">>}]

\* The statement of a cancelled context returns.
StatementCanceled(s) ==
  /\ server[s].call = "wait" /\ s \in engine.canceled
  /\ server' = Abort(s)
  /\ engine' = [engine EXCEPT !.errs = @ \cup {<<s, "canceled">>}]

\* A transaction begun with a context that has ended is rolled back; the holder's
\* was begun in Prepare, under the command's own.
RolledBackByContext(s) ==
  /\ s \in engine.canceled /\ (s # 0 \/ engine.ctx = "canceled")
  /\ server[s].call = "none" /\ server[s].holds # {}
  /\ server' = Abort(s)
  /\ UNCHANGED engine

-----------------------------------------------------------------------------
(* Prepare and Ramp.                                                          *)

ChooseLayout(l) ==
  /\ engine.pc = "start"
  /\ engine' = [engine EXCEPT !.layout = l, !.pc = "prepare"]
  /\ UNCHANGED server

\* The holder's session, transaction and locks; a failure closes the session
\* and leaves it to Stop to close it again.
PrepareHolder ==
  /\ engine.pc = "prepare"
  /\ \/ /\ engine' = [engine EXCEPT !.pc = "ramp"]
        /\ server' = [server EXCEPT ![0].open = TRUE, ![0].holds = HolderLocks]
     \/ /\ engine' = [engine EXCEPT !.pc = "stop"]
        /\ UNCHANGED server

RampFails == engine' = [engine EXCEPT !.pc = "stop"]

\* One waiter after another: session, transaction, the statements of its setup.
OpenWaiter(w) ==
  /\ engine.pc = "ramp" /\ engine.next = w /\ w \in Waiters
  /\ ~server[w].open
  /\ \/ /\ server' = [server EXCEPT ![w].open = TRUE, ![w].holds = Setup(w)]
        /\ UNCHANGED engine
     \/ /\ \E open \in BOOLEAN : server' = [server EXCEPT ![w].open = open]
        /\ RampFails

Blocks(s, r) == [server EXCEPT ![s].wants = r, ![s].call = "wait"]

\* ... and the goroutine of its blocking statement.
StartWaiter(w) ==
  /\ engine.pc = "ramp" /\ engine.next = w
  /\ server[w].open /\ Kind # "deadlock"
  /\ server' = Blocks(w, Wanted(w))
  /\ engine' = [engine EXCEPT !.next = w + 1,
                              !.pc = IF w + 1 \in Waiters THEN @ ELSE "observe"]

\* 504: the waiter owns its row; the holder waits for it first, ...
StartHolder ==
  /\ engine.pc = "ramp" /\ Kind = "deadlock"
  /\ server[1].open /\ server[0].call = "none"
  /\ <<1, 0>> \notin engine.edges
  /\ server' = Blocks(0, 2)
  /\ UNCHANGED engine

\* ... that edge is seen, and then the waiter closes the cycle.
CloseCycle ==
  /\ engine.pc = "ramp" /\ Kind = "deadlock"
  /\ <<1, 0>> \in engine.edges
  /\ server' = Blocks(1, 1)
  /\ engine' = [engine EXCEPT !.next = 2, !.pc = "observe"]

-----------------------------------------------------------------------------
(* Evidence: edges of the server's wait graph, kept once they have been seen. *)

SeenEdges == {e \in ExpectedEdges : WaitsFor(e[2], e[1])}

Observe ==
  /\ \/ engine.pc = "observe"
     \/ engine.pc = "ramp" /\ Kind = "deadlock"
  /\ ~(SeenEdges \subseteq engine.edges)
  /\ engine' = [engine EXCEPT !.edges = @ \cup SeenEdges]
  /\ UNCHANGED server

AllSeen == ExpectedEdges \subseteq engine.edges
WaiterFailed == \E e \in engine.errs : e[1] # 0

\* captureExpectedEvidence: seen, a configured waiter failed, the time is over, the
\* context.
Captured ==
  /\ engine.pc = "observe" /\ Kind # "deadlock"
  /\ \/ /\ Kind = "command" \/ ~WaiterFailed
        /\ AllSeen /\ engine' = [engine EXCEPT !.pc = "hold"]
     \/ ~AllSeen /\ RampFails
     \/ WaiterFailed /\ Kind \in {"chain", "direct"} /\ RampFails
  /\ UNCHANGED server

EdgeNotSeen ==
  /\ engine.pc = "ramp" /\ server[0].call = "wait"
  /\ RampFails
  /\ UNCHANGED server

HoldLocks ==
  /\ engine.pc = "hold"
  /\ engine' = [engine EXCEPT !.pc = "verify"]
  /\ UNCHANGED server

VerifyLock ==
  /\ engine.pc = "verify"
  /\ engine' = [engine EXCEPT !.pc = "stop",
                              !.verdict = IF AllSeen THEN "SUCCESS" ELSE "FAILED"]
  /\ UNCHANGED server

DeadlockError == \E e \in engine.errs : e[2] = "deadlock"

\* verifyDeadlock: both edges and the server's own error, until its deadline.
VerifyDeadlock ==
  /\ engine.pc = "observe" /\ Kind = "deadlock"
  /\ engine' = [engine EXCEPT !.pc = "stop",
                  !.verdict = IF AllSeen /\ DeadlockError THEN "SUCCESS" ELSE "FAILED"]
  /\ UNCHANGED server

\* The duration (504 and the table locks) or the command's own context ends; in 504
\* the holder's statement, too, is under the duration's.
CancelLocks(all) ==
  /\ engine.ctx = "live" /\ engine.pc \in {"ramp", "observe", "hold"}
  /\ ~all => Kind \in {"command", "deadlock"}
  /\ engine' = [engine EXCEPT !.ctx = IF all THEN "canceled" ELSE "deadline",
                  !.canceled = IF all \/ Kind = "deadlock" THEN Sessions ELSE Sessions \ {0},
                  !.pc = IF @ = "hold" /\ ~all THEN "verify" ELSE "stop"]
  /\ UNCHANGED server

-----------------------------------------------------------------------------
(* Stop.                                                                      *)

Cancelled == Sessions \ {0}

\* Mutant: the holder goes first.
HolderFirst ==
  /\ engine.pc = "stop"
  /\ engine' = [engine EXCEPT !.pc = "join waiters", !.canceled = @ \cup Cancelled]
  /\ server' = [server EXCEPT ![0] = Closed]

\* cancelWaiter.
StopWaiters ==
  /\ engine.pc = "stop"
  /\ engine' = [engine EXCEPT !.pc = "join waiters", !.canceled = @ \cup Cancelled]
  /\ UNCHANGED server

WaitersJoined == \A w \in Sessions \ {0} : server[w].call = "none"

\* Configured waiters: rolled back and closed, last opened first.
ReleaseWaiters ==
  /\ engine.pc = "join waiters" /\ WaitersJoined
  /\ server' = [s \in Sessions |-> IF s = 0 THEN server[0] ELSE Closed]
  /\ engine' = [engine EXCEPT !.pc = "join holder", !.canceled = @ \cup {0}]

\* cancelHolder, its goroutine, its transaction, its session.
ReleaseHolder ==
  /\ engine.pc = "join holder"
  /\ server[0].call = "none"
  /\ server' = [server EXCEPT ![0] = Closed]
  /\ engine' = [engine EXCEPT !.pc = "end"]

Stopping == StopWaiters \/ ReleaseWaiters \/ ReleaseHolder

LockNext ==
  \/ \E l \in Layouts : ChooseLayout(l)
  \/ PrepareHolder \/ StartHolder \/ CloseCycle \/ Observe \/ Captured \/ EdgeNotSeen
  \/ HoldLocks \/ VerifyLock \/ VerifyDeadlock \/ Stopping
  \/ \E all \in BOOLEAN : CancelLocks(all)
  \/ \E s \in Sessions :
       \/ OpenWaiter(s) \/ StartWaiter(s)
       \/ Grant(s) \/ DeadlockDetected(s) \/ BlockedFails(s) \/ StatementCanceled(s)
       \/ RolledBackByContext(s)

\* The engine goes on; the server serves cancellations.
LocksGoOn ==
  \/ Stopping
  \/ PrepareHolder \/ StartHolder \/ CloseCycle \/ Captured
  \/ EdgeNotSeen \/ HoldLocks \/ VerifyLock \/ VerifyDeadlock
  \/ \E s \in Sessions : \/ OpenWaiter(s) \/ StartWaiter(s)
                         \/ Grant(s) \/ StatementCanceled(s)

LockFairness == WF_lockVars(LocksGoOn)

LockSpec == LockInit /\ [][LockNext]_lockVars /\ LockFairness

-----------------------------------------------------------------------------
(* Properties.                                                                *)

\* Types; no resource has two holders: the rows of a chain are distinct, so no
\* waiter is blocked before its turn.
LockTypeOK ==
  /\ engine.next \in 1..(LastSession + 1) /\ engine.canceled \subseteq Sessions
  /\ \A s, t \in Sessions : s # t => server[s].holds \cap server[t].holds = {}
  /\ \A s \in Sessions : server[s].call = "wait" <=> server[s].wants # 0

\* Until something fails, the waits on the server are those of the definition:
\* a session waits only for the one named, and while it does it has no lock.
OnlyExpectedWaits ==
  engine.errs = {} /\ engine.canceled = {} =>
    \A s, t \in Sessions :
      WaitsFor(s, t) => <<t, s>> \in ExpectedEdges /\ server[s].wants \notin server[s].holds

\* 504 succeeds only when the server has ended one of two sessions that waited
\* for each other.
DeadlockIsReal ==
  engine.verdict = "SUCCESS" /\ Kind = "deadlock" => engine.victim

\* The stop path keeps the blocker until nobody waits for it: while the run's
\* context lives and the server has not ended a deadlock, Stop never frees a lock
\* of the holder under a waiting session, whose statement would take effect.
BlockerOutlivesWaiters ==
  [][(\E w \in Sessions \ {0} : WaitsFor(w, 0)) /\ engine.ctx = "live"
     /\ engine.pc \in {"stop", "join waiters", "join holder"} /\ ~engine'.victim
     => server'[0].holds = server[0].holds]_lockVars

\* Stop waits for its goroutines without a timeout: it ends because it cancels
\* each before it waits for it.
LocksSettled ==
  engine.pc \in {"stop", "join waiters", "join holder", "end"}
  => engine.pc = "end" /\ \A s \in Sessions : server[s] = Closed

\* What a lock scenario promises: only the waits of its definition, a deadlock
\* only when the server has ended one, and a blocker that outlives its waiters.
LockSafety ==
  /\ [](LockTypeOK /\ OnlyExpectedWaits /\ DeadlockIsReal)
  /\ BlockerOutlivesWaiters
=============================================================================
