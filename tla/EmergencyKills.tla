--------------------------- MODULE EmergencyKills ---------------------------
(***************************************************************************)
(* What gstop's emergency scenarios terminate on the server                *)
(* (internal/emergency/thread_pool_full.go, connections_full.go,           *)
(* cpu_full.go, io_full.go, full_common.go, slow_sql.go, base.go).         *)
(*                                                                         *)
(* The analyses of one cycle work on rows read earlier, side by side, and  *)
(* send one statement after another while the server's sessions go on.     *)
(* With the terminate switches on, a full thread pool or connection table  *)
(* ends sessions by state, and SlowSQL ends the sessions of the rows it    *)
(* found slow.  Between cycles the operator may end sessions by state, by  *)
(* user or by SQL id; the kills by SQL id run an anonymous block on the    *)
(* server, which looks its threads up once and then ends one after the     *)
(* other by thread alone (internal/model/sql.go).  Sessions of the         *)
(* database "postgres", which no statement by state touches, are left out. *)
(*                                                                         *)
(* A session's state is what pg_stat_activity says, with "slow" for an     *)
(* active one whose statement is over the slow-SQL threshold, and it is    *)
(* old when its transaction has run for longer than the overtime           *)
(* threshold.  Sessions come one after another on a thread, each with an   *)
(* id of its own.                                                          *)
(***************************************************************************)
EXTENDS Integers, FiniteSets

CONSTANTS
    PoolThread,      \* the server's threads
    UserOf,          \* the user of each session, by session id
    FullScenario,    \* the scenarios that end sessions by state
    Whitelist,       \* FullScenario -> the users its statements spare
    ExcludedUser     \* emergency.slow_sql.exclude_users

\* A scenario is none of the other reasons for which sessions are ended.
ASSUME KillsAssumption ==
    /\ FullScenario \cap {"nothing", "slow", "user", "sql", "overtime"} = {}
    /\ 0 \notin DOMAIN UserOf
    /\ IsFiniteSet(PoolThread)

VARIABLES
    session,         \* what runs on each thread
    row,             \* the snapshot's row of each thread
    sweep,           \* FullScenario -> the statement it has to send next, or 0
    done,            \* FullScenario -> the statements of its sweep that ran
    slowLeft,        \* the threads whose row SlowSQL still has to inspect
    block,           \* the anonymous block that runs on the server
    kill,            \* what the newest statement was sent for
    opened,          \* the session ids given out
    settled          \* history: the threads nothing has changed on since the rows

killVars == <<session, row, sweep, done, slowLeft, block, kill, opened, settled>>

NoOne == [id |-> 0, state |-> "absent", old |-> FALSE]

RestState == <<"none", "idle", "idle in transaction">>

State == {RestState[i] : i \in 1..3} \cup {"active", "slow"}

InTransaction == {"idle in transaction", "active", "slow"}

NoBlock == [for |-> "nothing", left |-> 0, todo |-> {}, found |-> {}, known |-> {}]

KillsTypeOK ==
    /\ session \in [PoolThread -> [id : DOMAIN UserOf \cup {0},
                                   state : State \cup {"absent"}, old : BOOLEAN]]
    /\ row \in [PoolThread -> [id : DOMAIN UserOf \cup {0},
                               state : {"absent", "rest", "active", "slow"}]]
    /\ sweep \in [FullScenario -> 0..3]
    /\ done \in [FullScenario -> SUBSET (1..3)]
    /\ slowLeft \subseteq PoolThread
    /\ block.todo \subseteq PoolThread
    /\ block.known \subseteq opened
    /\ opened \subseteq DOMAIN UserOf
    /\ settled \subseteq PoolThread

KillsInit ==
    /\ session = [t \in PoolThread |-> NoOne]
    /\ row = [t \in PoolThread |-> [id |-> 0, state |-> "absent"]]
    /\ sweep = [f \in FullScenario |-> 0]
    /\ done = [f \in FullScenario |-> {}]
    /\ slowLeft = {}
    /\ block = NoBlock
    /\ kill = "nothing"
    /\ opened = {}
    /\ settled = {}

-----------------------------------------------------------------------------
(***************************************************************************)
(* The server                                                              *)
(***************************************************************************)
ServerStep(t) ==
    /\ kill' = "nothing"
    /\ settled' = settled \ {t}
    /\ UNCHANGED <<row, sweep, done, slowLeft, block>>

Opens(t, id) ==
    /\ session[t] = NoOne
    /\ id \notin opened
    /\ session' = [session EXCEPT ![t] = [id |-> id, state |-> "none", old |-> FALSE]]
    /\ opened' = opened \cup {id}
    /\ ServerStep(t)

\* A statement starts or ends, or has run for too long, and with it perhaps its
\* transaction ends.
Changes(t, state) ==
    /\ session[t] # NoOne
    /\ state = "slow" => session[t].state = "active"
    /\ session' = [session EXCEPT ![t] = [id |-> @.id, state |-> state,
                                          old |-> @.old /\ state \in InTransaction]]
    /\ ServerStep(t)
    /\ UNCHANGED opened

\* The transaction has run for too long, whatever its statement does.
Ages(t) ==
    /\ session[t].state \in InTransaction
    /\ ~session[t].old
    /\ session' = [session EXCEPT ![t] = [id |-> @.id, state |-> @.state, old |-> TRUE]]
    /\ ServerStep(t)
    /\ UNCHANGED opened

Closes(t) ==
    /\ session[t] # NoOne
    /\ session' = [session EXCEPT ![t] = NoOne]
    /\ ServerStep(t)
    /\ UNCHANGED opened

\* A statement of gstop ends the sessions of these threads.
Ends(for, threads) ==
    /\ session' = [t \in PoolThread |-> IF t \in threads THEN NoOne ELSE session[t]]
    /\ kill' = for
    /\ UNCHANGED <<opened, settled>>

-----------------------------------------------------------------------------
(***************************************************************************)
(* A cycle: the rows, then the analyses                                    *)
(***************************************************************************)
\* analysisMu is free: neither an analysis nor a block is running.
MuIsFree ==
    /\ \A f \in FullScenario : sweep[f] = 0
    /\ slowLeft = {}
    /\ block = NoBlock

\* The rows reach the scenarios; a scenario fires or not, as its cell says, and
\* sends statements only with both terminate switches on.
Cycle ==
    /\ MuIsFree
    /\ row' = [t \in PoolThread |->
                  [id |-> session[t].id,
                   state |-> IF session[t].state \in {"absent", "active", "slow"}
                             THEN session[t].state ELSE "rest"]]
    /\ \E firing \in SUBSET FullScenario :
          sweep' = [f \in FullScenario |-> IF f \in firing THEN 1 ELSE 0]
    /\ done' = [f \in FullScenario |-> {}]
    /\ slowLeft' = PoolThread
    /\ settled' = PoolThread
    /\ kill' = "nothing"
    /\ UNCHANGED <<session, block, opened>>

\* Mutant: the sessions are those whose rows were at rest.
HitByRow(state, spared, t) ==
    /\ row[t].id = session[t].id
    /\ row[t].state = "rest"
    /\ UserOf[session[t].id] \notin spared

\* terminateStateSessions: the state is looked up by the statement itself.
HitByState(state, spared, t) ==
    /\ session[t].state = state
    /\ UserOf[session[t].id] \notin spared

\* autoTerminate sends one statement per state, in this order, also when one
\* fails.
SendsNext(f, ran) ==
    /\ sweep[f] # 0
    /\ sweep' = [sweep EXCEPT ![f] = (@ + 1) % 4]
    /\ done' = [done EXCEPT ![f] = IF sweep[f] = 3 THEN {} ELSE @ \cup ran]
    /\ UNCHANGED <<row, slowLeft, block>>

Sweeps(f) ==
    /\ SendsNext(f, {sweep[f]})
    /\ Ends(f, {t \in PoolThread : HitByState(RestState[sweep[f]], Whitelist[f], t)})

SweepFails(f) ==
    /\ SendsNext(f, {})
    /\ Ends("nothing", {})

\* terminateSession: pg_terminate_session(pid, sessionid).
HitByRowId(t, u) ==
    /\ u = t
    /\ session[u].id = row[t].id

\* inspectSession and report.
InspectsSlow(t) ==
    /\ t \in slowLeft
    /\ IF row[t].state = "slow" /\ UserOf[row[t].id] \notin ExcludedUser
       THEN Ends("slow", {u \in PoolThread : HitByRowId(t, u)})
       ELSE Ends("nothing", {})
    /\ slowLeft' = slowLeft \ {t}
    /\ UNCHANGED <<row, sweep, done, block>>

-----------------------------------------------------------------------------
(***************************************************************************)
(* The operator, who holds analysisMu: no analysis is running.  The menus  *)
(* name a state, a user, or the SQL id on the selected line.               *)
(***************************************************************************)
Operator ==
    /\ MuIsFree
    /\ UNCHANGED <<row, sweep, done, slowLeft>>

\* [1] [2] [3] of ThreadPoolFull
EndsByState(f, state) ==
    /\ Operator
    /\ UNCHANGED block
    /\ Ends(f, {t \in PoolThread : HitByState(state, Whitelist[f], t)})

\* [1] [2] [3] of ConnectionsFull: the selected user's, whitelisted or not
EndsByUser(user, state) ==
    /\ Operator
    /\ UNCHANGED block
    /\ Ends("user", {t \in PoolThread : /\ session[t].state = state
                                         /\ UserOf[session[t].id] = user})

\* [4] of ConnectionsFull: at most n of the selected user's, in one statement
EndsTopOfUser(user, n) ==
    /\ Operator
    /\ UNCHANGED block
    /\ \E picked \in SUBSET {t \in PoolThread : /\ session[t].state \in {"active", "slow"}
                                               /\ UserOf[session[t].id] = user} :
          Cardinality(picked) <= n /\ Ends("user", picked)

\* What a block looks for: the sessions of the SQL id, and with a time only those
\* that are active in a transaction over the threshold.
Qualifies(for, t) ==
    /\ session[t] # NoOne
    /\ for = "overtime" => session[t].state \in {"active", "slow"} /\ session[t].old

\* The block's query: [4] of ThreadPoolFull and k of PlanChange without a time,
\* [1] and [2] of handleFullCommand with one.  It finds those of the qualifying
\* threads that run the selected SQL id.
BlockOpens(for, n) ==
    /\ Operator
    /\ \E threads \in SUBSET {t \in PoolThread : Qualifies(for, t)} \ {{}} :
          block' = [for |-> for, left |-> n, todo |-> threads,
                    found |-> {session[t].id : t \in threads}, known |-> opened]
    /\ Ends("nothing", {})

\* The block is through with a thread, which counts or not; it exits at its limit.
Past(t, counted) ==
    /\ t \in block.todo
    /\ block' = IF block.todo = {t} \/ block.left - counted = 0 THEN NoBlock
                ELSE [block EXCEPT !.todo = @ \ {t}, !.left = @ - counted]
    /\ UNCHANGED <<row, sweep, done, slowLeft>>

\* pg_terminate_backend(pid), whoever is on the thread by now, if anyone.
BlockEnds(t) ==
    /\ Past(t, 1)
    /\ Ends(block.for, {t})

\* WHEN OTHERS
BlockSkips(t) ==
    /\ Past(t, 0)
    /\ Ends("nothing", {})

KillsNext ==
    \/ \E t \in PoolThread :
          \/ \E id \in DOMAIN UserOf : Opens(t, id)
          \/ \E state \in State : Changes(t, state)
          \/ Ages(t)
          \/ Closes(t)
          \/ InspectsSlow(t)
          \/ BlockEnds(t)
          \/ BlockSkips(t)
    \/ Cycle
    \/ \E f \in FullScenario :
          \/ Sweeps(f)
          \/ SweepFails(f)
          \/ \E i \in 1..3 : EndsByState(f, RestState[i])
    \/ \E id \in DOMAIN UserOf, i \in 1..3 : EndsByUser(UserOf[id], RestState[i])
    \/ \E id \in DOMAIN UserOf : EndsTopOfUser(UserOf[id], 1)
    \/ \E for \in {"sql", "overtime"}, n \in {1, Cardinality(PoolThread) + 1} : BlockOpens(for, n)

KillsSpec == KillsInit /\ [][KillsNext]_killVars

-----------------------------------------------------------------------------
(***************************************************************************)
(* Properties                                                              *)
(***************************************************************************)
Hit(t) == session[t] # NoOne /\ session'[t] # session[t]

\* Statements by state never end a session of a user the scenario spares, nor
\* one that is at work when they run, although it was at rest in the rows that
\* made the scenario fire.
SweepSpares ==
    [][ kill' \in FullScenario =>
           \A t \in PoolThread :
              Hit(t) => /\ session[t].state \notin {"active", "slow"}
                        /\ UserOf[session[t].id] \notin Whitelist[kill'] ]_killVars

\* When a sweep is over, no session is left that has rested in one state since the
\* rows were read, but those of spared users and those whose statement failed: the
\* other scenario, SlowSQL and the server's sessions step in between.
SweepIsThorough ==
    [][ \A f \in FullScenario :
           (sweep[f] # 0 /\ sweep'[f] = 0) =>
              \A i \in done[f] \cup (IF kill' = f THEN {3} ELSE {}), t \in settled :
                 session'[t].state = RestState[i] =>
                    UserOf[session'[t].id] \in Whitelist[f] ]_killVars

\* SlowSQL ends a session only if that very session was slow in the rows, never
\* the one that has taken its thread since, nor one of an excluded user.
SlowKillsWhatItSaw ==
    [][ kill' = "slow" =>
           \A t \in PoolThread :
              Hit(t) => /\ row[t] = [id |-> session[t].id, state |-> "slow"]
                        /\ UserOf[session[t].id] \notin ExcludedUser ]_killVars

\* Of the sessions there were when a block looked its threads up, it ends only
\* those that qualified then, on one thread after the other and on none twice.  It
\* may end a session that came to such a thread later.
BlockEndsWhatItFound ==
    [][ kill' \in {"sql", "overtime"} =>
           \A t \in PoolThread :
              Hit(t) => /\ t \in block.todo /\ t \notin block'.todo
                        /\ session[t].id \in block.known => session[t].id \in block.found ]_killVars

\* What the emergency kills spare, and what they do not leave behind.
KillsSafety ==
  /\ [](KillsTypeOK)
  /\ SweepSpares
  /\ SweepIsThorough
  /\ SlowKillsWhatItSaw
  /\ BlockEndsWhatItFound
=============================================================================
