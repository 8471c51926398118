-------------------------- MODULE EmergencyProofs ---------------------------
(* Proofs about gstop's emergencies, its log and its alarms.  A detector     *)
(* looks at the samples of its window, the blocking analysis finds every     *)
(* deadlock once, a regression of a plan stays found, the panel and the keys *)
(* act on what was shown, the kills spare whom they must, the data log loses *)
(* no row unnoticed, and the alarms report a breach that lasts.  Each result *)
(* rests on an inductive invariant.                                          *)
EXTENDS EmergencyKills, DetectionWindows, BlockAnalysis, SelectionView,
        EmergencyPanel, DataLogFiles, AlarmPolicy, PlanChange,
        SequenceTheorems, FiniteSetTheorems, WellFoundedInduction, TLAPS

-----------------------------------------------------------------------------
(* The sessions gstop ends (EmergencyKills).                                 *)

RestStates == {RestState[i] : i \in 1 .. 3}

ServerSessions == [id : DOMAIN UserOf \cup {0}, state : State \cup {"absent"}, old : BOOLEAN]

SessionRows == [id : DOMAIN UserOf \cup {0}, state : {"absent", "rest", "active", "slow"}]

Blocks == [for : {"nothing", "sql", "overtime"}, left : Int, todo : SUBSET PoolThread,
           found : SUBSET (DOMAIN UserOf \cup {0}), known : SUBSET DOMAIN UserOf]

\* A session of a block's threads that is older than the block is one it found.
FoundInv ==
  \A t \in block.todo : session[t].id \in block.known => session[t].id \in block.found

\* What a statement by state has left untouched is a spared user's.
LeftInv ==
  \A f \in FullScenario, i \in 1 .. 3, t \in PoolThread :
    (i \in done[f] /\ t \in settled /\ session[t].state = RestState[i])
      => UserOf[session[t].id] \in Whitelist[f]

KillsInv == KillsTypeOK /\ block \in Blocks /\ FoundInv /\ LeftInv

\* What the steps may end, one property each, and what a sweep leaves.
SparesByState ==
  kill' \in FullScenario =>
    \A t \in PoolThread :
      Hit(t) => /\ session[t].state \notin {"active", "slow"}
                /\ UserOf[session[t].id] \notin Whitelist[kill']

LeavesTheSpared ==
  \A f \in FullScenario :
    (sweep[f] # 0 /\ sweep'[f] = 0) =>
      \A i \in done[f] \cup (IF kill' = f THEN {3} ELSE {}), t \in settled :
        session'[t].state = RestState[i] => UserOf[session'[t].id] \in Whitelist[f]

EndsTheSlow ==
  kill' = "slow" =>
    \A t \in PoolThread :
      Hit(t) => /\ row[t] = [id |-> session[t].id, state |-> "slow"]
                /\ UserOf[session[t].id] \notin ExcludedUser

EndsTheFound ==
  kill' \in {"sql", "overtime"} =>
    \A t \in PoolThread :
      Hit(t) => /\ t \in block.todo /\ t \notin block'.todo
                /\ session[t].id \in block.known => session[t].id \in block.found

Spares == SparesByState /\ LeavesTheSpared /\ EndsTheSlow /\ EndsTheFound

\* The sessions stay, or are gone.
Shrinks ==
  /\ session' \in [PoolThread -> ServerSessions]
  /\ \A t \in PoolThread : session'[t] = session[t] \/ session'[t] = NoOne
  /\ opened' = opened /\ settled' = settled

\* A session at rest is in one of the three states the statements by state name.
LEMMA RestIsRest ==
  /\ RestStates = {"none", "idle", "idle in transaction"}
  /\ State = RestStates \cup {"active", "slow"}
  /\ \A s \in RestStates : s \notin {"active", "slow", "absent"}
<1>1. RestState[1] = "none" /\ RestState[2] = "idle" /\ RestState[3] = "idle in transaction"
  BY DEF RestState
<1>2. 1 .. 3 = {1, 2, 3}
  OBVIOUS
<1>3. RestStates = {"none", "idle", "idle in transaction"}
  BY <1>1, <1>2 DEF RestStates
<1> QED  BY <1>3 DEF State, RestStates

LEMMA NoOneIsASession ==
  /\ NoOne \in ServerSessions /\ NoOne.id = 0
  /\ \A i \in 1 .. 3 : NoOne.state # RestState[i]
<1>1. NoOne = [id |-> 0, state |-> "absent", old |-> FALSE]
  BY DEF NoOne
<1>2. NoOne \in ServerSessions
  BY <1>1 DEF ServerSessions
<1>3. \A i \in 1 .. 3 : RestState[i] # "absent"
  BY RestIsRest DEF RestStates
<1> QED  BY <1>1, <1>2, <1>3

LEMMA NoBlockIsABlock == NoBlock \in Blocks /\ NoBlock.todo = {} /\ NoBlock.known = {}
  BY DEF NoBlock, Blocks

\* Nobody is connected at the start, and no statement runs.
LEMMA KillsInvInit ==
  ASSUME KillsInit
  PROVE  KillsInv
<1>1. session \in [PoolThread -> ServerSessions]
  BY NoOneIsASession DEF KillsInit
<1>2. row \in [PoolThread -> SessionRows]
  BY DEF KillsInit, SessionRows
<1>3. sweep \in [FullScenario -> 0 .. 3] /\ done \in [FullScenario -> SUBSET (1 .. 3)]
  BY DEF KillsInit
<1>4. block = NoBlock /\ slowLeft = {} /\ opened = {} /\ settled = {}
  BY DEF KillsInit
<1> QED
  BY <1>1, <1>2, <1>3, <1>4, NoBlockIsABlock
     DEF KillsInv, KillsTypeOK, ServerSessions, SessionRows, FoundInv, LeftInv

\* Ending the sessions of some threads leaves the others alone.
LEMMA EndsShrinks ==
  ASSUME KillsInv, NEW for, NEW threads, Ends(for, threads)
  PROVE  /\ Shrinks /\ kill' = for
         /\ \A t \in PoolThread : Hit(t) => t \in threads
         /\ \A t \in PoolThread : t \in threads => session'[t] = NoOne
<1>1. session' = [t \in PoolThread |-> IF t \in threads THEN NoOne ELSE session[t]]
      /\ opened' = opened /\ settled' = settled /\ kill' = for
  BY DEF Ends
<1>2. session \in [PoolThread -> ServerSessions]
  BY DEF KillsInv, KillsTypeOK, ServerSessions
<1> QED  BY <1>1, <1>2, NoOneIsASession DEF Shrinks, Hit

\* When sessions only end, what a block found and what a sweep left stay right.
LEMMA ShrinkingKeeps ==
  ASSUME KillsInv, Shrinks
  PROVE  /\ \A t \in PoolThread :
              /\ session'[t].id \in block.known => session'[t].id = session[t].id
              /\ \A i \in 1 .. 3 : session'[t].state = RestState[i] => session'[t] = session[t]
<1> SUFFICES ASSUME NEW t \in PoolThread
             PROVE  /\ session'[t].id \in block.known => session'[t].id = session[t].id
                    /\ \A i \in 1 .. 3 : session'[t].state = RestState[i] => session'[t] = session[t]
  OBVIOUS
<1>1. 0 \notin block.known
  BY KillsAssumption DEF KillsInv, KillsTypeOK
<1>2. session'[t] = session[t] \/ session'[t] = NoOne
  BY DEF Shrinks
<1> QED  BY <1>1, <1>2, NoOneIsASession

\* The invariant of a step that ends sessions and leaves block and sweeps alone.
LEMMA ShrinkingKeepsInv ==
  ASSUME KillsInv, Shrinks, UNCHANGED <<row, sweep, done, block>>, slowLeft' \subseteq PoolThread
  PROVE  KillsInv' /\ LeavesTheSpared
<1>1. KillsTypeOK'
  <2>1. session' \in [PoolThread -> [id : DOMAIN UserOf \cup {0},
                                     state : State \cup {"absent"}, old : BOOLEAN]]
    BY DEF Shrinks, ServerSessions
  <2> QED  BY <2>1 DEF KillsInv, KillsTypeOK, Shrinks
<1>2. block' \in Blocks
  BY DEF KillsInv
<1>3. FoundInv'
  <2>1. \A t \in block.todo : t \in PoolThread
    BY DEF KillsInv, KillsTypeOK
  <2> QED  BY <2>1, ShrinkingKeeps DEF KillsInv, FoundInv
<1>4. LeftInv'
  BY ShrinkingKeeps DEF KillsInv, LeftInv, Shrinks
<1> QED  BY <1>1, <1>2, <1>3, <1>4 DEF KillsInv, LeavesTheSpared

\* The server's sessions come, change and go; gstop ends none of them.
LEMMA ServerKeeps ==
  ASSUME KillsInv, NEW t \in PoolThread,
         \/ \E id \in DOMAIN UserOf : Opens(t, id)
         \/ \E state \in State : Changes(t, state)
         \/ Ages(t)
         \/ Closes(t)
  PROVE  KillsInv' /\ kill' = "nothing" /\ sweep' = sweep
<1>1. session \in [PoolThread -> ServerSessions]
  BY DEF KillsInv, KillsTypeOK, ServerSessions
<1>2. UNCHANGED <<row, sweep, done, slowLeft, block>> /\ kill' = "nothing" /\ settled' = settled \ {t}
  BY DEF Opens, Changes, Ages, Closes, ServerStep
<1>3. PICK s \in ServerSessions :
        /\ session' = [session EXCEPT ![t] = s]
        /\ opened' \subseteq DOMAIN UserOf /\ opened \subseteq opened'
        /\ s.id = session[t].id \/ s.id \notin block.known
  <2> DEFINE Goal(s) == /\ session' = [session EXCEPT ![t] = s]
                        /\ opened' \subseteq DOMAIN UserOf /\ opened \subseteq opened'
                        /\ s.id = session[t].id \/ s.id \notin block.known
  <2>0. opened \subseteq DOMAIN UserOf /\ block.known \subseteq opened /\ 0 \notin DOMAIN UserOf
    BY KillsAssumption DEF KillsInv, KillsTypeOK
  <2>5. PICK i \in DOMAIN UserOf \cup {0}, a \in State \cup {"absent"}, o \in BOOLEAN :
          session[t] = [id |-> i, state |-> a, old |-> o]
    BY <1>1 DEF ServerSessions
  <2>1. ASSUME NEW id \in DOMAIN UserOf, Opens(t, id)
        PROVE  \E s \in ServerSessions : Goal(s)
    <3>1. PICK s : s = [id |-> id, state |-> "none", old |-> FALSE]
      OBVIOUS
    <3>2. s \in ServerSessions /\ s.id = id
      BY <3>1, RestIsRest DEF ServerSessions
    <3>3. session' = [session EXCEPT ![t] = s] /\ opened' = opened \cup {id} /\ id \notin opened
      BY <2>1, <3>1 DEF Opens
    <3> QED  BY <2>0, <3>2, <3>3
  <2>2. ASSUME NEW state \in State, Changes(t, state)
        PROVE  \E s \in ServerSessions : Goal(s)
    <3>1. PICK s : s = [id |-> i, state |-> state, old |-> (o /\ state \in InTransaction)]
      OBVIOUS
    <3>2. s \in ServerSessions /\ s.id = session[t].id
      BY <2>5, <3>1 DEF ServerSessions
    <3>3. session' = [session EXCEPT ![t] = [id |-> session[t].id, state |-> state,
                                             old |-> session[t].old /\ state \in InTransaction]]
          /\ opened' = opened
      BY <2>2 DEF Changes
    <3>4. s = [id |-> session[t].id, state |-> state, old |-> session[t].old /\ state \in InTransaction]
      BY <2>5, <3>1
    <3>5. session' = [session EXCEPT ![t] = s]
      BY <3>3, <3>4
    <3> QED  BY <2>0, <3>2, <3>3, <3>5
  <2>3. CASE Ages(t)
    <3>1. PICK s : s = [id |-> i, state |-> a, old |-> TRUE]
      OBVIOUS
    <3>2. s \in ServerSessions /\ s.id = session[t].id
      BY <2>5, <3>1 DEF ServerSessions
    <3>3. session' = [session EXCEPT ![t] = [id |-> session[t].id, state |-> session[t].state, old |-> TRUE]]
          /\ opened' = opened
      BY <2>3 DEF Ages
    <3>5. s = [id |-> session[t].id, state |-> session[t].state, old |-> TRUE]
      BY <2>5, <3>1
    <3>4. session' = [session EXCEPT ![t] = s]
      BY <3>3, <3>5
    <3> QED  BY <2>0, <3>2, <3>3, <3>4
  <2>4. CASE Closes(t)
    <3>1. session' = [session EXCEPT ![t] = NoOne] /\ opened' = opened
      BY <2>4 DEF Closes
    <3> QED  BY <2>0, <3>1, NoOneIsASession
  <2> QED  BY <2>1, <2>2, <2>3, <2>4
<1>4. session' \in [PoolThread -> ServerSessions]
      /\ \A u \in PoolThread : u # t => session'[u] = session[u]
      /\ session'[t] = s
  BY <1>1, <1>3
<1>5. KillsTypeOK'
  <2>1. session' \in [PoolThread -> [id : DOMAIN UserOf \cup {0},
                                     state : State \cup {"absent"}, old : BOOLEAN]]
    BY <1>4 DEF ServerSessions
  <2> QED  BY <1>2, <1>3, <2>1 DEF KillsInv, KillsTypeOK
<1>6. FoundInv'
  <2>1. \A u \in block.todo : u \in PoolThread
    BY DEF KillsInv, KillsTypeOK
  <2> QED  BY <1>2, <1>3, <1>4, <2>1 DEF KillsInv, FoundInv
<1>7. LeftInv'
  BY <1>2, <1>4 DEF KillsInv, LeftInv
<1> QED  BY <1>2, <1>5, <1>6, <1>7 DEF KillsInv

\* A cycle takes the rows of the sessions as they are, and every sweep begins.
LEMMA CycleKeeps ==
  ASSUME KillsInv, Cycle
  PROVE  KillsInv' /\ kill' = "nothing" /\ session' = session
         /\ \A f \in FullScenario : sweep[f] = 0
<1>1. session \in [PoolThread -> ServerSessions]
  BY DEF KillsInv, KillsTypeOK, ServerSessions
<1>2. row' \in [PoolThread -> SessionRows]
  <2>1. ASSUME NEW t \in PoolThread
        PROVE  [id |-> session[t].id,
                state |-> IF session[t].state \in {"absent", "active", "slow"}
                          THEN session[t].state ELSE "rest"] \in SessionRows
    <3>1. session[t].id \in DOMAIN UserOf \cup {0}
      BY <1>1 DEF ServerSessions
    <3> QED  BY <3>1 DEF SessionRows
  <2> QED  BY <2>1 DEF Cycle
<1>3. sweep' \in [FullScenario -> 0 .. 3] /\ done' = [f \in FullScenario |-> {}]
  BY DEF Cycle
<1>4. UNCHANGED <<session, opened, block>> /\ slowLeft' = PoolThread /\ settled' = PoolThread
      /\ kill' = "nothing" /\ block = NoBlock /\ \A f \in FullScenario : sweep[f] = 0
  BY DEF Cycle, MuIsFree
<1>5. KillsTypeOK'
  BY <1>2, <1>3, <1>4 DEF KillsInv, KillsTypeOK, SessionRows
<1>6. FoundInv' /\ LeftInv' /\ block' \in Blocks
  BY <1>3, <1>4, NoBlockIsABlock DEF FoundInv, LeftInv, KillsInv
<1> QED  BY <1>4, <1>5, <1>6 DEF KillsInv

\* The next statement of one sweep: the others go on where they were.
LEMMA SendingMovesOn ==
  ASSUME KillsInv, NEW f \in FullScenario, NEW ran \in SUBSET (1 .. 3), SendsNext(f, ran)
  PROVE  /\ sweep[f] \in 1 .. 3 /\ (sweep'[f] = 0 <=> sweep[f] = 3)
         /\ sweep' \in [FullScenario -> 0 .. 3] /\ done' \in [FullScenario -> SUBSET (1 .. 3)]
         /\ \A g \in FullScenario : g # f => sweep'[g] = sweep[g] /\ done'[g] = done[g]
         /\ done'[f] \subseteq done[f] \cup ran
         /\ UNCHANGED <<row, slowLeft, block>>
<1>1. sweep \in [FullScenario -> 0 .. 3] /\ done \in [FullScenario -> SUBSET (1 .. 3)]
  BY DEF KillsInv, KillsTypeOK
<1>2. sweep[f] \in 1 .. 3
  BY <1>1 DEF SendsNext
<1>3. PICK n \in 0 .. 3 : n = (sweep[f] + 1) % 4 /\ (n = 0 <=> sweep[f] = 3)
  BY <1>2
<1>4. sweep' = [sweep EXCEPT ![f] = n]
  BY <1>3 DEF SendsNext
<1>5. PICK d \in SUBSET (1 .. 3) : done' = [done EXCEPT ![f] = d] /\ d \subseteq done[f] \cup ran
  <2>1. PICK d : d = (IF sweep[f] = 3 THEN {} ELSE done[f] \cup ran)
    OBVIOUS
  <2>2. d \in SUBSET (1 .. 3) /\ d \subseteq done[f] \cup ran
    BY <1>1, <2>1
  <2> QED  BY <2>1, <2>2 DEF SendsNext
<1>6. /\ sweep' \in [FullScenario -> 0 .. 3] /\ done' \in [FullScenario -> SUBSET (1 .. 3)]
      /\ \A g \in FullScenario : g # f => sweep'[g] = sweep[g] /\ done'[g] = done[g]
      /\ sweep'[f] = n /\ done'[f] = d
  BY <1>1, <1>4, <1>5
<1>7. UNCHANGED <<row, slowLeft, block>>
  BY DEF SendsNext
<1> QED  BY <1>2, <1>3, <1>5, <1>6, <1>7

\* A sweep's statement that runs leaves only the spared at rest in its state.
LEMMA SweepsSpares ==
  ASSUME KillsInv, NEW f \in FullScenario, Sweeps(f)
  PROVE  KillsInv' /\ Spares
<1>0. sweep[f] \in 1 .. 3
  BY DEF Sweeps, SendsNext, KillsInv, KillsTypeOK
<1>1. PICK i \in 1 .. 3 : i = sweep[f]
  BY <1>0
<1> DEFINE threads == {t \in PoolThread : HitByState(RestState[i], Whitelist[f], t)}
<1>2. Ends(f, threads) /\ SendsNext(f, {i})
  BY <1>1 DEF Sweeps
<1>3. /\ Shrinks /\ kill' = f
      /\ \A t \in PoolThread : Hit(t) => t \in threads
      /\ \A t \in PoolThread : t \in threads => session'[t] = NoOne
  BY <1>2, EndsShrinks
<1> HIDE DEF threads
<1>4. /\ sweep'[f] = 0 <=> i = 3
      /\ sweep' \in [FullScenario -> 0 .. 3] /\ done' \in [FullScenario -> SUBSET (1 .. 3)]
      /\ \A g \in FullScenario : g # f => sweep'[g] = sweep[g] /\ done'[g] = done[g]
      /\ done'[f] \subseteq done[f] \cup {i}
      /\ UNCHANGED <<row, slowLeft, block>>
  BY <1>1, <1>2, SendingMovesOn
<1>5. \A t \in PoolThread : session'[t].state = RestState[i] => UserOf[session'[t].id] \in Whitelist[f]
  <2>1. ASSUME NEW t \in PoolThread, session'[t].state = RestState[i]
        PROVE  UserOf[session'[t].id] \in Whitelist[f]
    <3>1. session'[t] = session[t]
      BY <1>3, <2>1, ShrinkingKeeps
    <3>2. t \notin threads
      BY <1>3, <2>1, NoOneIsASession
    <3> QED  BY <2>1, <3>1, <3>2 DEF threads, HitByState
  <2> QED  BY <2>1
<1>6. \A t \in PoolThread, g \in FullScenario, j \in 1 .. 3 :
        (j \in done[g] /\ t \in settled /\ session'[t].state = RestState[j])
          => UserOf[session'[t].id] \in Whitelist[g]
  BY <1>3, ShrinkingKeeps DEF KillsInv, LeftInv
<1>7. KillsTypeOK'
  <2>1. session' \in [PoolThread -> [id : DOMAIN UserOf \cup {0},
                                     state : State \cup {"absent"}, old : BOOLEAN]]
    BY <1>3 DEF Shrinks, ServerSessions
  <2> QED  BY <1>3, <1>4, <2>1 DEF KillsInv, KillsTypeOK, Shrinks
<1>8. FoundInv' /\ block' \in Blocks
  <2>1. \A t \in block.todo : t \in PoolThread
    BY DEF KillsInv, KillsTypeOK
  <2> QED  BY <1>3, <1>4, <2>1, ShrinkingKeeps DEF KillsInv, FoundInv
<1>9. LeftInv'
  <2> SUFFICES ASSUME NEW g \in FullScenario, NEW j \in 1 .. 3, NEW t \in PoolThread,
                      j \in done'[g], t \in settled', session'[t].state = RestState[j]
               PROVE  UserOf[session'[t].id] \in Whitelist[g]
    BY DEF LeftInv
  <2>1. t \in settled
    BY <1>3 DEF Shrinks
  <2>2. CASE j \in done[g]
    BY <1>6, <2>1, <2>2
  <2>3. CASE j \notin done[g]
    <3>1. g = f /\ j = i
      BY <1>4, <2>3
    <3> QED  BY <1>5, <3>1
  <2> QED  BY <2>2, <2>3
<1>10. SparesByState
  <2>1. RestState[i] \notin {"active", "slow"}
    BY RestIsRest DEF RestStates
  <2> QED  BY <1>3, <2>1 DEF SparesByState, threads, HitByState
<1>11. LeavesTheSpared
  <2> SUFFICES ASSUME NEW g \in FullScenario, sweep[g] # 0, sweep'[g] = 0,
                      NEW j \in done[g] \cup (IF kill' = g THEN {3} ELSE {}), NEW t \in settled,
                      session'[t].state = RestState[j]
               PROVE  UserOf[session'[t].id] \in Whitelist[g]
    BY DEF LeavesTheSpared
  <2>1. g = f /\ i = 3 /\ t \in PoolThread
    BY <1>4 DEF KillsInv, KillsTypeOK
  <2>2. CASE j \in done[g]
    <3>1. j \in 1 .. 3
      BY <2>2 DEF KillsInv, KillsTypeOK
    <3> QED  BY <1>6, <2>1, <2>2, <3>1
  <2>3. CASE j \notin done[g]
    BY <1>5, <2>1, <2>3
  <2> QED  BY <2>2, <2>3
<1>12. EndsTheSlow /\ EndsTheFound
  BY <1>3, KillsAssumption DEF EndsTheSlow, EndsTheFound
<1> QED  BY <1>7, <1>8, <1>9, <1>10, <1>11, <1>12 DEF KillsInv, Spares

\* A sweep's statement that fails ends nothing, and is not counted as run.
LEMMA SweepFailsSpares ==
  ASSUME KillsInv, NEW f \in FullScenario, SweepFails(f)
  PROVE  KillsInv' /\ Spares
<1>1. Ends("nothing", {}) /\ SendsNext(f, {})
  BY DEF SweepFails
<1>2. /\ Shrinks /\ kill' = "nothing"
  BY <1>1, EndsShrinks
<1>3. /\ sweep' \in [FullScenario -> 0 .. 3] /\ done' \in [FullScenario -> SUBSET (1 .. 3)]
      /\ \A g \in FullScenario : g # f => sweep'[g] = sweep[g] /\ done'[g] = done[g]
      /\ done'[f] \subseteq done[f]
      /\ UNCHANGED <<row, slowLeft, block>>
  <2>1. {} \in SUBSET (1 .. 3)
    OBVIOUS
  <2> QED  BY <1>1, <2>1, SendingMovesOn
<1>4. \A t \in PoolThread, g \in FullScenario, j \in 1 .. 3 :
        (j \in done[g] /\ t \in settled /\ session'[t].state = RestState[j])
          => UserOf[session'[t].id] \in Whitelist[g]
  BY <1>2, ShrinkingKeeps DEF KillsInv, LeftInv
<1>5. KillsTypeOK'
  <2>1. session' \in [PoolThread -> [id : DOMAIN UserOf \cup {0},
                                     state : State \cup {"absent"}, old : BOOLEAN]]
    BY <1>2 DEF Shrinks, ServerSessions
  <2> QED  BY <1>2, <1>3, <2>1 DEF KillsInv, KillsTypeOK, Shrinks
<1>6. FoundInv' /\ block' \in Blocks
  <2>1. \A t \in block.todo : t \in PoolThread
    BY DEF KillsInv, KillsTypeOK
  <2> QED  BY <1>2, <1>3, <2>1, ShrinkingKeeps DEF KillsInv, FoundInv
<1>7. LeftInv'
  <2> SUFFICES ASSUME NEW g \in FullScenario, NEW j \in 1 .. 3, NEW t \in PoolThread,
                      j \in done'[g], t \in settled', session'[t].state = RestState[j]
               PROVE  UserOf[session'[t].id] \in Whitelist[g]
    BY DEF LeftInv
  <2>1. t \in settled /\ j \in done[g]
    BY <1>2, <1>3 DEF Shrinks
  <2> QED  BY <1>4, <2>1
<1>8. LeavesTheSpared
  <2> SUFFICES ASSUME NEW g \in FullScenario,
                      NEW j \in done[g] \cup (IF kill' = g THEN {3} ELSE {}), NEW t \in settled,
                      session'[t].state = RestState[j]
               PROVE  UserOf[session'[t].id] \in Whitelist[g]
    BY DEF LeavesTheSpared
  <2>1. kill' # g
    BY <1>2, KillsAssumption
  <2>2. j \in done[g] /\ j \in 1 .. 3 /\ t \in PoolThread
    BY <2>1 DEF KillsInv, KillsTypeOK
  <2> QED  BY <1>4, <2>2
<1>9. SparesByState /\ EndsTheSlow /\ EndsTheFound
  BY <1>2, KillsAssumption DEF SparesByState, EndsTheSlow, EndsTheFound
<1> QED  BY <1>5, <1>6, <1>7, <1>8, <1>9 DEF KillsInv, Spares

\* A statement by state that the operator sends: it looks state and user up too.
LEMMA EndsByStateSpares ==
  ASSUME KillsInv, NEW f \in FullScenario, NEW i \in 1 .. 3, EndsByState(f, RestState[i])
  PROVE  KillsInv' /\ Spares
<1> DEFINE threads == {t \in PoolThread : HitByState(RestState[i], Whitelist[f], t)}
<1>1. Ends(f, threads) /\ UNCHANGED <<row, sweep, done, slowLeft, block>>
  BY DEF EndsByState, Operator
<1>2. Shrinks /\ kill' = f /\ \A t \in PoolThread : Hit(t) => t \in threads
  BY <1>1, EndsShrinks
<1> HIDE DEF threads
<1>3. slowLeft' \subseteq PoolThread
  BY <1>1 DEF KillsInv, KillsTypeOK
<1>4. KillsInv' /\ LeavesTheSpared
  BY <1>1, <1>2, <1>3, ShrinkingKeepsInv
<1>5. RestState[i] \notin {"active", "slow"}
  BY RestIsRest DEF RestStates
<1>6. SparesByState
  BY <1>2, <1>5 DEF SparesByState, threads, HitByState
<1>7. EndsTheSlow /\ EndsTheFound
  BY <1>2, KillsAssumption DEF EndsTheSlow, EndsTheFound
<1> QED  BY <1>4, <1>6, <1>7 DEF Spares

\* The operator's statements by user.
LEMMA EndsByUserSpares ==
  ASSUME KillsInv,
         \/ \E id \in DOMAIN UserOf, i \in 1 .. 3 : EndsByUser(UserOf[id], RestState[i])
         \/ \E id \in DOMAIN UserOf : EndsTopOfUser(UserOf[id], 1)
  PROVE  KillsInv' /\ Spares
<1>1. UNCHANGED <<row, sweep, done, slowLeft, block>>
  BY DEF EndsByUser, EndsTopOfUser, Operator
<1>2. PICK threads : Ends("user", threads)
  BY DEF EndsByUser, EndsTopOfUser
<1>3. Shrinks /\ kill' = "user"
  BY <1>2, EndsShrinks
<1>4. slowLeft' \subseteq PoolThread
  BY <1>1 DEF KillsInv, KillsTypeOK
<1>5. KillsInv' /\ LeavesTheSpared
  BY <1>1, <1>3, <1>4, ShrinkingKeepsInv
<1> QED  BY <1>3, <1>5, KillsAssumption DEF Spares, SparesByState, EndsTheSlow, EndsTheFound

\* SlowSQL names the session by its id as well as by its thread.
LEMMA SlowSpares ==
  ASSUME KillsInv, NEW t \in PoolThread, InspectsSlow(t)
  PROVE  KillsInv' /\ Spares
<1>1. UNCHANGED <<row, sweep, done, block>> /\ slowLeft' \subseteq PoolThread
  BY DEF InspectsSlow, KillsInv, KillsTypeOK
<1>2. CASE row[t].state = "slow" /\ UserOf[row[t].id] \notin ExcludedUser
  <2> DEFINE threads == {u \in PoolThread : HitByRowId(t, u)}
  <2>1. Ends("slow", threads)
    BY <1>2 DEF InspectsSlow
  <2>2. Shrinks /\ kill' = "slow" /\ \A u \in PoolThread : Hit(u) => u \in threads
    BY <2>1, EndsShrinks
  <2>3. row[t] = [id |-> row[t].id, state |-> "slow"]
    BY <1>2 DEF KillsInv, KillsTypeOK
  <2>4. ASSUME NEW u \in PoolThread, Hit(u)
        PROVE  /\ row[u] = [id |-> session[u].id, state |-> "slow"]
               /\ UserOf[session[u].id] \notin ExcludedUser
    <3>1. u = t /\ session[u].id = row[t].id
      BY <2>2, <2>4 DEF HitByRowId
    <3> QED  BY <1>2, <2>3, <3>1
  <2> HIDE DEF threads
  <2>5. KillsInv' /\ LeavesTheSpared
    BY <1>1, <2>2, ShrinkingKeepsInv
  <2> QED  BY <2>2, <2>4, <2>5, KillsAssumption DEF Spares, SparesByState, EndsTheSlow, EndsTheFound
<1>3. CASE ~(row[t].state = "slow" /\ UserOf[row[t].id] \notin ExcludedUser)
  <2>1. Ends("nothing", {})
    BY <1>3 DEF InspectsSlow
  <2>2. Shrinks /\ kill' = "nothing"
    BY <2>1, EndsShrinks
  <2>3. KillsInv' /\ LeavesTheSpared
    BY <1>1, <2>2, ShrinkingKeepsInv
  <2> QED  BY <2>2, <2>3, KillsAssumption DEF Spares, SparesByState, EndsTheSlow, EndsTheFound
<1> QED  BY <1>2, <1>3

\* A block notes the threads of the sessions that qualify, and ends none yet.
LEMMA BlockOpensSpares ==
  ASSUME KillsInv, NEW for \in {"sql", "overtime"}, NEW n \in Int, BlockOpens(for, n)
  PROVE  KillsInv' /\ Spares
<1>1. UNCHANGED <<row, sweep, done, slowLeft>> /\ Ends("nothing", {})
  BY DEF BlockOpens, Operator
<1>2. PICK threads \in SUBSET PoolThread :
        block' = [for |-> for, left |-> n, todo |-> threads,
                  found |-> {session[t].id : t \in threads}, known |-> opened]
  BY DEF BlockOpens
<1>3. Shrinks /\ kill' = "nothing" /\ \A t \in PoolThread : Hit(t) => t \in {}
  BY <1>1, EndsShrinks
<1>4. session \in [PoolThread -> ServerSessions]
  BY DEF KillsInv, KillsTypeOK, ServerSessions
<1>5. \A t \in PoolThread : session[t].id \in DOMAIN UserOf \cup {0}
  BY <1>4 DEF ServerSessions
<1>6. PICK found : found = {session[t].id : t \in threads}
  OBVIOUS
<1>13. found \subseteq DOMAIN UserOf \cup {0} /\ \A t \in threads : session[t].id \in found
  BY <1>5, <1>6
<1>14. block' = [for |-> for, left |-> n, todo |-> threads, found |-> found, known |-> opened]
  BY <1>2, <1>6
<1>15. opened \subseteq DOMAIN UserOf
  BY DEF KillsInv, KillsTypeOK
<1>7. block' \in Blocks /\ block'.todo = threads /\ block'.known = opened /\ block'.found = found
  BY <1>13, <1>14, <1>15 DEF Blocks
<1>8. \A t \in PoolThread : session'[t] = session[t]
  BY <1>3 DEF Hit, Shrinks, NoOne
<1>9. KillsTypeOK'
  <2>1. session' \in [PoolThread -> [id : DOMAIN UserOf \cup {0},
                                     state : State \cup {"absent"}, old : BOOLEAN]]
    BY <1>3 DEF Shrinks, ServerSessions
  <2> QED  BY <1>1, <1>3, <1>7, <2>1 DEF KillsInv, KillsTypeOK, Shrinks
<1>10. FoundInv'
  BY <1>13, <1>7, <1>8 DEF FoundInv
<1>11. LeftInv'
  BY <1>1, <1>3, <1>8 DEF LeftInv, KillsInv, Shrinks
<1>12. Spares
  BY <1>1, <1>3, KillsAssumption DEF Spares, SparesByState, LeavesTheSpared, EndsTheSlow, EndsTheFound
<1> QED  BY <1>7, <1>9, <1>10, <1>11, <1>12 DEF KillsInv

\* A block goes through its threads one after the other.
LEMMA PastKeepsBlock ==
  ASSUME KillsInv, NEW t, NEW counted \in {0, 1}, Past(t, counted)
  PROVE  /\ t \in block.todo /\ t \in PoolThread /\ t \notin block'.todo
         /\ block'.todo \subseteq block.todo /\ block' \in Blocks
         /\ block' = NoBlock \/ (block'.found = block.found /\ block'.known = block.known)
         /\ UNCHANGED <<row, sweep, done, slowLeft>>
<1>1. PICK f \in {"nothing", "sql", "overtime"}, l \in Int, td \in SUBSET PoolThread,
           fd \in SUBSET (DOMAIN UserOf \cup {0}), kn \in SUBSET DOMAIN UserOf :
        block = [for |-> f, left |-> l, todo |-> td, found |-> fd, known |-> kn]
  BY DEF KillsInv, Blocks
<1>2. t \in td /\ UNCHANGED <<row, sweep, done, slowLeft>>
  BY <1>1 DEF Past
<1>3. \/ block' = NoBlock
      \/ block' = [for |-> f, left |-> l - counted, todo |-> td \ {t}, found |-> fd, known |-> kn]
  BY <1>1 DEF Past
<1>4. l - counted \in Int
  OBVIOUS
<1> QED  BY <1>1, <1>2, <1>3, <1>4, NoBlockIsABlock DEF Blocks

LEMMA BlockSpares ==
  ASSUME KillsInv, NEW t \in PoolThread, BlockEnds(t) \/ BlockSkips(t)
  PROVE  KillsInv' /\ Spares
<1>1. PICK counted \in {0, 1}, for \in {"nothing", "sql", "overtime"}, threads \in SUBSET {t} :
        Past(t, counted) /\ Ends(for, threads)
  <2>1. block.for \in {"nothing", "sql", "overtime"}
    BY DEF KillsInv, Blocks
  <2> QED  BY <2>1 DEF BlockEnds, BlockSkips
<1>2. /\ t \in block.todo /\ t \notin block'.todo
      /\ block'.todo \subseteq block.todo /\ block' \in Blocks
      /\ block' = NoBlock \/ (block'.found = block.found /\ block'.known = block.known)
      /\ UNCHANGED <<row, sweep, done, slowLeft>>
  BY <1>1, PastKeepsBlock
<1>3. Shrinks /\ kill' = for /\ \A u \in PoolThread : Hit(u) => u \in threads
  BY <1>1, EndsShrinks
<1>4. KillsTypeOK'
  <2>1. session' \in [PoolThread -> [id : DOMAIN UserOf \cup {0},
                                     state : State \cup {"absent"}, old : BOOLEAN]]
    BY <1>3 DEF Shrinks, ServerSessions
  <2>2. block'.todo \subseteq PoolThread /\ block'.known \subseteq opened
    BY <1>2, NoBlockIsABlock DEF KillsInv, KillsTypeOK
  <2> QED  BY <1>2, <1>3, <2>1, <2>2 DEF KillsInv, KillsTypeOK, Shrinks
<1>5. FoundInv'
  <2> SUFFICES ASSUME NEW u \in block'.todo, session'[u].id \in block'.known
               PROVE  session'[u].id \in block'.found
    BY DEF FoundInv
  <2>1. block' # NoBlock
    BY NoBlockIsABlock
  <2>2. u \in block.todo /\ u \in PoolThread /\ block'.found = block.found /\ block'.known = block.known
    BY <1>2, <2>1 DEF KillsInv, KillsTypeOK
  <2>3. session'[u].id = session[u].id
    BY <1>3, <2>2, ShrinkingKeeps
  <2> QED  BY <2>2, <2>3 DEF KillsInv, FoundInv
<1>6. LeftInv'
  BY <1>2, <1>3, ShrinkingKeeps DEF KillsInv, LeftInv, Shrinks
<1>7. SparesByState /\ EndsTheSlow /\ LeavesTheSpared
  BY <1>2, <1>3, KillsAssumption DEF SparesByState, LeavesTheSpared, EndsTheSlow
<1>8. EndsTheFound
  <2>1. \A u \in PoolThread : Hit(u) => u = t
    BY <1>1, <1>3
  <2> QED  BY <1>2, <2>1 DEF EndsTheFound, KillsInv, FoundInv
<1> QED  BY <1>2, <1>4, <1>5, <1>6, <1>7, <1>8 DEF KillsInv, Spares

LEMMA KillsNextSpares ==
  ASSUME KillsInv, [KillsNext]_killVars
  PROVE  KillsInv' /\ Spares
<1>1. ASSUME NEW t \in PoolThread,
             \/ \E id \in DOMAIN UserOf : Opens(t, id)
             \/ \E state \in State : Changes(t, state)
             \/ Ages(t)
             \/ Closes(t)
      PROVE  KillsInv' /\ Spares
  <2>1. KillsInv' /\ kill' = "nothing" /\ sweep' = sweep
    BY <1>1, ServerKeeps
  <2> QED  BY <2>1, KillsAssumption DEF Spares, SparesByState, LeavesTheSpared, EndsTheSlow, EndsTheFound
<1>2. ASSUME NEW t \in PoolThread, InspectsSlow(t)
      PROVE  KillsInv' /\ Spares
  BY <1>2, SlowSpares
<1>3. ASSUME NEW t \in PoolThread, BlockEnds(t) \/ BlockSkips(t)
      PROVE  KillsInv' /\ Spares
  BY <1>3, BlockSpares
<1>4. CASE Cycle
  <2>1. KillsInv' /\ kill' = "nothing" /\ \A f \in FullScenario : sweep[f] = 0
    BY <1>4, CycleKeeps
  <2> QED  BY <2>1, KillsAssumption DEF Spares, SparesByState, LeavesTheSpared, EndsTheSlow, EndsTheFound
<1>5. ASSUME NEW f \in FullScenario, Sweeps(f) \/ SweepFails(f)
      PROVE  KillsInv' /\ Spares
  BY <1>5, SweepsSpares, SweepFailsSpares
<1>6. ASSUME NEW f \in FullScenario, NEW i \in 1 .. 3, EndsByState(f, RestState[i])
      PROVE  KillsInv' /\ Spares
  BY <1>6, EndsByStateSpares
<1>7. CASE \/ \E id \in DOMAIN UserOf, i \in 1 .. 3 : EndsByUser(UserOf[id], RestState[i])
           \/ \E id \in DOMAIN UserOf : EndsTopOfUser(UserOf[id], 1)
  BY <1>7, EndsByUserSpares
<1>8. ASSUME NEW for \in {"sql", "overtime"}, NEW n \in {1, Cardinality(PoolThread) + 1},
             BlockOpens(for, n)
      PROVE  KillsInv' /\ Spares
  <2>1. n \in Int
    BY KillsAssumption, FS_CardinalityType
  <2> QED  BY <1>8, <2>1, BlockOpensSpares
<1>9. CASE UNCHANGED killVars
  <2>1. KillsInv'
    BY <1>9 DEF killVars, KillsInv, KillsTypeOK, FoundInv, LeftInv
  <2>2. Spares
    BY <1>9 DEF killVars, Spares, SparesByState, LeavesTheSpared, EndsTheSlow, EndsTheFound, Hit
  <2> QED  BY <2>1, <2>2
<1> QED  BY <1>1, <1>2, <1>3, <1>4, <1>5, <1>6, <1>7, <1>8, <1>9 DEF KillsNext

\* Whatever the sessions do between the rows and the statements, and between the
\* lookup of a block and its kills: a statement by state ends no session that works
\* and none of a spared user, and a sweep leaves none at rest that it should have
\* ended; SlowSQL ends only the session it saw slow; a block ends, of the sessions
\* that were there when it looked, only those it found (full_common.go, slow_sql.go,
\* base.go, internal/model/sql.go).
THEOREM KillsSpare == KillsSpec => KillsSafety
<1>1. KillsInit => KillsInv
  BY KillsInvInit
<1>2. KillsInv /\ [KillsNext]_killVars => KillsInv'
  BY KillsNextSpares
<1>3. KillsInv => KillsTypeOK
  BY DEF KillsInv
<1>4. KillsInv /\ [KillsNext]_killVars => [SparesByState]_killVars
  BY KillsNextSpares DEF Spares
<1>5. KillsInv /\ [KillsNext]_killVars => [LeavesTheSpared]_killVars
  BY KillsNextSpares DEF Spares
<1>6. KillsInv /\ [KillsNext]_killVars => [EndsTheSlow]_killVars
  BY KillsNextSpares DEF Spares
<1>7. KillsInv /\ [KillsNext]_killVars => [EndsTheFound]_killVars
  BY KillsNextSpares DEF Spares
<1>8. KillsSpec => [](KillsTypeOK) /\ [][SparesByState]_killVars /\ [][LeavesTheSpared]_killVars
                   /\ [][EndsTheSlow]_killVars /\ [][EndsTheFound]_killVars
  BY <1>1, <1>2, <1>3, <1>4, <1>5, <1>6, <1>7, PTL DEF KillsSpec
<1> QED
  BY <1>8 DEF KillsSafety, SweepSpares, SweepIsThorough, SlowKillsWhatItSaw, BlockEndsWhatItFound,
              SparesByState, LeavesTheSpared, EndsTheSlow, EndsTheFound

-----------------------------------------------------------------------------
(* The windows of the detectors (DetectionWindows).                          *)

\* The values of the state: a sample, the window of them, what was inspected.
CycleSample == [id : Nat, p80 : BOOLEAN, load : 0..1]

JitterState == [window : Seq(CycleSample), first : BOOLEAN, fired : {"no", "p80", "jump"},
                start : Int, shown : BOOLEAN]
SlowState == [last : Int, looked : Int, in : 0..Len(Strategies)]

WindowsTypes ==
  /\ cycle \in [id : Nat, at : Nat] /\ cycle.id <= cycle.at /\ cycle.at <= LastMoment
  /\ jitter \in JitterState
  /\ Len(jitter.window) <= JitterScope
  /\ slowSql \in SlowState

\* The samples kept are of cycles that were; nothing is kept before the first.
SamplesPast ==
  /\ \A i \in DOMAIN jitter.window : jitter.window[i].id <= cycle.id
  /\ jitter.first => jitter.window = << >> /\ jitter.fired = "no"

\* What SlowSQL has on record as its last check was one.
CheckIsRecorded == slowSql.last = slowSql.looked /\ slowSql.looked \in -1..cycle.at

\* The inductive invariant of the detections.
WindowsInv ==
  /\ WindowsTypes /\ SamplesPast /\ CheckIsRecorded
  /\ InspectedInTime /\ StreakIsExact /\ FiredIsShown

\* Before the first cycle nothing was sampled, inspected or fired.
LEMMA WindowsInvInit ==
  ASSUME WindowsInit
  PROVE  WindowsInv
  <1>1. WindowsTypes
    BY WindowsAssumption DEF WindowsInit, WindowsTypes, JitterState, SlowState
  <1> QED
    BY <1>1 DEF WindowsInit, WindowsInv, SamplesPast, CheckIsRecorded,
                InspectedInTime, StreakIsExact, FiredIsShown

\* Room for one more sample is made, and the samples that stay are kept as they are.
LEMMA WindowEvicts ==
  ASSUME NEW w \in Seq(CycleSample), Len(w) <= JitterScope
  PROVE  /\ Evict(w) \in Seq(CycleSample) /\ Len(Evict(w)) < JitterScope
         /\ \A i \in DOMAIN Evict(w) : \E j \in DOMAIN w : Evict(w)[i] = w[j]
  <1>1. CASE Len(w) = JitterScope
    <2>1. w # << >>
      BY <1>1, WindowsAssumption
    <2>2. /\ Tail(w) \in Seq(CycleSample) /\ Len(Tail(w)) = Len(w) - 1
          /\ \A i \in 1..(Len(w) - 1) : Tail(w)[i] = w[i + 1]
      BY <2>1
    <2>3. \A i \in 1..(Len(w) - 1) : i + 1 \in DOMAIN w
      OBVIOUS
    <2>4. DOMAIN Tail(w) = 1..(Len(w) - 1)
      BY <2>2
    <2>5. \A i \in DOMAIN Tail(w) : \E j \in DOMAIN w : Tail(w)[i] = w[j]
      BY <2>2, <2>3, <2>4
    <2> QED
      BY <1>1, <2>2, <2>5, WindowsAssumption DEF Evict
  <1>2. CASE Len(w) # JitterScope
    BY <1>2, WindowsAssumption DEF Evict
  <1> QED
    BY <1>1, <1>2

\* A set of numbers that is not empty has a least one.
LEMMA LeastExists ==
  ASSUME NEW T \in SUBSET Nat, T # {}
  PROVE  \E x \in T : \A y \in T : x <= y
  <1> DEFINE R == OpToRel(<, Nat)
  <1>1. IsWellFoundedOn(R, Nat)
    BY NatLessThanWellFounded
  <1>2. \A x, y \in Nat : x < y => <<x, y>> \in R
    BY Zenon DEF OpToRel
  <1> HIDE DEF R
  <1>3. PICK x \in T : \A y \in T : ~(<<y, x>> \in R)
    BY <1>1, WFMin, Zenon
  <1>4. \A y \in T : ~(y < x)
    BY <1>2, <1>3
  <1> QED
    BY <1>3, <1>4

\* The first strategy that matches, if any does.
LEMMA StrategyMatches ==
  ASSUME NEW now \in Int
  PROVE  /\ MatchStrategy(now) \in 0..Len(Strategies)
         /\ MatchStrategy(now) # 0 => MatchStrategy(now) \in DOMAIN Strategies
  <1>1. Matching(now) \in SUBSET (1..Len(Strategies)) /\ Len(Strategies) \in Nat
        /\ DOMAIN Strategies = 1..Len(Strategies)
    BY WindowsAssumption DEF Matching
  <1>2. CASE Matching(now) = {}
    BY <1>1, <1>2 DEF MatchStrategy
  <1>3. CASE Matching(now) # {}
    <2>1. Matching(now) \subseteq Nat
      BY <1>1
    <2>2. \E i \in Matching(now) : \A j \in Matching(now) : i <= j
      BY <1>3, <2>1, LeastExists
    <2>3. MatchStrategy(now) \in Matching(now)
      BY <1>3, <2>2 DEF MatchStrategy
    <2> QED
      BY <1>1, <2>3
  <1> QED
    BY <1>2, <1>3

\* A streak is there exactly when the newest samples are all over the threshold.
LEMMA StreakFound ==
  ASSUME NEW w \in Seq(CycleSample)
  PROVE  StreakStarts(w) # {} <=>
           /\ Len(w) >= JitterStreak
           /\ \A j \in (Len(w) - JitterStreak + 1)..Len(w) : w[j].p80
  <1>1. JitterStreak \in Nat /\ JitterStreak >= 1 /\ Len(w) \in Nat /\ DOMAIN w = 1..Len(w)
    BY WindowsAssumption
  <1>2. ASSUME NEW i \in StreakStarts(w)
        PROVE  /\ Len(w) >= JitterStreak
               /\ \A j \in (Len(w) - JitterStreak + 1)..Len(w) : w[j].p80
    <2>1. i \in 1..Len(w) /\ Len(w) - i + 1 = JitterStreak /\ \A j \in i..Len(w) : w[j].p80
      BY <1>1, <1>2 DEF StreakStarts
    <2>2. i = Len(w) - JitterStreak + 1
      BY <1>1, <2>1
    <2> QED
      BY <1>1, <2>1, <2>2
  <1>3. ASSUME Len(w) >= JitterStreak,
               \A j \in (Len(w) - JitterStreak + 1)..Len(w) : w[j].p80
        PROVE  StreakStarts(w) # {}
    <2>0. Len(w) - JitterStreak + 1 \in 1..Len(w)
      BY <1>1, <1>3
    <2>1. PICK i \in 1..Len(w) : i = Len(w) - JitterStreak + 1
      BY <2>0
    <2>2. i \in 1..Len(w) /\ Len(w) - i + 1 = JitterStreak
      BY <1>1, <2>1
    <2>3. \A j \in i..Len(w) : w[j].p80
      BY <1>3, <2>1
    <2> QED
      BY <1>1, <2>2, <2>3 DEF StreakStarts
  <1> QED
    BY <1>2, <1>3

\* What a new sample makes fire, and what it shows.
LEMMA JudgeKeepsInv ==
  ASSUME WindowsInv, NEW id \in Nat, id = cycle.id + 1, cycle'.id = id,
         NEW s \in CycleSample, s.id = id, ~jitter.first,
         Judge(Append(Evict(jitter.window), s))
  PROVE  /\ jitter' \in JitterState
         /\ Len(jitter'.window) <= JitterScope
         /\ SamplesPast' /\ StreakIsExact' /\ FiredIsShown'
  <1> DEFINE w == Append(Evict(jitter.window), s)
  <1>1. /\ jitter.window \in Seq(CycleSample) /\ Len(jitter.window) <= JitterScope
        /\ \A i \in DOMAIN jitter.window : jitter.window[i].id <= cycle.id
        /\ cycle.id \in Nat
    BY DEF WindowsInv, WindowsTypes, SamplesPast, JitterState
  <1>2. /\ w \in Seq(CycleSample) /\ Len(w) \in Nat /\ Len(w) > 0 /\ Len(w) <= JitterScope
        /\ w[Len(w)] = s
    BY <1>1, WindowEvicts, WindowsAssumption
  <1>3. \A i \in DOMAIN w : w[i].id <= id
    <2> SUFFICES ASSUME NEW i \in DOMAIN w
                 PROVE  w[i].id <= id
      OBVIOUS
    <2>1. CASE i = Len(w)
      BY <1>2, <2>1
    <2>2. CASE i # Len(w)
      <3>1. i \in DOMAIN Evict(jitter.window) /\ w[i] = Evict(jitter.window)[i]
        BY <1>1, <1>2, <2>2, WindowEvicts
      <3>2. PICK j \in DOMAIN jitter.window : w[i] = jitter.window[j]
        BY <1>1, <3>1, WindowEvicts
      <3>3. jitter.window[j].id <= cycle.id /\ jitter.window[j] \in CycleSample
        BY <1>1, <3>2
      <3> QED
        BY <1>1, <3>2, <3>3 DEF CycleSample
    <2> QED
      BY <2>1, <2>2
  <1>4. Judge(w)
    OBVIOUS
  <1> HIDE DEF w
  <1>5. \A i \in DOMAIN w : w[i].id \in Nat /\ Find(w, w[i].id)
    <2>1. \A i \in DOMAIN w : w[i] \in CycleSample
      BY <1>2
    <2>2. \A i \in DOMAIN w : Find(w, w[i].id)
      BY Zenon DEF Find
    <2> QED
      BY <2>1, <2>2 DEF CycleSample
  <1>6. \A i \in DOMAIN w : Before(w, i) \in Int /\ Find(w, Before(w, i))
    BY <1>5 DEF Before
  <1>7. PICK kind \in {"no", "p80", "jump"}, start \in Int, told \in BOOLEAN :
          /\ jitter' = [window |-> w, first |-> FALSE, fired |-> kind, start |-> start,
                        shown |-> told]
          /\ kind # "no" => told
          /\ kind = "p80" <=> StreakStarts(w) # {}
    <2>1. CASE StreakStarts(w) # {}
      <3>1. PICK i \in StreakStarts(w) : Fires(w, "p80", Before(w, i))
        BY <1>4, <2>1 DEF Judge
      <3>2. Before(w, i) \in Int /\ Find(w, Before(w, i)) = TRUE
        BY <1>6, <3>1 DEF StreakStarts
      <3>3. jitter' = [window |-> w, first |-> FALSE, fired |-> "p80",
                       start |-> Before(w, i), shown |-> TRUE]
        BY <3>1, <3>2, Zenon DEF Fires
      <3> QED
        BY <2>1, <3>2, <3>3
    <2>2. CASE StreakStarts(w) = {} /\ JumpedOver(w) # {}
      <3>1. PICK i \in JumpedOver(w) : Fires(w, "jump", w[i].id)
        BY <1>4, <2>2 DEF Judge
      <3>2. i \in DOMAIN w
        BY <1>2, <3>1 DEF JumpedOver
      <3>3. w[i].id \in Int /\ Find(w, w[i].id) = TRUE
        BY <1>5, <3>2
      <3>4. jitter' = [window |-> w, first |-> FALSE, fired |-> "jump",
                       start |-> w[i].id, shown |-> TRUE]
        BY <3>1, <3>3, Zenon DEF Fires
      <3> QED
        BY <2>2, <3>3, <3>4
    <2>3. CASE StreakStarts(w) = {} /\ JumpedOver(w) = {}
      <3>1. jitter' = [jitter EXCEPT !.window = w, !.fired = "no", !.shown = FALSE]
        BY <1>4, <2>3 DEF Judge
      <3>2. jitter' = [window |-> w, first |-> FALSE, fired |-> "no",
                       start |-> jitter.start, shown |-> FALSE] /\ jitter.start \in Int
        BY <3>1 DEF WindowsInv, WindowsTypes, JitterState
      <3> QED
        BY <2>3, <3>2
    <2> QED
      BY <2>1, <2>2, <2>3
  <1>8. /\ jitter'.window = w /\ jitter'.first = FALSE /\ jitter'.fired = kind
        /\ jitter'.shown = told
        /\ kind # "no" => told
        /\ kind = "p80" <=> StreakStarts(w) # {}
        /\ jitter' \in JitterState
    BY <1>2, <1>7 DEF JitterState
  <1>9. SamplesPast'
    BY <1>3, <1>8 DEF SamplesPast
  <1>10. w # << >> /\ w[Len(w)].id = cycle'.id
    BY <1>2
  <1>11. StreakIsExact'
    BY <1>2, <1>8, <1>10, StreakFound DEF StreakIsExact
  <1>12. FiredIsShown'
    BY <1>8 DEF FiredIsShown
  <1> QED
    BY <1>2, <1>8, <1>9, <1>11, <1>12

\* One cycle of both detections.
LEMMA CycleKeepsInv ==
  ASSUME WindowsInv, NEW gap \in 1..MaxGap, Cycles(gap)
  PROVE  WindowsInv'
  <1> DEFINE now == cycle.at + gap
  <1>1. gap \in Nat /\ gap >= 1 /\ now \in Nat /\ now <= LastMoment /\ LastMoment \in Nat
    BY WindowsAssumption DEF Cycles, WindowsInv, WindowsTypes
  <1>2. /\ cycle.id \in Nat /\ cycle.at \in Nat /\ cycle.id <= cycle.at
        /\ jitter \in JitterState
        /\ Len(jitter.window) <= JitterScope
        /\ slowSql \in SlowState
    BY DEF WindowsInv, WindowsTypes
  <1>3. /\ cycle' \in [id : Nat, at : Nat] /\ cycle'.id = cycle.id + 1 /\ cycle'.at = now
        /\ cycle'.id <= cycle'.at /\ cycle'.at <= LastMoment
    BY <1>1, <1>2 DEF Cycles
  <1>4. /\ jitter' \in JitterState
        /\ Len(jitter'.window) <= JitterScope
        /\ SamplesPast' /\ StreakIsExact' /\ FiredIsShown'
    <2>1. CASE JitterFirst
      <3>1. /\ jitter'.window = << >> /\ jitter'.fired = "no" /\ jitter'.shown = jitter.shown
            /\ jitter' \in JitterState
        BY <1>2, <2>1 DEF JitterFirst, WindowsInv, SamplesPast, JitterState
      <3> QED
        BY <3>1, WindowsAssumption DEF SamplesPast, StreakIsExact, FiredIsShown
    <2>2. CASE JitterSkips
      <3>1. /\ jitter'.window = Evict(jitter.window) /\ jitter'.fired = "no"
            /\ jitter'.first = FALSE /\ jitter' \in JitterState
        BY <1>2, <2>2, WindowEvicts DEF JitterSkips, JitterState
      <3>2. \A i \in DOMAIN jitter'.window : jitter'.window[i].id <= cycle.id
        BY <1>2, <3>1, WindowEvicts DEF WindowsInv, SamplesPast, JitterState
      <3>3. Len(jitter'.window) <= JitterScope /\ Len(jitter'.window) \in Nat
        BY <1>2, <3>1, WindowEvicts, WindowsAssumption DEF JitterState
      <3>4. SamplesPast'
        <4>1. \A i \in DOMAIN jitter'.window : jitter'.window[i].id \in Nat
          <5>1. jitter'.window \in Seq(CycleSample)
            BY <3>1 DEF JitterState
          <5>2. \A i \in DOMAIN jitter'.window : jitter'.window[i] \in CycleSample
            BY <5>1
          <5> QED
            BY <5>2 DEF CycleSample
        <4> QED
          BY <1>2, <1>3, <3>1, <3>2, <4>1 DEF SamplesPast
      <3>5. jitter'.window # << >> => jitter'.window[Len(jitter'.window)].id # cycle'.id
        <4>1. SUFFICES ASSUME jitter'.window # << >>
                       PROVE  jitter'.window[Len(jitter'.window)].id # cycle'.id
          OBVIOUS
        <4>2. jitter'.window \in Seq(CycleSample)
          BY <3>1 DEF JitterState
        <4>3. /\ Len(jitter'.window) \in DOMAIN jitter'.window
              /\ jitter'.window[Len(jitter'.window)] \in CycleSample
          BY <4>1, <4>2
        <4>4. /\ jitter'.window[Len(jitter'.window)].id <= cycle.id
              /\ jitter'.window[Len(jitter'.window)].id \in Nat
          BY <3>2, <4>3 DEF CycleSample
        <4> QED
          BY <1>2, <1>3, <4>4
      <3> QED
        BY <3>1, <3>3, <3>4, <3>5 DEF StreakIsExact, FiredIsShown
    <2>3. CASE JitterAnalyzes
      <3>1. PICK p80 \in BOOLEAN, busy \in 0..1 :
              Judge(Append(Evict(jitter.window),
                           [id |-> cycle'.id, p80 |-> p80, load |-> busy]))
        BY <2>3 DEF JitterAnalyzes
      <3>2. [id |-> cycle'.id, p80 |-> p80, load |-> busy] \in CycleSample
        BY <1>3 DEF CycleSample
      <3>3. ~jitter.first /\ cycle'.id \in Nat
        BY <1>3, <2>3 DEF JitterAnalyzes
      <3>4. PICK s \in CycleSample : s = [id |-> cycle'.id, p80 |-> p80, load |-> busy]
        BY <3>2
      <3>5. s.id = cycle'.id /\ Judge(Append(Evict(jitter.window), s)) /\ s \in CycleSample
        BY <3>1, <3>4
      <3> QED
        BY <1>3, <3>3, <3>5, JudgeKeepsInv
    <2> QED
      BY <2>1, <2>2, <2>3 DEF Cycles
  <1>5. /\ slowSql' \in SlowState
        /\ CheckIsRecorded' /\ InspectedInTime'
    <2>1. /\ slowSql.last = slowSql.looked /\ slowSql.looked \in Int
          /\ slowSql.looked >= -1 /\ slowSql.looked <= cycle.at
      BY <1>2 DEF WindowsInv, CheckIsRecorded
    <2>2. SlowAnalyzes(now)
      BY DEF Cycles
    <2>3. CASE MatchStrategy(now) = 0
      <3>1. slowSql' = [slowSql EXCEPT !.in = 0] /\ 0 \in 0..Len(Strategies)
        BY <2>2, <2>3, WindowsAssumption DEF SlowAnalyzes
      <3>2. /\ slowSql'.last = slowSql.last /\ slowSql'.looked = slowSql.looked
            /\ slowSql'.in = 0
            /\ slowSql' \in SlowState
        BY <1>2, <3>1 DEF SlowState
      <3>3. slowSql.looked <= now
        BY <1>1, <1>2, <2>1
      <3> QED
        BY <1>1, <1>3, <2>1, <3>2, <3>3 DEF CheckIsRecorded, InspectedInTime
    <2>4. CASE MatchStrategy(now) # 0
      <3>1. PICK i : /\ i = MatchStrategy(now)
                     /\ i \in DOMAIN Strategies /\ i \in 0..Len(Strategies)
        <4>1. now \in Int
          BY <1>1
        <4> QED
          BY <2>4, <4>1, StrategyMatches
      <3>2. i \in 0..Len(Strategies) /\ Strategies[i].every \in Nat \ {0}
        <4>1. \A k \in DOMAIN Strategies :
                Strategies[k] \in [from : Nat, to : Nat, every : Nat \ {0}]
          <5> DEFINE Strategy == [from : Nat, to : Nat, every : Nat \ {0}]
          <5>1. Strategies \in Seq(Strategy)
            BY WindowsAssumption
          <5> HIDE DEF Strategy
          <5>2. \A k \in DOMAIN Strategies : Strategies[k] \in Strategy
            BY <5>1
          <5> QED
            BY <5>2 DEF Strategy
        <4> QED
          BY <3>1, <4>1
      <3>3. slowSql' = [last |-> IF Due(now, i) THEN now ELSE slowSql.last,
                        looked |-> IF Due(now, i) THEN now ELSE slowSql.looked, in |-> i]
        BY <2>2, <2>4, <3>1 DEF SlowAnalyzes, Checked
      <3> HIDE DEF now
      <3>4. CASE Due(now, i)
        BY <1>1, <1>3, <3>2, <3>3, <3>4 DEF CheckIsRecorded, InspectedInTime,
                                            SlowState
      <3>5. CASE ~Due(now, i)
        <4>1. now - slowSql.looked < Strategies[i].every
          BY <1>1, <2>1, <3>2, <3>5 DEF Due
        <4>2. slowSql.looked <= now
          BY <1>1, <1>2, <2>1 DEF now
        <4>3. /\ slowSql'.last = slowSql.last /\ slowSql'.looked = slowSql.looked
              /\ slowSql'.in = i
              /\ slowSql' \in SlowState
          BY <1>2, <3>2, <3>3, <3>5 DEF SlowState
        <4> QED
          BY <1>1, <1>3, <2>1, <4>1, <4>2, <4>3 DEF CheckIsRecorded, InspectedInTime
      <3> QED
        BY <3>4, <3>5
    <2> QED
      BY <2>3, <2>4
  <1> QED
    BY <1>3, <1>4, <1>5 DEF WindowsInv, WindowsTypes

\* Whatever time lies between cycles and whatever is sampled: SlowSQL inspects as
\* often as its strategy asks, a sustained breach fires exactly when the newest
\* samples kept say so, and the sample it is compared with is shown (dueForCheck,
\* analyzeSustainedP80).
THEOREM WindowsAreSafe == WindowsSpec => []WindowsSafety
  <1>1. WindowsInv /\ [WindowsNext]_windowVars => WindowsInv'
    <2> SUFFICES ASSUME WindowsInv, [WindowsNext]_windowVars
                 PROVE  WindowsInv'
      OBVIOUS
    <2>1. CASE WindowsNext
      BY <2>1, CycleKeepsInv DEF WindowsNext
    <2>2. CASE UNCHANGED windowVars
      BY <2>2 DEF windowVars, WindowsInv, WindowsTypes, SamplesPast, CheckIsRecorded,
                  InspectedInTime, StreakIsExact, FiredIsShown
    <2> QED
      BY <2>1, <2>2
  <1>2. WindowsInv => WindowsSafety
    <2> SUFFICES ASSUME WindowsInv PROVE WindowsSafety
      OBVIOUS
    <2>1. /\ cycle.id \in 0..LastMoment /\ cycle.at \in 0..LastMoment
          /\ cycle = [id |-> cycle.id, at |-> cycle.at]
      BY WindowsAssumption DEF WindowsInv, WindowsTypes
    <2>2. cycle \in [id : 0..LastMoment, at : 0..LastMoment]
      BY <2>1
    <2>3. slowSql \in [last : -1..LastMoment, looked : -1..LastMoment, in : 0..Len(Strategies)]
      <3>1. /\ slowSql.last \in -1..LastMoment /\ slowSql.looked \in -1..LastMoment
            /\ slowSql.in \in 0..Len(Strategies)
            /\ slowSql = [last |-> slowSql.last, looked |-> slowSql.looked,
                          in |-> slowSql.in]
        BY <2>1, WindowsAssumption DEF WindowsInv, WindowsTypes, CheckIsRecorded,
                                       SlowState
      <3> QED
        BY <3>1
    <2> QED
      BY <2>2, <2>3 DEF WindowsInv, WindowsTypes, WindowsSafety, WindowsTypeOK
  <1> QED
    BY <1>1, <1>2, WindowsInvInit, PTL DEF WindowsSpec

-----------------------------------------------------------------------------
(* The blocking analysis (BlockAnalysis).                                    *)

\* The rows of a set wait for rows of the set.
Stays(d) == \A r \in d : blocker[r] \in d

\* The path of a walk goes along the edges, from one row to its blocker.
Follows(path) ==
  /\ path \in Seq(Edges)
  /\ \A i \in 1 .. Len(path) : i < Len(path) => blocker[path[i]] = path[i + 1]

\* The walk under way leads to its current row, through no deadlock known.
WalkIsPath ==
  /\ walk \in [left : SUBSET Backend, current : Backend \cup {Nobody, Outside},
               path : Seq(Backend)]
  /\ walk.current # Nobody =>
       /\ Follows(walk.path)
       /\ walk.path # <<>> => blocker[walk.path[Len(walk.path)]] = walk.current
       /\ \A i \in 1 .. Len(walk.path) : walk.path[i] \notin visitedAll

InReport(c) == \E i \in 1 .. Len(deadlocks) : deadlocks[i] = c

\* What was found are deadlocks, once each, and the rows visited are theirs.
FoundAreDeadlocks ==
  /\ deadlocks \in Seq(SUBSET Backend)
  /\ \A i \in 1 .. Len(deadlocks) : Deadlock(deadlocks[i])
  /\ \A i, j \in 1 .. Len(deadlocks) : deadlocks[i] = deadlocks[j] => i = j
  /\ visitedAll = UNION {deadlocks[i] : i \in 1 .. Len(deadlocks)}

\* No deadlock is passed by: until a walk starts in it every row is a start.
NonePassedBy ==
  \A c \in SUBSET Backend :
    Deadlock(c) => InReport(c) \/ c \subseteq walk.left \/ walk.current \in c

BlockInv ==
  /\ blocker \in [Backend -> Backend \cup {Nobody, Outside}]
  /\ WalkIsPath /\ FoundAreDeadlocks /\ NonePassedBy

-----------------------------------------------------------------------------
\* Deadlocks that share a row are one.
LEMMA DeadlocksApart ==
  ASSUME NEW c, NEW d, Deadlock(c), Deadlock(d), NEW p, p \in c, p \in d
  PROVE  c = d
  <1> DEFINE e == c \cap d
  <1>1. e \in SUBSET c /\ e \in SUBSET d /\ p \in e
    OBVIOUS
  <1>2. \A r \in e : blocker[r] \in e
    BY DEF Deadlock
  <1> HIDE DEF e
  <1>3. \A q \in c : q \in e
    BY <1>1, <1>2 DEF Deadlock
  <1>4. \A q \in d : q \in e
    BY <1>1, <1>2 DEF Deadlock
  <1> QED
    BY <1>3, <1>4 DEF e

\* A set of rows that a path enters and does not leave has the rest of it.
LEMMA PathStays ==
  ASSUME NEW path, Follows(path), NEW d, Stays(d),
         NEW i \in 1 .. Len(path), path[i] \in d,
         NEW j \in 1 .. Len(path), i <= j
  PROVE  path[j] \in d
  <1> DEFINE B == {k \in i .. Len(path) : path[k] \notin d}
  <1>0. Len(path) \in Nat /\ i \in Nat /\ j \in i .. Len(path)
    BY DEF Follows
  <1>1. CASE B = {}
    BY <1>0, <1>1
  <1>2. CASE B # {}
    <2>1. B \in SUBSET Nat
      BY <1>0
    <2>2. PICK k \in B : \A y \in B : k <= y
      <3> HIDE DEF B
      <3> QED
        BY <1>2, <2>1, LeastExists
    <2>3. k \in i .. Len(path) /\ path[k] \notin d /\ k # i
      BY <2>2
    <2>4. k - 1 \in i .. Len(path) /\ k - 1 \in 1 .. Len(path) /\ k - 1 < Len(path)
          /\ ~(k <= k - 1) /\ (k - 1) + 1 = k
      BY <1>0, <2>3
    <2>5. k - 1 \notin B
      <3> HIDE DEF B
      <3> QED
        BY <2>2, <2>4
    <2>6. path[k - 1] \in d
      BY <2>4, <2>5
    <2>7. blocker[path[k - 1]] = path[k]
      BY <2>4 DEF Follows
    <2> QED
      BY <2>3, <2>6, <2>7 DEF Stays
  <1> QED
    BY <1>1, <1>2

\* A walk that is back on its path has found a deadlock.
LEMMA CycleIsDeadlock ==
  ASSUME Follows(walk.path), walk.path # <<>>,
         blocker[walk.path[Len(walk.path)]] = walk.current, OnPath(walk.current)
  PROVE  /\ Deadlock(CycleNodes)
         /\ walk.current \in CycleNodes
         /\ \A q \in CycleNodes : OnPath(q)
  <1> DEFINE path == walk.path
             n == Len(path)
             first == CHOOSE i \in 1 .. n : path[i] = walk.current
  <1>1. first \in 1 .. n /\ path[first] = walk.current
    BY DEF OnPath
  <1>2. CycleNodes = {path[i] : i \in first .. n}
    BY DEF CycleNodes
  <1> HIDE DEF first
  <1>3. n \in Nat /\ Follows(path) /\ path \in Seq(Edges) /\ blocker[path[n]] = path[first]
        /\ \A i \in 1 .. n : path[i] \in Edges
    BY <1>1 DEF Follows
  <1>4. \A i \in first .. n : i \in 1 .. n
    BY <1>1, <1>3
  <1>5. walk.current \in CycleNodes
    BY <1>1, <1>2, <1>3
  <1>6. \A q \in CycleNodes : OnPath(q)
    BY <1>2, <1>4 DEF OnPath
  <1>7. CycleNodes \subseteq Edges
    BY <1>2, <1>3, <1>4
  <1>8. \A p \in CycleNodes : blocker[p] \in CycleNodes
    <2> TAKE p \in CycleNodes
    <2>1. PICK i \in first .. n : p = path[i]
      BY <1>2
    <2>2. CASE i = n
      BY <1>1, <1>3, <1>5, <2>1, <2>2
    <2>3. CASE i # n
      <3>1. i \in 1 .. n /\ i < n /\ i + 1 \in first .. n
        BY <1>1, <1>3, <2>1, <2>3
      <3>2. blocker[p] = path[i + 1]
        BY <1>3, <2>1, <3>1 DEF Follows
      <3> QED
        BY <1>2, <3>1, <3>2
    <2> QED
      BY <2>2, <2>3
  <1>9. ASSUME NEW p \in CycleNodes, NEW q \in CycleNodes, NEW d \in SUBSET CycleNodes,
               p \in d, \A r \in d : blocker[r] \in d
        PROVE  q \in d
    <2>1. PICK i \in first .. n, j \in first .. n : p = path[i] /\ q = path[j]
      BY <1>2
    <2>2. i \in 1 .. n /\ j \in 1 .. n /\ i <= n /\ n \in 1 .. n /\ first <= j
      BY <1>1, <1>3, <2>1
    <2>3. Stays(d)
      BY <1>9 DEF Stays
    <2>4. path[n] \in d
      BY <1>3, <1>9, <2>1, <2>2, <2>3, PathStays
    <2>5. path[first] \in d
      BY <1>3, <2>3, <2>4 DEF Stays
    <2> QED
      BY <1>1, <1>3, <2>1, <2>2, <2>3, <2>5, PathStays
  <1> QED
    BY <1>5, <1>6, <1>7, <1>8, <1>9 DEF Deadlock

-----------------------------------------------------------------------------
\* Before the first walk nothing was found, and every waiter is a start.
LEMMA BlockStarts ==
  BlockInit => BlockInv
  <1> SUFFICES ASSUME BlockInit PROVE BlockInv
    OBVIOUS
  <1> USE DEF BlockInit
  <1>1. walk.left \subseteq Backend /\ walk.current = Nobody /\ walk.path = <<>>
    OBVIOUS
  <1>2. WalkIsPath
    BY DEF WalkIsPath
  <1>3. deadlocks = <<>> /\ Len(deadlocks) = 0
    OBVIOUS
  <1>4. visitedAll = UNION {deadlocks[i] : i \in 1 .. Len(deadlocks)}
    BY <1>3
  <1>5. FoundAreDeadlocks
    BY <1>3, <1>4 DEF FoundAreDeadlocks
  <1>6. Edges \subseteq walk.left
    BY DEF Edges, Waiting
  <1>7. NonePassedBy
    BY <1>6 DEF NonePassedBy, Deadlock
  <1> QED
    BY <1>2, <1>5, <1>7 DEF BlockInv

\* A walk starts, goes on, leaves or finds a deadlock.
LEMMA BlockGoesOn ==
  BlockInv /\ [BlockNext]_blockVars => BlockInv'
  <1> SUFFICES ASSUME BlockInv, [BlockNext]_blockVars PROVE BlockInv'
    OBVIOUS
  <1> USE DEF BlockInv
  <1>0. walk = [left |-> walk.left, current |-> walk.current, path |-> walk.path]
        /\ walk.left \in SUBSET Backend /\ walk.path \in Seq(Backend)
        /\ walk.current \in Backend \cup {Nobody, Outside}
    BY DEF WalkIsPath
  <1>s. ASSUME NEW c \in SUBSET Backend, Deadlock(c), NEW p \in c, p \in visitedAll
        PROVE  InReport(c)
    <2>1. PICK i \in 1 .. Len(deadlocks) : p \in deadlocks[i]
      BY <1>s DEF FoundAreDeadlocks
    <2>2. Deadlock(deadlocks[i])
      BY <2>1 DEF FoundAreDeadlocks
    <2> QED
      BY <1>s, <2>1, <2>2, DeadlocksApart DEF InReport
  <1>1. ASSUME NEW p \in Backend, WalkFrom(p) PROVE BlockInv'
    <2>1. UNCHANGED <<blocker, visitedAll, deadlocks>>
      BY <1>1 DEF WalkFrom
    <2>2. walk.current = Nobody /\ p \in walk.left
          /\ walk' = [left |-> walk.left \ {p}, path |-> <<>>,
                      current |-> IF p \in visitedAll THEN Nobody ELSE p]
      BY <1>1 DEF WalkFrom
    <2>3. walk'.left = walk.left \ {p} /\ walk'.path = <<>>
          /\ walk'.current = IF p \in visitedAll THEN Nobody ELSE p
      BY <2>2
    <2>4. WalkIsPath'
      BY <1>0, <2>1, <2>2, <2>3 DEF WalkIsPath, Follows
    <2>5. FoundAreDeadlocks'
      <3>1. Edges' = Edges
        BY <2>1 DEF Edges, Waiting
      <3>2. \A c : Deadlock(c)' = Deadlock(c)
        BY <2>1, <3>1 DEF Deadlock
      <3> QED
        BY <2>1, <3>2 DEF FoundAreDeadlocks
    <2>6. ASSUME NEW c \in SUBSET Backend, Deadlock(c)
          PROVE  InReport(c) \/ c \subseteq walk'.left \/ walk'.current \in c
      <3>1. InReport(c) \/ c \subseteq walk.left \/ Nobody \in c
        BY <2>2, <2>6 DEF NonePassedBy
      <3>2. Nobody \notin c
        BY <2>6, BackendAssumption DEF Nobody
      <3>3. CASE p \in c /\ p \in visitedAll
        BY <1>s, <2>6, <3>3
      <3>4. CASE p \in c /\ p \notin visitedAll
        BY <2>3, <3>4
      <3>5. CASE p \notin c
        BY <2>3, <3>1, <3>2, <3>5
      <3> QED
        BY <3>3, <3>4, <3>5
    <2>7. NonePassedBy'
      BY <2>1, <2>6 DEF NonePassedBy, Deadlock, Edges, Waiting, InReport
    <2> QED
      BY <2>1, <2>4, <2>5, <2>7
  <1>2. CASE WalkOn
    <2>1. UNCHANGED <<blocker, visitedAll, deadlocks>>
      BY <1>2 DEF WalkOn
    <2>2. walk.current # Nobody /\ walk.current \in Edges /\ walk.current \notin visitedAll
          /\ walk' = [walk EXCEPT !.path = Append(@, walk.current),
                                  !.current = blocker[walk.current]]
      BY <1>2 DEF WalkOn
    <2>3. walk'.left = walk.left /\ walk'.path = Append(walk.path, walk.current)
          /\ walk'.current = blocker[walk.current]
          /\ walk' = [left |-> walk'.left, current |-> walk'.current, path |-> walk'.path]
      BY <1>0, <2>2
    <2>4. walk.current \in Backend /\ walk'.current \in Backend \cup {Nobody, Outside}
      BY <2>2, <2>3 DEF Edges
    <2>5. walk'.path \in Seq(Backend) /\ Follows(walk'.path)
          /\ (walk'.path # <<>> => blocker[walk'.path[Len(walk'.path)]] = walk'.current)
          /\ \A i \in 1 .. Len(walk'.path) : walk'.path[i] \notin visitedAll
      <3> DEFINE path == walk.path
                 n == Len(path)
      <3>1. path \in Seq(Edges) /\ n \in Nat
            /\ (\A i \in 1 .. n : i < n => blocker[path[i]] = path[i + 1])
            /\ (n > 0 => blocker[path[n]] = walk.current)
            /\ \A i \in 1 .. n : path[i] \notin visitedAll
        BY <2>2 DEF WalkIsPath, Follows
      <3>2. walk'.path \in Seq(Edges) /\ Len(walk'.path) = n + 1
            /\ walk'.path[n + 1] = walk.current
            /\ \A i \in 1 .. n : walk'.path[i] = path[i]
        BY <2>2, <2>3, <3>1
      <3>3. walk'.path \in Seq(Backend)
        <4>1. walk.path \in Seq(Backend)
          BY <1>0
        <4> QED
          BY <2>3, <2>4, <4>1
      <3>4. \A i \in 1 .. n : i < n => blocker[walk'.path[i]] = walk'.path[i + 1]
        <4> SUFFICES ASSUME NEW i \in 1 .. n, i < n
                     PROVE  blocker[walk'.path[i]] = walk'.path[i + 1]
          OBVIOUS
        <4>1. i + 1 \in 1 .. n
          BY <3>1
        <4>2. walk'.path[i] = path[i] /\ walk'.path[i + 1] = path[i + 1]
          BY <3>2, <4>1
        <4> QED
          BY <3>1, <4>2
      <3>5. n > 0 => blocker[walk'.path[n]] = walk'.path[n + 1]
        BY <3>1, <3>2
      <3>6. \A i \in 1 .. (n + 1) : i < n + 1 => blocker[walk'.path[i]] = walk'.path[i + 1]
        BY <3>1, <3>4, <3>5
      <3>7. \A i \in 1 .. (n + 1) : walk'.path[i] \notin visitedAll
        BY <2>2, <3>1, <3>2
      <3> QED
        BY <2>3, <3>2, <3>3, <3>6, <3>7 DEF Follows
    <2>6. WalkIsPath'
      BY <1>0, <2>1, <2>3, <2>4, <2>5 DEF WalkIsPath, Follows, Edges, Waiting
    <2>7. FoundAreDeadlocks'
      BY <2>1 DEF FoundAreDeadlocks, Deadlock, Edges, Waiting
    <2>8. ASSUME NEW c \in SUBSET Backend, Deadlock(c)
          PROVE  InReport(c) \/ c \subseteq walk'.left \/ walk'.current \in c
      BY <2>3, <2>8 DEF NonePassedBy, Deadlock
    <2>9. NonePassedBy'
      BY <2>1, <2>8 DEF NonePassedBy, Deadlock, Edges, Waiting, InReport
    <2> QED
      BY <2>1, <2>6, <2>7, <2>9
  <1>3. CASE WalkLeaves
    <2>1. UNCHANGED <<blocker, visitedAll, deadlocks>>
      BY <1>3 DEF WalkLeaves
    <2>2. (walk.current \notin Edges \/ walk.current \in visitedAll)
          /\ walk' = [walk EXCEPT !.current = Nobody]
      BY <1>3 DEF WalkLeaves
    <2>3. walk' = [left |-> walk.left, current |-> Nobody, path |-> walk.path]
          /\ walk'.left = walk.left /\ walk'.current = Nobody /\ walk'.path = walk.path
      BY <1>0, <2>2
    <2>4. WalkIsPath'
      BY <1>0, <2>3 DEF WalkIsPath
    <2>5. FoundAreDeadlocks'
      <3>1. Edges' = Edges
        BY <2>1 DEF Edges, Waiting
      <3>2. \A c : Deadlock(c)' = Deadlock(c)
        BY <2>1, <3>1 DEF Deadlock
      <3> QED
        BY <2>1, <3>2 DEF FoundAreDeadlocks
    <2>6. ASSUME NEW c \in SUBSET Backend, Deadlock(c)
          PROVE  InReport(c) \/ c \subseteq walk'.left \/ walk'.current \in c
      <3>1. InReport(c) \/ c \subseteq walk.left \/ walk.current \in c
        BY <2>6 DEF NonePassedBy
      <3>2. CASE walk.current \in c
        <4>1. walk.current \in visitedAll
          BY <2>2, <2>6, <3>2 DEF Deadlock
        <4> QED
          BY <1>s, <2>6, <3>2, <4>1
      <3> QED
        BY <2>3, <3>1, <3>2
    <2>7. NonePassedBy'
      BY <2>1, <2>6 DEF NonePassedBy, Deadlock, Edges, Waiting, InReport
    <2> QED
      BY <2>1, <2>4, <2>5, <2>7
  <1>4. CASE CycleFound
    <2> DEFINE cycleRows == CycleNodes
               n == Len(deadlocks)
    <2>1. walk.current # Nobody /\ walk.current \in Edges /\ OnPath(walk.current)
          /\ deadlocks' = Append(deadlocks, cycleRows)
          /\ visitedAll' = visitedAll \cup cycleRows
          /\ walk' = [walk EXCEPT !.current = Nobody]
          /\ UNCHANGED blocker
      BY <1>4 DEF CycleFound
    <2>2. walk.path # <<>>
      BY <2>1 DEF OnPath
    <2>3. Deadlock(cycleRows) /\ walk.current \in cycleRows /\ \A q \in cycleRows : OnPath(q)
      BY <2>1, <2>2, CycleIsDeadlock DEF WalkIsPath
    <2> HIDE DEF cycleRows
    <2>4. cycleRows \in SUBSET Backend /\ \A q \in cycleRows : q \notin visitedAll
      <3>1. \A i \in 1 .. Len(walk.path) : walk.path[i] \notin visitedAll
        BY <2>1 DEF WalkIsPath
      <3>2. \A q \in cycleRows : q \notin visitedAll
        BY <2>3, <3>1 DEF OnPath
      <3> QED
        BY <2>3, <3>2 DEF Deadlock, Edges
    <2>5. walk' = [left |-> walk.left, current |-> Nobody, path |-> walk.path]
          /\ walk'.left = walk.left /\ walk'.current = Nobody
      BY <1>0, <2>1
    <2>6. WalkIsPath'
      BY <1>0, <2>5 DEF WalkIsPath
    <2>7. deadlocks' \in Seq(SUBSET Backend) /\ n \in Nat /\ Len(deadlocks') = n + 1
          /\ deadlocks'[n + 1] = cycleRows /\ \A i \in 1 .. n : deadlocks'[i] = deadlocks[i]
      BY <2>1, <2>4 DEF FoundAreDeadlocks
    <2>8. \A i \in 1 .. n : Deadlock(deadlocks[i]) /\ deadlocks[i] \subseteq visitedAll
      BY DEF FoundAreDeadlocks
    <2>9. \A i \in 1 .. n : deadlocks[i] # cycleRows
      BY <2>3, <2>4, <2>8
    <2>10. \A i \in 1 .. (n + 1) : Deadlock(deadlocks'[i])
      BY <2>3, <2>7, <2>8
    <2>11. \A i, j \in 1 .. (n + 1) : deadlocks'[i] = deadlocks'[j] => i = j
      <3>1. \A i, j \in 1 .. n : deadlocks'[i] = deadlocks'[j] => i = j
        BY <2>7 DEF FoundAreDeadlocks
      <3> QED
        BY <2>7, <2>9, <3>1
    <2>12. visitedAll' = UNION {deadlocks'[i] : i \in 1 .. (n + 1)}
      <3>1. \A q : q \in visitedAll <=> \E i \in 1 .. n : q \in deadlocks[i]
        BY DEF FoundAreDeadlocks
      <3>2. \A q : q \in visitedAll' <=> \E i \in 1 .. (n + 1) : q \in deadlocks'[i]
        BY <2>1, <2>7, <3>1
      <3> QED
        BY <3>2
    <2>13. FoundAreDeadlocks'
      <3>1. (\A i \in 1 .. Len(deadlocks) : Deadlock(deadlocks[i]))'
        <4>1. Edges' = Edges
          BY <2>1 DEF Edges, Waiting
        <4>2. \A c : Deadlock(c) =>
                /\ c # {} /\ c \subseteq Edges'
                /\ \A p \in c : blocker'[p] \in c
                /\ \A p, q \in c : \A d \in SUBSET c :
                      (p \in d /\ \A r \in d : blocker'[r] \in d) => q \in d
          BY <2>1, <4>1 DEF Deadlock
        <4> QED
          BY <2>7, <2>10, <4>2 DEF Deadlock
      <3>2. (\A i, j \in 1 .. Len(deadlocks) : deadlocks[i] = deadlocks[j] => i = j)'
        BY <2>7, <2>11
      <3>3. (visitedAll = UNION {deadlocks[i] : i \in 1 .. Len(deadlocks)})'
        BY <2>7, <2>12
      <3> QED
        BY <2>7, <3>1, <3>2, <3>3 DEF FoundAreDeadlocks
    <2>14. ASSUME NEW c \in SUBSET Backend, Deadlock(c)
           PROVE  (\E i \in 1 .. (n + 1) : deadlocks'[i] = c) \/ c \subseteq walk.left
      <3>1. CASE walk.current \in c
        <4>1. c = cycleRows
          BY <2>3, <2>14, <3>1, DeadlocksApart
        <4> QED
          BY <2>7, <4>1
      <3>2. CASE InReport(c)
        BY <2>7, <3>2 DEF InReport
      <3> QED
        BY <2>14, <3>1, <3>2 DEF NonePassedBy
    <2>15. NonePassedBy'
      BY <2>1, <2>5, <2>7, <2>14 DEF NonePassedBy, Deadlock, Edges, Waiting, InReport
    <2> QED
      BY <2>1, <2>6, <2>13, <2>15
  <1>5. CASE UNCHANGED blockVars
    <2>1. /\ blocker' = blocker /\ walk' = walk
          /\ visitedAll' = visitedAll /\ deadlocks' = deadlocks
      BY <1>5 DEF blockVars
    <2>2. WalkIsPath'
      BY <2>1 DEF WalkIsPath, Follows, Edges, Waiting
    <2>3. FoundAreDeadlocks' /\ NonePassedBy'
      BY <2>1 DEF FoundAreDeadlocks, NonePassedBy, InReport, Deadlock, Edges, Waiting
    <2> QED
      BY <2>1, <2>2, <2>3
  <1> QED
    BY <1>1, <1>2, <1>3, <1>4, <1>5 DEF BlockNext

\* BlockSafety (analyzeBlockStatus, findCycle): for any backends, any waits among
\* them and any order of the walks, the deadlocks found are those there are, once
\* each, and alarms are raised for rows whose end frees others.
THEOREM DeadlocksAreFound ==
  BlockSpec => []BlockSafety
  <1>1. BlockInv => BlockSafety
    <2> SUFFICES ASSUME BlockInv PROVE DeadlocksExact /\ AlarmsAreRoots
      BY DEF BlockSafety
    <2> USE DEF BlockInv
    <2>1. Nobody \notin Backend
      BY BackendAssumption DEF Nobody
    <2>2. ASSUME walk.left = {}, walk.current = Nobody, NEW c \in SUBSET Backend, Deadlock(c)
          PROVE  \E i \in 1 .. Len(deadlocks) : deadlocks[i] = c
      BY <2>1, <2>2 DEF NonePassedBy, Deadlock, InReport
    <2>3. DeadlocksExact
      BY <2>2 DEF DeadlocksExact, FoundAreDeadlocks
    <2>4. \A p \in Alarmed : ~Waiting(p) /\ Holding(p)
      BY DEF Alarmed, BlockRole
    <2>5. AlarmsAreRoots
      BY <2>1, <2>4 DEF AlarmsAreRoots, Alarmed, Waiting, Holding
    <2> QED
      BY <2>3, <2>5
  <1> QED
    BY <1>1, BlockStarts, BlockGoesOn, PTL DEF BlockSpec

-----------------------------------------------------------------------------
(* The keys and the sessions they end (SelectionView).                       *)

\* The values of the state: the server, the panel, the screen, the keys' loop
\* and what a prompt is about.
SessionServer == [on : [Thread -> 0..MaxSession], waits : [Thread -> Thread \cup {0}],
           last : 0..MaxSession]

RowPanel == [view : {"session", "memory"}, rows : SUBSET Row, flight : BOOLEAN,
             read : SUBSET Row]

KeyScreen == [pump : {"none", "key", "q"}, told : BOOLEAN, queue : Seq({"key", "q"}),
              pressed : BOOLEAN]

KeyLoop == [pc : {"loop", "view", "wait", "act", "prompt", "details", "menu", "page",
                  "kill", "kill holder", "quit"}, yes : BOOLEAN]

Choice == [kill : {"none", "session", "same sql", "thread", "holder"},
           row : [pid : Thread \cup {0}, sid : 0..MaxSession],
           holder : Thread \cup {0}, since : SUBSET Thread]

SelectionTypes ==
  /\ db \in SessionServer /\ panel \in RowPanel /\ keys \in KeyLoop /\ chosen \in Choice
  /\ screen \in KeyScreen /\ Len(screen.queue) <= QueueSize
  /\ quit \in BOOLEAN

\* The details and the kill of a holder are about a row with a thread.
RowKnown ==
  /\ keys.pc \in {"details", "menu", "page"} =>
       chosen.row.pid \in Thread /\ chosen.kill = "none"
  /\ chosen.kill = "holder" => chosen.row.pid \in Thread /\ chosen.holder \in Thread

\* From the confirmation on, whoever blocks the row's thread is remembered; the
\* holder about to be ended is one of them or the row's own thread.
HolderRemembered ==
  /\ keys.pc = "kill" /\ chosen.kill = "holder" =>
       db.waits[chosen.row.pid] \in chosen.since \cup {0}
  /\ keys.pc = "kill holder" =>
       chosen.kill = "holder" /\ chosen.holder \in chosen.since \cup {chosen.row.pid}

SelectionInv == SelectionTypes /\ RowKnown /\ HolderRemembered

-----------------------------------------------------------------------------
(* The steps keep it.                                                        *)

\* Thread 0 is none, session 0 is no session.
LEMMA ZeroIsNone ==
  /\ 0 \notin Thread /\ 0 \in 0..MaxSession /\ 1..MaxSession \subseteq 0..MaxSession
  /\ 0 <= QueueSize
  /\ NoChoice \in Choice
  /\ \A picked : picked.pid \in Thread => picked # NoRow
  <1>1. /\ 0 \notin Thread /\ 0 \in 0..MaxSession /\ 1..MaxSession \subseteq 0..MaxSession
        /\ 0 <= QueueSize
    BY SelectionAssumption
  <1>2. NoRow.pid = 0 /\ NoRow \in [pid : Thread \cup {0}, sid : 0..MaxSession]
    BY <1>1 DEF NoRow
  <1>3. NoChoice \in Choice
    BY <1>2 DEF NoChoice, Choice
  <1> QED
    BY <1>1, <1>2, <1>3

\* At the start nobody is connected and nothing is chosen.
LEMMA SelectionInitOK == SelectionInit => SelectionInv
  <1> SUFFICES ASSUME SelectionInit PROVE SelectionInv
    OBVIOUS
  <1> USE DEF SelectionInit
  <1>1. db \in SessionServer
    BY ZeroIsNone DEF SessionServer
  <1>2. panel \in RowPanel
    BY DEF RowPanel
  <1>3. screen \in KeyScreen /\ Len(screen.queue) = 0
    BY DEF KeyScreen
  <1>4. keys \in KeyLoop /\ chosen \in Choice /\ quit \in BOOLEAN
    BY ZeroIsNone DEF KeyLoop
  <1>5. RowKnown /\ HolderRemembered
    BY DEF RowKnown, HolderRemembered, NoChoice
  <1> QED
    BY <1>1, <1>2, <1>3, <1>4, <1>5, ZeroIsNone DEF SelectionInv, SelectionTypes

\* A step of the server remembers who blocks the row a confirmed kill is about.
LEMMA ServerKeepsChoice ==
  ASSUME SelectionInv, NEW d \in SessionServer, DbMoves(d), UNCHANGED <<panel, screen, keys, quit>>
  PROVE  SelectionInv'
  <1> USE DEF SelectionInv, SelectionTypes
  <1>1. CASE chosen.kill # "holder"
    <2>1. chosen' = chosen /\ db' = d
      BY <1>1 DEF DbMoves
    <2> QED
      BY <1>1, <2>1 DEF RowKnown, HolderRemembered
  <1>2. CASE chosen.kill = "holder"
    <2>1. chosen.row.pid \in Thread /\ chosen.row # NoRow
      BY <1>2, ZeroIsNone DEF RowKnown
    <2>2. Blocking(d, chosen.row) \subseteq Thread
          /\ d.waits[chosen.row.pid] \in Blocking(d, chosen.row) \cup {0}
      BY <2>1 DEF Blocking, SessionServer
    <2> DEFINE b == Blocking(d, chosen.row)
    <2> HIDE DEF b
    <2>3. /\ chosen' = [kill |-> chosen.kill, row |-> chosen.row, holder |-> chosen.holder,
                        since |-> chosen.since \cup b]
          /\ db' = d
      BY <1>2 DEF DbMoves, Choice, b
    <2>4. b \subseteq Thread /\ d.waits[chosen.row.pid] \in b \cup {0}
      BY <2>2 DEF b
    <2>5. chosen' \in Choice
      BY <2>3, <2>4 DEF Choice
    <2>6. RowKnown'
      BY <2>3 DEF RowKnown
    <2>7. HolderRemembered'
      BY <2>3, <2>4 DEF HolderRemembered
    <2> QED
      BY <2>3, <2>5, <2>6, <2>7
  <1> QED
    BY <1>1, <1>2

\* Ending sessions leaves a server.
LEMMA GoneIsServer ==
  ASSUME NEW d \in SessionServer, NEW gone PROVE SessionGone(d, gone) \in SessionServer
  <1>1. PICK on \in [Thread -> 0..MaxSession], blockedBy \in [Thread -> Thread \cup {0}],
             top \in 0..MaxSession : d = [on |-> on, waits |-> blockedBy, last |-> top]
    BY DEF SessionServer
  <1>2. PICK f \in [Thread -> 0..MaxSession] :
          f = [t \in Thread |-> IF t \in gone THEN 0 ELSE d.on[t]]
    BY <1>1, ZeroIsNone
  <1>3. PICK g \in [Thread -> Thread \cup {0}] :
          g = [t \in Thread |-> IF t \in gone \/ d.waits[t] \in gone THEN 0 ELSE d.waits[t]]
    BY <1>1
  <1>4. SessionGone(d, gone) = [d EXCEPT !.on = f, !.waits = g]
    BY <1>2, <1>3 DEF SessionGone
  <1>5. SessionGone(d, gone) = [on |-> f, waits |-> g, last |-> top]
    BY <1>1, <1>4
  <1> QED
    BY <1>5 DEF SessionServer

LEMMA ServerStepsKeep == SelectionInv /\ DbStep => SelectionInv'
  <1> SUFFICES ASSUME SelectionInv, NEW t \in Thread,
                      \/ SessionOpens(t) \/ Leaves(t)
                      \/ \E h \in Thread : Waits(t, h)
                      \/ Granted(t)
               PROVE  SelectionInv'
    BY DEF DbStep
  <1>0. db \in SessionServer
    BY DEF SelectionInv, SelectionTypes
  <1>1. CASE SessionOpens(t)
    <2> DEFINE d == [db EXCEPT !.on[t] = db.last + 1, !.last = @ + 1]
    <2>1. PICK on \in [Thread -> 0..MaxSession], blockedBy \in [Thread -> Thread \cup {0}],
               top \in 0..MaxSession : db = [on |-> on, waits |-> blockedBy, last |-> top]
      BY <1>0 DEF SessionServer
    <2>2. PICK n \in 0..MaxSession : n = top + 1
      BY <1>1, <2>1, SelectionAssumption DEF SessionOpens
    <2>3. PICK f \in [Thread -> 0..MaxSession] : f = [db.on EXCEPT ![t] = db.last + 1]
      BY <2>1, <2>2
    <2>4. PICK z : z = [db EXCEPT !.on[t] = db.last + 1]
      OBVIOUS
    <2>5. z = [on |-> f, waits |-> blockedBy, last |-> top]
      BY <2>1, <2>3, <2>4
    <2>6. d = [z EXCEPT !.last = @ + 1]
      BY <2>4
    <2>7. d = [on |-> f, waits |-> blockedBy, last |-> n]
      BY <2>2, <2>5, <2>6
    <2>8. d \in SessionServer
      BY <2>7 DEF SessionServer
    <2>9. DbMoves(d) /\ UNCHANGED <<panel, screen, keys, quit>>
      BY <1>1 DEF SessionOpens
    <2> QED
      BY <2>8, <2>9, ServerKeepsChoice
  <1>2. CASE Leaves(t)
    <2>1. SessionGone(db, {t}) \in SessionServer
      BY <1>0, GoneIsServer
    <2>2. DbMoves(SessionGone(db, {t})) /\ UNCHANGED <<panel, screen, keys, quit>>
      BY <1>2 DEF Leaves
    <2> QED
      BY <2>1, <2>2, ServerKeepsChoice
  <1>3. ASSUME NEW h \in Thread, Waits(t, h) PROVE SelectionInv'
    <2> DEFINE d == [db EXCEPT !.waits[t] = h]
    <2>1. d = [on |-> db.on, waits |-> [db.waits EXCEPT ![t] = h], last |-> db.last]
      BY <1>0 DEF SessionServer
    <2>2. d \in SessionServer
      BY <1>0, <2>1 DEF SessionServer
    <2>3. DbMoves(d) /\ UNCHANGED <<panel, screen, keys, quit>>
      BY <1>3 DEF Waits
    <2> QED
      BY <2>2, <2>3, ServerKeepsChoice
  <1>4. CASE Granted(t)
    <2> DEFINE d == [db EXCEPT !.waits[t] = 0]
    <2>1. d = [on |-> db.on, waits |-> [db.waits EXCEPT ![t] = 0], last |-> db.last]
      BY <1>0 DEF SessionServer
    <2>2. d \in SessionServer
      BY <1>0, <2>1 DEF SessionServer
    <2>3. DbMoves(d) /\ UNCHANGED <<panel, screen, keys, quit>>
      BY <1>4 DEF Granted
    <2> QED
      BY <2>2, <2>3, ServerKeepsChoice
  <1> QED
    BY <1>1, <1>2, <1>3, <1>4

\* A refresh reads rows of the server and publishes what it read.
LEMMA RefreshesKeep == SelectionInv /\ RefreshesStep => SelectionInv'
  <1> SUFFICES ASSUME SelectionInv, RefreshesStep PROVE SelectionInv'
    OBVIOUS
  <1>1. panel' \in RowPanel
    BY DEF SelectionInv, SelectionTypes, RefreshesStep, RowsRead, RowsPublished, Rows, RowPanel
  <1>2. UNCHANGED <<db, screen, keys, chosen, quit>>
    BY DEF RefreshesStep, RowsRead, RowsPublished
  <1> QED
    BY <1>1, <1>2 DEF SelectionInv, SelectionTypes, RowKnown, HolderRemembered

\* The pump keeps the queue within its size.
LEMMA PumpKeeps == SelectionInv /\ (Polled \/ PumpStep) => SelectionInv'
  <1> SUFFICES ASSUME SelectionInv, Polled \/ NotifyQuit \/ Forwards PROVE SelectionInv'
    BY DEF PumpStep
  <1>1. PICK s \in KeyScreen : s = screen
    BY DEF SelectionInv, SelectionTypes
  <1>2. screen' \in KeyScreen /\ Len(screen'.queue) <= QueueSize
    <2> USE DEF SelectionInv, SelectionTypes
    <2>1. CASE Polled
      <3>1. PICK p \in {"key", "q"}, b \in BOOLEAN :
              screen' = [pump |-> p, told |-> FALSE, queue |-> s.queue, pressed |-> b]
        BY <1>1, <2>1 DEF Polled, KeyScreen
      <3> QED
        BY <1>1, <3>1 DEF KeyScreen
    <2>2. CASE NotifyQuit
      <3>1. screen' = [pump |-> s.pump, told |-> TRUE, queue |-> s.queue,
                       pressed |-> s.pressed]
        BY <1>1, <2>2 DEF NotifyQuit, KeyScreen
      <3> QED
        BY <1>1, <3>1 DEF KeyScreen
    <2>3. CASE Forwards
      <3>1. s.pump \in {"key", "q"} /\ s.queue \in Seq({"key", "q"}) /\ Len(s.queue) < QueueSize
        BY <1>1, <2>3 DEF Forwards, KeyScreen
      <3>0. Append(s.queue, s.pump) \in Seq({"key", "q"})
        BY <3>1
      <3>2. PICK q \in Seq({"key", "q"}) : q = Append(s.queue, s.pump)
        BY <3>0
      <3>3. Len(q) = Len(s.queue) + 1 /\ Len(s.queue) \in Nat
        BY <3>1, <3>2
      <3>4. screen' = [pump |-> "none", told |-> s.told, queue |-> q, pressed |-> s.pressed]
        BY <1>1, <2>3, <3>2 DEF Forwards, KeyScreen
      <3>5. Len(q) <= QueueSize
        BY <3>1, <3>3, SelectionAssumption
      <3> QED
        BY <3>4, <3>5 DEF KeyScreen
    <2> QED
      BY <2>1, <2>2, <2>3
  <1>3. UNCHANGED <<db, panel, keys, chosen>> /\ quit' \in BOOLEAN
    BY DEF SelectionInv, SelectionTypes, Polled, NotifyQuit, Forwards
  <1> QED
    BY <1>2, <1>3 DEF SelectionInv, SelectionTypes, RowKnown, HolderRemembered

\* The steps that leave nothing chosen.
LEMMA NothingChosen ==
  ASSUME keys'.pc \notin {"details", "menu", "page", "kill holder"}, chosen' = NoChoice
  PROVE  chosen' \in Choice /\ RowKnown' /\ HolderRemembered'
  BY ZeroIsNone DEF NoChoice, RowKnown, HolderRemembered

\* A flushed queue is empty.
LEMMA FlushedScreen ==
  ASSUME screen \in KeyScreen,
         Len(screen.queue) <= QueueSize, screen' = screen \/ Flushed
  PROVE  screen' \in KeyScreen /\ Len(screen'.queue) <= QueueSize
  <1>1. CASE Flushed
    <2>1. PICK s \in KeyScreen : s = screen
      OBVIOUS
    <2>2. screen' = [pump |-> s.pump, told |-> s.told, queue |-> <<>>, pressed |-> s.pressed]
      BY <1>1, <2>1 DEF Flushed, KeyScreen
    <2> QED
      BY <2>2, SelectionAssumption DEF KeyScreen
  <1> QED
    BY <1>1

\* The loops around the prompt touch nothing a kill depends on.
LEMMA LoopsKeep ==
  ASSUME SelectionInv,
         \/ LoopLooks \/ LoopKey \/ SubViewLooks \/ SubViewKey \/ SubViewStays \/ PageKey
  PROVE  SelectionInv'
  <1> USE DEF SelectionInv, SelectionTypes
  <1>1. UNCHANGED <<db, panel, chosen>> /\ quit' \in BOOLEAN
    BY DEF LoopLooks, LoopKey, SubViewLooks, SubViewKey, SubViewStays, PageKey
  <1>2. PICK s \in KeyScreen : s = screen
    OBVIOUS
  <1>3. screen' \in KeyScreen /\ Len(screen'.queue) <= QueueSize
    <2>1. CASE screen' = screen
      BY <2>1
    <2>2. CASE GetKey
      <3>1. PICK q \in Seq({"key", "q"}) : q = Tail(s.queue) /\ Len(q) <= Len(s.queue)
        BY <1>2, <2>2 DEF GetKey, KeyScreen
      <3>2. screen' = [pump |-> s.pump, told |-> s.told, queue |-> q, pressed |-> s.pressed]
        BY <1>2, <2>2, <3>1 DEF GetKey, KeyScreen
      <3>3. Len(q) <= QueueSize
        BY <1>2, <3>1, SelectionAssumption DEF KeyScreen
      <3> QED
        BY <3>2, <3>3 DEF KeyScreen
    <2>3. CASE Flushed
      BY <2>3, FlushedScreen
    <2> QED
      BY <2>1, <2>2, <2>3
      DEF LoopLooks, LoopKey, SubViewLooks, SubViewKey, SubViewStays, PageKey, GetKeyAndFlush,
          Flushed
  <1>4. PICK k \in KeyLoop : k = keys
    OBVIOUS
  <1>5. PICK at \in {"loop", "view", "wait", "act", "details", "quit"} :
          Goes(at) /\ (at = "details" => k.pc = "page")
    BY <1>4 DEF LoopLooks, LoopKey, SubViewLooks, SubViewKey, SubViewStays, PageKey
  <1>6. keys' = [pc |-> at, yes |-> k.yes]
    BY <1>4, <1>5 DEF Goes, KeyLoop
  <1>7. keys' \in KeyLoop
    BY <1>6 DEF KeyLoop
  <1>8. RowKnown' /\ HolderRemembered'
    BY <1>1, <1>4, <1>5, <1>6 DEF RowKnown, HolderRemembered
  <1> QED
    BY <1>1, <1>3, <1>7, <1>8

\* A choice starts from a row of the panel.
LEMMA ChoicesKeep ==
  ASSUME SelectionInv, ChooseRow \/ ChooseMemoryRow \/ ShowDetails
  PROVE  SelectionInv'
  <1> USE DEF SelectionInv, SelectionTypes
  <1>1. screen' \in KeyScreen /\ Len(screen'.queue) <= QueueSize
    BY FlushedScreen DEF ChooseRow, ChooseMemoryRow, ShowDetails
  <1>2. UNCHANGED <<db, panel, quit>>
    BY DEF ChooseRow, ChooseMemoryRow, ShowDetails
  <1>3. PICK picked \in panel.rows, way \in {"none", "session", "same sql", "thread"},
             p \in Thread \cup {0}, at \in {"prompt", "details"}, yes \in BOOLEAN :
          /\ chosen' = [kill |-> way, row |-> [pid |-> p, sid |-> picked.sid],
                        holder |-> 0, since |-> {}]
          /\ keys' = [pc |-> at, yes |-> yes]
          /\ at = "details" => way = "none" /\ p = picked.pid
    <2>0. panel.rows \subseteq Row /\ \A picked \in panel.rows : picked.pid \in Thread
      BY DEF RowPanel, Row
    <2>1. CASE ChooseRow
      <3>1. PICK picked \in panel.rows, way \in {"session", "same sql"} :
              chosen' = [NoChoice EXCEPT !.kill = way, !.row = picked]
        BY <2>1 DEF ChooseRow
      <3>2. picked = [pid |-> picked.pid, sid |-> picked.sid]
        BY <2>0 DEF Row
      <3>3. chosen' = [kill |-> way, row |-> [pid |-> picked.pid, sid |-> picked.sid],
                       holder |-> 0, since |-> {}]
        BY <3>1, <3>2 DEF NoChoice
      <3>4. keys' = [pc |-> "prompt", yes |-> FALSE]
        BY <2>1 DEF ChooseRow
      <3> QED
        BY <2>0, <3>3, <3>4
    <2>2. CASE ChooseMemoryRow
      <3>1. PICK picked \in panel.rows :
              \/ chosen' = [NoChoice EXCEPT !.kill = "session", !.row = [picked EXCEPT !.pid = 0]]
              \/ chosen' = [NoChoice EXCEPT !.kill = "thread", !.row = picked]
        BY <2>2 DEF ChooseMemoryRow
      <3>2. /\ picked = [pid |-> picked.pid, sid |-> picked.sid]
            /\ [picked EXCEPT !.pid = 0] = [pid |-> 0, sid |-> picked.sid]
        BY <2>0 DEF Row
      <3>3. \/ chosen' = [kill |-> "session", row |-> [pid |-> 0, sid |-> picked.sid],
                          holder |-> 0, since |-> {}]
            \/ chosen' = [kill |-> "thread", row |-> [pid |-> picked.pid, sid |-> picked.sid],
                          holder |-> 0, since |-> {}]
        BY <3>1, <3>2 DEF NoChoice
      <3>4. keys' = [pc |-> "prompt", yes |-> FALSE]
        BY <2>2 DEF ChooseMemoryRow
      <3> QED
        BY <2>0, <3>3, <3>4
    <2>3. CASE ShowDetails
      <3>1. PICK picked \in panel.rows : chosen' = [NoChoice EXCEPT !.row = picked]
        BY <2>3 DEF ShowDetails
      <3>2. picked = [pid |-> picked.pid, sid |-> picked.sid]
        BY <2>0 DEF Row
      <3>3. chosen' = [kill |-> "none", row |-> [pid |-> picked.pid, sid |-> picked.sid],
                       holder |-> 0, since |-> {}]
        BY <3>1, <3>2 DEF NoChoice
      <3>4. PICK yes \in BOOLEAN : keys' = [pc |-> "details", yes |-> yes]
        BY <2>3 DEF ShowDetails, Goes, KeyLoop
      <3> QED
        BY <2>0, <3>3, <3>4
    <2> QED
      BY <2>1, <2>2, <2>3
  <1>4. picked.pid \in Thread /\ picked.sid \in 0..MaxSession
    BY <1>3, ZeroIsNone DEF RowPanel, Row, Session
  <1>7. PICK r \in [pid : Thread \cup {0}, sid : 0..MaxSession] :
          r = [pid |-> p, sid |-> picked.sid]
    BY <1>3, <1>4
  <1>5. keys' \in KeyLoop /\ chosen' \in Choice
    <2>1. keys' \in KeyLoop
      BY <1>3 DEF KeyLoop
    <2>2. chosen' = [kill |-> way, row |-> r, holder |-> 0, since |-> {}]
      BY <1>3, <1>7
    <2>3. way \in {"none", "session", "same sql", "thread"}
      BY <1>3
    <2>4. chosen' \in Choice
      BY <2>2, <2>3 DEF Choice
    <2> QED
      BY <2>1, <2>4
  <1>6. RowKnown' /\ HolderRemembered'
    <2>1. keys'.pc = at /\ chosen'.kill = way /\ chosen'.row.pid = p
      BY <1>3
    <2>2. at \in {"prompt", "details"} /\ way # "holder"
      BY <1>3
    <2> QED
      BY <1>3, <1>4, <2>1, <2>2 DEF RowKnown, HolderRemembered
  <1> QED
    BY <1>1, <1>2, <1>5, <1>6

\* The answer of a prompt: a confirmed kill of a holder starts to remember.
LEMMA PromptKeeps == SelectionInv /\ Prompted => SelectionInv'
  <1> SUFFICES ASSUME SelectionInv, Prompted PROVE SelectionInv'
    OBVIOUS
  <1> USE DEF SelectionInv, SelectionTypes
  <1>1. screen' \in KeyScreen /\ Len(screen'.queue) <= QueueSize
    BY FlushedScreen DEF Prompted, GetKeyAndFlush, Flushed
  <1>2. UNCHANGED <<db, panel, quit>>
    BY DEF Prompted
  <1>3. PICK k \in KeyLoop : k = keys
    OBVIOUS
  <1>4. PICK at \in {"prompt", "kill", "view"}, yes \in BOOLEAN :
          keys' = [pc |-> at, yes |-> yes]
    BY <1>3 DEF Prompted, KeyLoop
  <1>5. keys' \in KeyLoop
    BY <1>4 DEF KeyLoop
  <1>6. CASE at = "view"
    <2>1. chosen' = NoChoice
      BY <1>4, <1>6 DEF Prompted
    <2> QED
      BY <1>1, <1>2, <1>4, <1>5, <1>6, <2>1, NothingChosen
  <1>7. CASE at = "kill" /\ chosen.kill = "holder"
    <2>1. chosen.row.pid \in Thread /\ chosen.holder \in Thread /\ chosen.row # NoRow
      BY <1>7, ZeroIsNone DEF RowKnown
    <2>2. PICK b \in SUBSET Thread :
            b = Blocking(db, chosen.row) /\ db.waits[chosen.row.pid] \in b \cup {0}
      <3>1. PICK w \in Thread \cup {0} : w = db.waits[chosen.row.pid]
        BY <2>1 DEF SessionServer
      <3>2. Blocking(db, chosen.row) = IF w # 0 THEN {w} ELSE {}
        BY <2>1, <3>1 DEF Blocking
      <3> QED
        BY <3>1, <3>2
    <2>3. chosen' = [kill |-> chosen.kill, row |-> chosen.row, holder |-> chosen.holder,
                     since |-> b]
      BY <1>4, <1>7, <2>2 DEF Prompted, Choice
    <2>4. chosen' \in Choice
      BY <2>3 DEF Choice
    <2>5. RowKnown' /\ HolderRemembered'
      BY <1>2, <1>4, <1>7, <2>1, <2>2, <2>3 DEF RowKnown, HolderRemembered
    <2> QED
      BY <1>1, <1>2, <1>5, <2>4, <2>5
  <1>8. CASE at # "view" /\ ~(at = "kill" /\ chosen.kill = "holder")
    <2>1. chosen' = chosen
      BY <1>4, <1>8 DEF Prompted
    <2>2. RowKnown' /\ HolderRemembered'
      BY <1>2, <1>4, <1>8, <2>1 DEF RowKnown, HolderRemembered
    <2> QED
      BY <1>1, <1>2, <1>5, <2>1, <2>2
  <1> QED
    BY <1>6, <1>7, <1>8

\* The details of a row and the menu below them.
LEMMA DetailsKeep ==
  ASSUME SelectionInv, DrawDetails \/ DetailKey \/ DetailKill
  PROVE  SelectionInv'
  <1> USE DEF SelectionInv, SelectionTypes
  <1>1. screen' \in KeyScreen /\ Len(screen'.queue) <= QueueSize
    BY FlushedScreen DEF DrawDetails, DetailKey, DetailKill, GetKeyAndFlush, Flushed
  <1>2. UNCHANGED <<db, panel, quit>>
    BY DEF DrawDetails, DetailKey, DetailKill
  <1>3. PICK k \in KeyLoop : k = keys
    OBVIOUS
  <1>4. PICK c \in Choice : c = chosen
    OBVIOUS
  <1>5. c.row.pid \in Thread /\ c.kill = "none" /\ k.pc \in {"details", "menu"}
    BY <1>3, <1>4 DEF DrawDetails, DetailKey, DetailKill, RowKnown
  <1>6. CASE DrawDetails
    <2>1. PICK h \in Thread \cup {0} : h = TreeRead(c.row)
      BY <1>5 DEF TreeRead, SessionServer
    <2>2. /\ chosen' = [kill |-> c.kill, row |-> c.row, holder |-> h, since |-> c.since]
          /\ keys' = [pc |-> "menu", yes |-> k.yes]
      BY <1>3, <1>4, <1>6, <2>1 DEF DrawDetails, Goes, Choice, KeyLoop
    <2>3. chosen' \in Choice /\ keys' \in KeyLoop
      BY <2>2 DEF Choice, KeyLoop
    <2>4. RowKnown' /\ HolderRemembered'
      BY <1>5, <2>2 DEF RowKnown, HolderRemembered
    <2> QED
      BY <1>1, <1>2, <2>3, <2>4
  <1>7. CASE DetailKey
    <2>1. CASE Goes("page") /\ UNCHANGED chosen
      <3>1. keys' = [pc |-> "page", yes |-> k.yes]
        BY <1>3, <2>1 DEF Goes, KeyLoop
      <3>2. keys' \in KeyLoop
        BY <3>1 DEF KeyLoop
      <3>3. RowKnown' /\ HolderRemembered'
        BY <1>4, <1>5, <2>1, <3>1 DEF RowKnown, HolderRemembered
      <3> QED
        BY <1>1, <1>2, <2>1, <3>2, <3>3
    <2>2. CASE Goes("view") /\ chosen' = NoChoice
      <3>1. keys' = [pc |-> "view", yes |-> k.yes]
        BY <1>3, <2>2 DEF Goes, KeyLoop
      <3>2. keys' \in KeyLoop
        BY <3>1 DEF KeyLoop
      <3> QED
        BY <1>1, <1>2, <2>2, <3>1, <3>2, NothingChosen
    <2> QED
      BY <1>7, <2>1, <2>2 DEF DetailKey
  <1>8. CASE DetailKill
    <2>1. PICK way \in {"session", "holder"} :
            /\ chosen' = [kill |-> way, row |-> c.row, holder |-> c.holder,
                          since |-> c.since]
            /\ way = "holder" => c.holder # 0
      BY <1>4, <1>8 DEF DetailKill, Choice
    <2>2. keys' = [pc |-> "prompt", yes |-> FALSE]
      BY <1>8 DEF DetailKill
    <2>3. chosen' \in Choice /\ keys' \in KeyLoop
      BY <2>1, <2>2 DEF Choice, KeyLoop
    <2>4. c.holder \in Thread \cup {0}
      BY DEF Choice
    <2>5. RowKnown' /\ HolderRemembered'
      BY <1>5, <2>1, <2>2, <2>4 DEF RowKnown, HolderRemembered
    <2> QED
      BY <1>1, <1>2, <2>3, <2>5
  <1> QED
    BY <1>6, <1>7, <1>8

\* A kill ends sessions and forgets the choice; that of a holder looks once more.
LEMMA KillsKeep ==
  ASSUME SelectionInv,
         KillSession \/ KillSameSql \/ KillThread \/ KillHolder \/ HolderRead
  PROVE  SelectionInv'
  <1> USE DEF SelectionInv, SelectionTypes
  <1>1. PICK k \in KeyLoop : k = keys
    OBVIOUS
  <1>2. ASSUME NEW gone, Killed(gone) PROVE SelectionInv'
    <2>1. db' \in SessionServer
      BY <1>2, GoneIsServer DEF Killed
    <2>2. keys' = [pc |-> "view", yes |-> k.yes] /\ UNCHANGED <<panel, screen, quit>>
      BY <1>1, <1>2 DEF Killed, Goes, KeyLoop
    <2>3. keys' \in KeyLoop /\ chosen' = NoChoice
      BY <1>2, <2>2 DEF KeyLoop, Killed
    <2> QED
      BY <2>1, <2>2, <2>3, NothingChosen
  <1>3. CASE HolderRead
    <2>1. UNCHANGED <<db, panel, screen, quit>>
      BY <1>3 DEF HolderRead
    <2>2. CASE Goes("view") /\ chosen' = NoChoice
      <3>1. keys' = [pc |-> "view", yes |-> k.yes]
        BY <1>1, <2>2 DEF Goes, KeyLoop
      <3>2. keys' \in KeyLoop
        BY <3>1 DEF KeyLoop
      <3> QED
        BY <2>1, <2>2, <3>1, <3>2, NothingChosen
    <2>3. CASE ~(Goes("view") /\ chosen' = NoChoice)
      <3>1. /\ Goes("kill holder") /\ chosen' = chosen
            /\ chosen.row.pid = chosen.holder \/ db.waits[chosen.row.pid] = chosen.holder
            /\ keys.pc = "kill" /\ chosen.kill = "holder"
        BY <1>3, <2>3 DEF HolderRead
      <3>2. keys' = [pc |-> "kill holder", yes |-> k.yes]
        BY <1>1, <3>1 DEF Goes, KeyLoop
      <3>3. keys' \in KeyLoop
        BY <3>2 DEF KeyLoop
      <3>4. chosen.holder \in Thread /\ chosen.holder # 0
        BY <3>1, SelectionAssumption DEF RowKnown
      <3>5. chosen.holder \in chosen.since \cup {chosen.row.pid}
        BY <3>1, <3>4 DEF HolderRemembered
      <3>6. RowKnown' /\ HolderRemembered'
        BY <3>1, <3>2, <3>5 DEF RowKnown, HolderRemembered
      <3> QED
        BY <2>1, <3>1, <3>3, <3>6
    <2> QED
      BY <2>2, <2>3
  <1>4. ASSUME KillSession \/ KillSameSql \/ KillThread \/ KillHolder
        PROVE  \E gone : Killed(gone)
    BY <1>4 DEF KillSession, KillSameSql, KillThread, KillHolder
  <1> QED
    BY <1>2, <1>3, <1>4

LEMMA SelectionNextOK == SelectionInv /\ [SelectionNext]_selectionVars => SelectionInv'
  <1> SUFFICES ASSUME SelectionInv, [SelectionNext]_selectionVars PROVE SelectionInv'
    OBVIOUS
  <1>1. CASE UNCHANGED selectionVars
    BY <1>1
    DEF selectionVars, SelectionInv, SelectionTypes, RowKnown, HolderRemembered
  <1>2. CASE KeyStep
    BY <1>2, LoopsKeep, ChoicesKeep, PromptKeeps, DetailsKeep, KillsKeep DEF KeyStep
  <1> QED
    BY <1>1, <1>2, ServerStepsKeep, RefreshesKeep, PumpKeeps DEF SelectionNext

\* A confirmed kill of a session (pg_terminate_session) ends the session that was
\* chosen before the prompt or nobody, and the kill of a blocker (terminateBlockerSession)
\* a thread that has blocked the session since the confirmation: however often threads
\* are reused and lists refreshed while the prompt waits.
THEOREM ConfirmedKillsAreSafe == SelectionSpec => SelectionSafety
  <1>1. SelectionInv => SelectionTypeOK
    BY DEF SelectionInv, SelectionTypes, SelectionTypeOK, SessionServer, RowPanel, Choice
  <1>2. SelectionInv => (KillSession => GoneSessions \subseteq {chosen.row.sid})
    <2> SUFFICES ASSUME SelectionInv, KillSession, NEW t \in Thread,
                        db.on[t] # 0, db'.on[t] = 0
                 PROVE  db.on[t] = chosen.row.sid
      BY DEF GoneSessions
    <2> DEFINE gone == {u \in Thread : db.on[u] = chosen.row.sid /\ chosen.row.pid \in {0, u}}
    <2>1. db \in SessionServer /\ db' = SessionGone(db, gone)
      BY DEF SelectionInv, SelectionTypes, KillSession, Killed
    <2>2. db'.on[t] = IF t \in gone THEN 0 ELSE db.on[t]
      BY <2>1 DEF SessionGone, SessionServer
    <2> QED
      BY <2>2
  <1>3. SelectionInv => (KillHolder /\ chosen.holder # chosen.row.pid =>
                           chosen.holder \in chosen.since)
    BY DEF SelectionInv, HolderRemembered, KillHolder
  <1> QED
    BY <1>1, <1>2, <1>3, SelectionInitOK, SelectionNextOK, PTL
    DEF SelectionSpec, SelectionSafety, KillsOnlyChosen, HolderStillBlocked

-----------------------------------------------------------------------------
(* The emergency panel (EmergencyPanel).                                     *)

\* The values of the state: the hook, what a scenario found, a line, the
\* screen's loop and a scenario's log of snapshots.
Analysis == [pc : {"idle", "analysing"}, snap : 0..MaxAnalyses,
             pending : SUBSET Scenario, lock : {"free", "main", "screen"}]

Finding == [fired : BOOLEAN, sql : SUBSET ShownSql, of : 0..MaxAnalyses]

PanelLine == [on : Scenario, sql : SUBSET ShownSql, visible : BOOLEAN]

Desk == [pc : {"draw", "persist", "key", "draw again", "prompt"}, lines : SUBSET PanelLine,
         mode : {"main", "selection"}, at : [on : Scenario, sql : SUBSET ShownSql]]

Capture == [open : BOOLEAN, start : 0..MaxAnalyses, ids : SUBSET (1..MaxAnalyses),
            log : [1..MaxAnalyses -> {0, 1}]]

EmergencyTypes ==
  /\ analysis \in Analysis
  /\ live \in [Scenario -> Finding] /\ published \in [Scenario -> Finding]
  /\ desk \in Desk
  /\ retained \in SUBSET (1..MaxAnalyses)
  /\ capture \in [Scenario -> Capture]

\* analysisMu is the hook's while it analyses and the screen's while it prompts.
LockOwned ==
  /\ analysis.pc = "analysing" => analysis.lock = "main"
  /\ desk.pc = "prompt" => analysis.lock = "screen"

\* Results are of one analysis: the published ones, and those found so far in
\* the one under way.
OneAnalysis ==
  /\ ResultsOfOneAnalysis
  /\ analysis.pc = "analysing" =>
       \A s \in Scenario \ analysis.pending : live[s].of = analysis.snap

\* The prompt is about an id the scenario still holds live.
PromptIsLive ==
  desk.pc = "prompt" /\ desk.at.on = Plan => desk.at.sql \subseteq live[Plan].sql

\* What a capture has not logged yet is not in its log.
LoggedOnce(c) == \A k \in 1..MaxAnalyses : k \notin c.ids => c.log[k] = 0

EmergencyInv ==
  /\ EmergencyTypes /\ LockOwned /\ OneAnalysis /\ PromptIsLive
  /\ \A s \in Scenario : LoggedOnce(capture[s])

-----------------------------------------------------------------------------
(* The steps keep it.                                                        *)

LEMMA NothingFound ==
  /\ 0 \in 0..MaxAnalyses
  /\ NoFinding \in Finding /\ NoCapture \in Capture /\ LoggedOnce(NoCapture)
  <1>1. 0 \in 0..MaxAnalyses
    BY PanelAssumption
  <1> QED
    BY <1>1 DEF NoFinding, Finding, NoCapture, Capture, LoggedOnce

LEMMA EmergencyInitOK == PanelInit => EmergencyInv
  <1> SUFFICES ASSUME PanelInit PROVE EmergencyInv
    OBVIOUS
  <1> USE NothingFound DEF PanelInit
  <1>1. analysis \in Analysis /\ LockOwned
    BY DEF Analysis, LockOwned
  <1>2. live \in [Scenario -> Finding] /\ published \in [Scenario -> Finding]
    OBVIOUS
  <1>3. PICK at \in [on : Scenario, sql : SUBSET ShownSql] : at = [on |-> Plan, sql |-> {}]
    BY PanelAssumption
  <1>4. desk \in Desk
    BY <1>3 DEF Desk
  <1>5. capture \in [Scenario -> Capture] /\ \A s \in Scenario : LoggedOnce(capture[s])
    OBVIOUS
  <1>6. OneAnalysis /\ PromptIsLive
    BY DEF OneAnalysis, ResultsOfOneAnalysis, PromptIsLive, NoFinding
  <1> QED
    BY <1>1, <1>2, <1>4, <1>5, <1>6 DEF EmergencyInv, EmergencyTypes

\* A new analysis takes the lock, so nobody is asked anything meanwhile.
LEMMA MainStartsOK == EmergencyInv /\ MainStarts => EmergencyInv'
  <1> SUFFICES ASSUME EmergencyInv, MainStarts PROVE EmergencyInv'
    OBVIOUS
  <1> USE DEF EmergencyInv, EmergencyTypes, MainStarts
  <1>1. UNCHANGED <<published, desk, retained, capture>>
    OBVIOUS
  <1>2. PICK n \in 0..MaxAnalyses : n = analysis.snap + 1
    BY PanelAssumption DEF Analysis
  <1>3. analysis' = [pc |-> "analysing", snap |-> n, pending |-> Scenario, lock |-> "main"]
    BY <1>2
  <1>4. analysis' \in Analysis
    BY <1>3 DEF Analysis
  <1>5. live' \in [Scenario -> Finding]
    BY NothingFound
  <1>6. desk.pc # "prompt"
    BY DEF LockOwned, Free
  <1>7. LockOwned' /\ PromptIsLive'
    BY <1>1, <1>3, <1>6 DEF LockOwned, PromptIsLive
  <1>8. OneAnalysis'
    BY <1>1, <1>3 DEF OneAnalysis, ResultsOfOneAnalysis
  <1>9. (\A s \in Scenario : LoggedOnce(capture[s]))'
    BY <1>1
  <1> QED
    BY <1>1, <1>4, <1>5, <1>7, <1>8, <1>9

\* A scenario's answer is of the snapshot under analysis.
LEMMA AnalysedOK ==
  ASSUME EmergencyInv, NEW s \in Scenario, Analysed(s) PROVE EmergencyInv'
  <1> USE DEF EmergencyInv, EmergencyTypes
  <1>1. UNCHANGED <<published, desk, retained>>
    BY DEF Analysed
  <1>2. PICK a \in Analysis : a = analysis
    OBVIOUS
  <1>3. a.pc = "analysing" /\ a.lock = "main" /\ desk.pc # "prompt"
    BY <1>2 DEF Analysed, LockOwned
  <1>4. analysis' = [pc |-> a.pc, snap |-> a.snap, pending |-> a.pending \ {s},
                     lock |-> a.lock]
    BY <1>2 DEF Analysed, Analysis
  <1>5. analysis' \in Analysis
    BY <1>4 DEF Analysis
  <1>6. PICK sql \in SUBSET ShownSql, start \in 1..analysis.snap :
          /\ live' = [live EXCEPT ![s] = [fired |-> sql # {}, sql |-> sql, of |-> analysis.snap]]
          /\ capture' = IF s = Plan /\ sql # {}
                        THEN [capture EXCEPT ![s].start = start]
                        ELSE capture
    BY DEF Analysed
  <1>7. live' \in [Scenario -> Finding] /\ live'[s].of = a.snap
        /\ \A t \in Scenario \ {s} : live'[t] = live[t]
    <2>1. PICK b \in BOOLEAN, n \in 0..MaxAnalyses : b = (sql # {}) /\ n = a.snap
      BY DEF Analysis
    <2>2. [fired |-> b, sql |-> sql, of |-> n] \in Finding
      BY <1>6 DEF Finding
    <2>3. live' = [live EXCEPT ![s] = [fired |-> b, sql |-> sql, of |-> n]]
      BY <1>2, <1>6, <2>1
    <2> QED
      BY <2>1, <2>2, <2>3
  <1>8. capture' \in [Scenario -> Capture] /\ \A t \in Scenario : LoggedOnce(capture'[t])
    <2>1. CASE s = Plan /\ sql # {}
      <3>1. PICK c \in Capture : c = capture[s] /\ LoggedOnce(c)
        OBVIOUS
      <3>2. start \in 0..MaxAnalyses
        BY <1>2, <1>6, PanelAssumption DEF Analysis
      <3>3. PICK d : d = [c EXCEPT !.start = start]
        OBVIOUS
      <3>4. d = [open |-> c.open, start |-> start, ids |-> c.ids, log |-> c.log]
        BY <3>3 DEF Capture
      <3>5. d \in Capture /\ LoggedOnce(d)
        BY <3>1, <3>2, <3>4 DEF Capture, LoggedOnce
      <3>6. capture' = [capture EXCEPT ![s] = d]
        BY <1>6, <2>1, <3>1, <3>3
      <3> QED
        BY <3>5, <3>6
    <2>2. CASE ~(s = Plan /\ sql # {})
      BY <1>6, <2>2
    <2> QED
      BY <2>1, <2>2
  <1>9. LockOwned' /\ PromptIsLive'
    BY <1>1, <1>3, <1>4 DEF LockOwned, PromptIsLive
  <1>10. OneAnalysis'
    BY <1>1, <1>2, <1>3, <1>4, <1>7 DEF OneAnalysis, ResultsOfOneAnalysis
  <1> QED
    BY <1>1, <1>5, <1>7, <1>8, <1>9, <1>10

\* What is published is what all of them found in one snapshot.
LEMMA PublishResultsOK == EmergencyInv /\ PublishResults => EmergencyInv'
  <1> SUFFICES ASSUME EmergencyInv, PublishResults PROVE EmergencyInv'
    OBVIOUS
  <1> USE DEF EmergencyInv, EmergencyTypes
  <1>1. UNCHANGED <<live, desk, retained, capture>> /\ published' = live
    BY DEF PublishResults
  <1>2. PICK a \in Analysis : a = analysis
    OBVIOUS
  <1>3. a.pc = "analysing" /\ a.lock = "main" /\ desk.pc # "prompt" /\ a.pending = {}
    BY <1>2 DEF PublishResults, AllDone, LockOwned
  <1>4. analysis' = [pc |-> "idle", snap |-> a.snap, pending |-> a.pending, lock |-> "free"]
    BY <1>2 DEF PublishResults, Analysis
  <1>5. analysis' \in Analysis
    BY <1>4 DEF Analysis
  <1>6. LockOwned' /\ PromptIsLive'
    BY <1>1, <1>3, <1>4 DEF LockOwned, PromptIsLive
  <1>7. OneAnalysis'
    BY <1>1, <1>2, <1>3, <1>4 DEF OneAnalysis, ResultsOfOneAnalysis
  <1>8. (\A s \in Scenario : LoggedOnce(capture[s]))'
    BY <1>1
  <1> QED
    BY <1>1, <1>5, <1>6, <1>7, <1>8

\* One scenario logs what its capture lacks, each snapshot once.
LEMMA LoggedOK ==
  ASSUME EmergencyInv, NEW s \in Scenario, retained' \in SUBSET (1..MaxAnalyses)
  PROVE  Logged(s) \in Capture /\ LoggedOnce(Logged(s))
  <1>1. PICK was \in Capture : was = capture[s] /\ LoggedOnce(was)
    BY DEF EmergencyInv, EmergencyTypes
  <1>2. PICK c : c = IF live[s].fired THEN [capture[s] EXCEPT !.open = TRUE] ELSE capture[s]
    OBVIOUS
  <1>3. c \in Capture /\ LoggedOnce(c)
    <2>1. CASE live[s].fired
      <3>1. c = [open |-> TRUE, start |-> was.start, ids |-> was.ids, log |-> was.log]
        BY <1>1, <1>2, <2>1 DEF Capture
      <3> QED
        BY <1>1, <3>1 DEF Capture, LoggedOnce
    <2>2. CASE ~live[s].fired
      BY <1>1, <1>2, <2>2
    <2> QED
      BY <2>1, <2>2
  <1>4. PICK new \in SUBSET (1..MaxAnalyses) : new = Pending(c) /\ new \cap c.ids = {}
    <2>1. Pending(c) \subseteq retained' /\ Pending(c) \cap c.ids = {}
      BY DEF Pending
    <2> QED
      BY <2>1
  <1>5. PICK log : log = [k \in DOMAIN c.log |-> c.log[k] + (IF k \in new THEN 1 ELSE 0)]
    OBVIOUS
  <1>6. log \in [1..MaxAnalyses -> {0, 1}]
        /\ \A k \in 1..MaxAnalyses : k \notin c.ids \cup new => log[k] = 0
    <2>1. c.log \in [1..MaxAnalyses -> {0, 1}]
      BY <1>3 DEF Capture
    <2>2. ASSUME NEW k \in 1..MaxAnalyses
          PROVE  /\ c.log[k] + (IF k \in new THEN 1 ELSE 0) \in {0, 1}
                 /\ k \notin c.ids \cup new => c.log[k] + (IF k \in new THEN 1 ELSE 0) = 0
      <3>1. c.log[k] \in {0, 1} /\ (k \notin c.ids => c.log[k] = 0)
        BY <1>3, <2>1 DEF LoggedOnce
      <3>2. CASE k \in new
        BY <1>4, <3>1, <3>2
      <3>3. CASE k \notin new
        BY <3>1, <3>3
      <3> QED
        BY <3>2, <3>3
    <2> QED
      BY <1>5, <2>1, <2>2
  <1>7. PICK d : d = [c EXCEPT !.ids = c.ids \cup new, !.log = log]
    OBVIOUS
  <1>8. d = [open |-> c.open, start |-> c.start, ids |-> c.ids \cup new, log |-> log]
    BY <1>3, <1>7 DEF Capture
  <1>9. d \in Capture /\ LoggedOnce(d)
    BY <1>3, <1>4, <1>6, <1>8 DEF Capture, LoggedOnce
  <1>10. Logged(s) \in {c, NoCapture, d}
    BY <1>2, <1>4, <1>5, <1>7 DEF Logged
  <1> QED
    BY <1>3, <1>9, <1>10, NothingFound

LEMMA PersistOK == EmergencyInv /\ Persist => EmergencyInv'
  <1> SUFFICES ASSUME EmergencyInv, Persist PROVE EmergencyInv'
    OBVIOUS
  <1>1. UNCHANGED <<analysis, live, published>>
    BY DEF Persist
  <1>2. retained' \in SUBSET (1..MaxAnalyses)
    <2>1. analysis.snap \in 1..MaxAnalyses
      BY PanelAssumption DEF EmergencyInv, EmergencyTypes, Analysis, Persist
    <2> QED
      BY <2>1 DEF EmergencyInv, EmergencyTypes, Persist, Retained
  <1>3. capture' = [s \in Scenario |-> Logged(s)]
    BY DEF Persist
  <1>4. capture' \in [Scenario -> Capture] /\ \A s \in Scenario : LoggedOnce(capture'[s])
    BY <1>2, <1>3, LoggedOK
  <1>5. PICK d \in Desk : d = desk
    BY DEF EmergencyInv, EmergencyTypes
  <1>6. desk' = [pc |-> "key", lines |-> d.lines, mode |-> d.mode, at |-> d.at]
    BY <1>5 DEF Persist, Desk
  <1>7. desk' \in Desk
    BY <1>6 DEF Desk
  <1>8. LockOwned' /\ OneAnalysis' /\ PromptIsLive'
    BY <1>1, <1>6
    DEF EmergencyInv, LockOwned, OneAnalysis, ResultsOfOneAnalysis, PromptIsLive
  <1> QED
    BY <1>1, <1>2, <1>4, <1>7, <1>8 DEF EmergencyInv, EmergencyTypes

\* The other steps of the screen's loop write its own state and at most the lock.
LEMMA DeskMovesOK ==
  ASSUME EmergencyInv, UNCHANGED <<live, published, retained, capture>>,
         desk' \in Desk, analysis' \in Analysis,
         analysis'.pc = analysis.pc, analysis'.snap = analysis.snap,
         analysis'.pending = analysis.pending,
         analysis.lock = "main" => analysis'.lock = "main",
         desk'.pc = "prompt" => /\ analysis'.lock = "screen"
                                /\ desk'.at.on = Plan => desk'.at.sql \subseteq live[Plan].sql
  PROVE  EmergencyInv'
  <1>1. EmergencyTypes'
    BY DEF EmergencyInv, EmergencyTypes
  <1>2. LockOwned' /\ PromptIsLive'
    BY DEF EmergencyInv, LockOwned, PromptIsLive
  <1>3. OneAnalysis'
    BY DEF EmergencyInv, OneAnalysis, ResultsOfOneAnalysis
  <1>4. (\A s \in Scenario : LoggedOnce(capture[s]))'
    BY DEF EmergencyInv
  <1> QED
    BY <1>1, <1>2, <1>3, <1>4 DEF EmergencyInv

LEMMA ScreenOK == EmergencyInv /\ ScreenSteps => EmergencyInv'
  <1> SUFFICES ASSUME EmergencyInv, ScreenSteps PROVE EmergencyInv'
    OBVIOUS
  <1>1. PICK a \in Analysis : a = analysis
    BY DEF EmergencyInv, EmergencyTypes
  <1>2. PICK d \in Desk : d = desk
    BY DEF EmergencyInv, EmergencyTypes
  <1>3. CASE Draw
    <2>1. PICK lines \in SUBSET PanelLine : lines = DrawnLines
      <3>1. DrawnLines \subseteq PanelLine
        <4>1. \A s \in Scenario : published[s].sql \subseteq ShownSql
          BY DEF EmergencyInv, EmergencyTypes, Finding
        <4> SUFFICES ASSUME NEW x \in DrawnLines PROVE x \in PanelLine
          OBVIOUS
        <4> DEFINE fired == {s \in Scenario : published[s].fired}
        <4>2. PICK s \in fired, q \in ShownSql :
                x = [on |-> s, sql |-> {q},
                     visible |-> \A t \in fired : First[s] <= First[t]]
          BY <4>1 DEF DrawnLines
        <4>3. PICK b \in BOOLEAN : b = \A t \in fired : First[s] <= First[t]
          OBVIOUS
        <4>4. x = [on |-> s, sql |-> {q}, visible |-> b]
          BY <4>2, <4>3
        <4>5. s \in Scenario /\ {q} \in SUBSET ShownSql
          BY <4>1, <4>2
        <4> QED
          BY <4>4, <4>5 DEF PanelLine
      <3> QED
        BY <3>1
    <2>2. PICK pc \in {"persist", "key"} :
            desk' = [desk EXCEPT !.pc = pc, !.lines = lines]
      BY <1>3, <2>1 DEF Draw
    <2>3. desk' = [pc |-> pc, lines |-> lines, mode |-> d.mode, at |-> d.at]
      BY <1>2, <2>2 DEF Desk
    <2>4. desk' \in Desk
      BY <2>3 DEF Desk
    <2>5. UNCHANGED <<analysis, live, published, retained, capture>>
      BY <1>3 DEF Draw
    <2> QED
      BY <1>1, <2>2, <2>3, <2>4, <2>5, DeskMovesOK
  <1>4. CASE PersistSkips \/ NoKey \/ EnterMode \/ MoveOrLeave \/ CommandIgnored
    <2>1. PICK pc \in {"draw", "key", "draw again"}, mode \in {"main", "selection"} :
            desk' = [pc |-> pc, lines |-> d.lines, mode |-> mode, at |-> d.at]
      BY <1>2, <1>4
      DEF PersistSkips, NoKey, EnterMode, MoveOrLeave, CommandIgnored, Desk
    <2>2. desk' \in Desk
      BY <2>1 DEF Desk
    <2>3. UNCHANGED <<analysis, live, published, retained, capture>>
      BY <1>4 DEF PersistSkips, NoKey, EnterMode, MoveOrLeave, CommandIgnored
    <2> QED
      BY <1>1, <2>1, <2>2, <2>3, DeskMovesOK
  <1>5. CASE Declined \/ PlanKilled
    <2>1. PICK lock \in {"free", "main", "screen"} :
            /\ analysis' = [pc |-> a.pc, snap |-> a.snap, pending |-> a.pending, lock |-> lock]
            /\ a.lock = "main" => lock = "main"
      BY <1>1, <1>5 DEF Declined, PlanKilled, PromptEnds, Analysis
    <2>2. analysis' \in Analysis
      BY <2>1 DEF Analysis
    <2>3. desk' = [pc |-> "draw again", lines |-> d.lines, mode |-> d.mode, at |-> d.at]
      BY <1>2, <1>5 DEF Declined, PlanKilled, PromptEnds, Desk
    <2>4. desk' \in Desk
      BY <2>3 DEF Desk
    <2>5. UNCHANGED <<live, published, retained, capture>>
      BY <1>5 DEF Declined, PlanKilled, PromptEnds
    <2> QED
      BY <1>1, <2>1, <2>2, <2>3, <2>4, <2>5, DeskMovesOK
  <1>6. ASSUME NEW line \in desk.lines, Command(line) PROVE EmergencyInv'
    <2>1. analysis.lock = "free"
          /\ analysis' = [pc |-> a.pc, snap |-> a.snap, pending |-> a.pending, lock |-> "screen"]
      BY <1>1, <1>6 DEF Command, LockForCommand, Free, Analysis
    <2>2. analysis' \in Analysis
      BY <2>1 DEF Analysis
    <2>3. line.on \in Scenario /\ line.sql \in SUBSET ShownSql
      BY <1>2, <1>6 DEF Desk, PanelLine
    <2>4. PICK at \in [on : Scenario, sql : SUBSET ShownSql] :
            at = [on |-> line.on, sql |-> line.sql]
      BY <2>3
    <2>5. desk' = [pc |-> "prompt", lines |-> d.lines, mode |-> d.mode, at |-> at]
      BY <1>2, <1>6, <2>4 DEF Command, Desk
    <2>6. desk' \in Desk
      BY <2>5 DEF Desk
    <2>7. desk'.at.on = Plan => desk'.at.sql \subseteq live[Plan].sql
      BY <1>6, <2>4, <2>5 DEF Command
    <2>8. UNCHANGED <<live, published, retained, capture>>
      BY <1>6 DEF Command
    <2> QED
      BY <1>1, <2>1, <2>2, <2>5, <2>6, <2>7, <2>8, DeskMovesOK
  <1> QED
    BY <1>3, <1>4, <1>5, <1>6, PersistOK DEF ScreenSteps

LEMMA EmergencyNextOK == EmergencyInv /\ [PanelNext]_panelVars => EmergencyInv'
  <1>1. EmergencyInv /\ UNCHANGED panelVars => EmergencyInv'
    BY DEF panelVars, EmergencyInv, EmergencyTypes, LockOwned, OneAnalysis, ResultsOfOneAnalysis,
           PromptIsLive
  <1> QED
    BY <1>1, MainStartsOK, AnalysedOK, PublishResultsOK, ScreenOK DEF PanelNext

\* Of the emergency panel (dispatcher.go, emergency.go): the results drawn belong
\* to one analysis, a plan-change kill is for an id its scenario still holds when
\* the operator has answered, and a capture logs each snapshot once.
THEOREM EmergencyPanelIsSafe == PanelSpec => PanelSafety
  <1>1. EmergencyInv => PanelTypeOK /\ ResultsOfOneAnalysis
    BY DEF EmergencyInv, EmergencyTypes, PanelTypeOK, OneAnalysis, Finding, Desk, Capture, Analysis
  <1>2. EmergencyInv => LogHasNoRepeats
    <2> SUFFICES ASSUME EmergencyInv, NEW s \in Scenario, NEW k \in DOMAIN capture[s].log
                 PROVE  capture[s].log[k] <= 1
      BY DEF LogHasNoRepeats
    <2>1. PICK log \in [1..MaxAnalyses -> {0, 1}] : log = capture[s].log
      BY DEF EmergencyInv, EmergencyTypes, Capture
    <2>2. log[k] \in {0, 1}
      BY <2>1
    <2> QED
      BY <2>1, <2>2
  <1>3. EmergencyInv => (desk.pc = "prompt" /\ desk.at.on = Plan
                       => desk.at.sql \subseteq live[Plan].sql)
    BY DEF EmergencyInv, PromptIsLive
  <1> QED
    BY <1>1, <1>2, <1>3, EmergencyInitOK, EmergencyNextOK, PTL
    DEF PanelSpec, PanelSafety, PlanKillIsCurrent

-----------------------------------------------------------------------------
(* The files of the data log (DataLogFiles).                                 *)

\* The types of the state; writer and rows are records.
Writer == [pc : {"idle", "compress", "copy", "remove", "prune", "open", "write"},
           name : FileName, size : Nat, open : BOOLEAN]
RowSet == SUBSET (1..MaxRow)
RowSequence == [written : 0..MaxRow, pruned : RowSet, spoiled : RowSet, replaced : RowSet]

DataLogTypes ==
  /\ writer \in Writer /\ rows \in RowSequence
  /\ files \in [FileName -> RowSet] /\ zipped \in [FileName -> RowSet]
  /\ backups \in SUBSET FileName

\* The rows under a name.
Under(n) == files[n] \cup zipped[n]

\* A backup is empty until it is copied, and a file is removed once its rows are
\* in a backup, or known to be spoiled.
BackedUp ==
  /\ writer.pc = "copy" => zipped[writer.name] = {}
  /\ writer.pc = "remove" => files[writer.name] \subseteq zipped[writer.name] \cup rows.spoiled

\* Files hold rows in the order of their names, and no row of the future; a backup
\* that is gone holds none.
InOrder ==
  /\ \A n \in FileName : n > writer.name => Under(n) = {}
  /\ \A n \in FileName : Under(n) \subseteq 1..rows.written
  /\ \A m, n \in FileName : m < n => \A r \in Under(m), s \in Under(n) : r < s
  /\ rows.pruned \subseteq 1..rows.written

\* A row older than a deleted one is under a name that BackupCount newer backups follow.
Outlived(n) == Cardinality(BackupsAfter(n)) >= BackupCount
PrunedBelow ==
  \A n \in FileName, r, old \in 1..MaxRow :
    r \in Under(n) /\ old \in rows.pruned /\ r < old => Outlived(n)

\* The inductive invariant of the data log.
DataLogInv == DataLogTypes /\ BackedUp /\ InOrder /\ PrunedBelow /\ RowsAreKept

\* At its start the log has one file, open and empty.
LEMMA DataLogInvInit ==
  ASSUME DataLogInit
  PROVE  DataLogInv
  <1>1. 1 \in FileName /\ 0 \in Nat /\ 0 \in 0..MaxRow /\ {} \in RowSet
    BY DataLogAssumption DEF FileName, RowSet
  <1>2. DataLogTypes
    BY <1>1 DEF DataLogInit, DataLogTypes, Writer, RowSequence
  <1>3. /\ \A n \in FileName : Under(n) = {}
        /\ rows.written = 0 /\ rows.pruned = {} /\ writer.pc = "idle"
    BY DEF DataLogInit, Under
  <1>4. 1..rows.written = {}
    BY <1>3
  <1> QED
    BY <1>2, <1>3, <1>4 DEF DataLogInv, BackedUp, InOrder, PrunedBelow, RowsAreKept

\* The backups after a name are a finite set.
LEMMA BackupsAreFinite ==
  ASSUME DataLogTypes, NEW n
  PROVE  /\ IsFiniteSet(BackupsAfter(n)) /\ BackupsAfter(n) \in SUBSET Nat
         /\ Cardinality(BackupsAfter(n)) \in Nat
  <1>1. IsFiniteSet(FileName) /\ FileName \in SUBSET Nat
    BY DataLogAssumption, FS_Interval DEF FileName
  <1>2. BackupsAfter(n) \in SUBSET FileName
    BY DEF BackupsAfter, DataLogTypes
  <1>3. IsFiniteSet(BackupsAfter(n))
    BY <1>1, <1>2, FS_Subset
  <1> QED
    BY <1>1, <1>2, <1>3, FS_CardinalityType

\* What lies before the backups of a name is outlived as that name is.
LEMMA OutlivedBefore ==
  ASSUME DataLogTypes, NEW m \in FileName, NEW n \in FileName, n <= m, Outlived(m)
  PROVE  Outlived(n)
  <1>1. BackupsAfter(m) \in SUBSET BackupsAfter(n)
    <2>1. backups \in SUBSET Nat /\ m \in Nat /\ n \in Nat
      BY DataLogAssumption DEF FileName, DataLogTypes
    <2>2. \A b \in Nat : b > m => b > n
      BY <2>1
    <2> QED
      BY <2>1, <2>2 DEF BackupsAfter
  <1>2. Cardinality(BackupsAfter(m)) <= Cardinality(BackupsAfter(n))
    BY <1>1, BackupsAreFinite, FS_Subset
  <1>3. Cardinality(BackupsAfter(m)) \in Nat /\ Cardinality(BackupsAfter(n)) \in Nat
    BY BackupsAreFinite
  <1> QED
    BY <1>2, <1>3, DataLogAssumption DEF Outlived

\* A pruning takes none of the BackupCount newest: a name with as many newer backups
\* has them after it.
LEMMA NewestStay ==
  ASSUME DataLogTypes, NEW gone \in SUBSET OldestBeyond(BackupCount),
         NEW n \in FileName, Outlived(n)
  PROVE  Cardinality(BackupsAfter(n) \ gone) >= BackupCount
  <1> DEFINE late == {g \in gone : g > n}
  <1>1. /\ gone \in SUBSET FileName /\ FileName \in SUBSET Nat /\ n \in Nat
        /\ \A g \in gone : g \in backups /\ Outlived(g)
    BY DataLogAssumption DEF OldestBeyond, Outlived, DataLogTypes, FileName
  <1>2. CASE late = {}
    <2>1. BackupsAfter(n) \ gone = BackupsAfter(n)
      BY <1>2 DEF BackupsAfter
    <2> QED
      BY <2>1 DEF Outlived
  <1>3. CASE late # {}
    <2>1. PICK top \in Nat : top = MaxName
      BY DataLogAssumption
    <2> DEFINE depths == {top - g : g \in late}
    <2>2. \A g \in late : top - g \in Nat /\ g \in Nat
      BY <1>1, <2>1 DEF FileName
    <2>3. depths \in SUBSET Nat /\ depths # {}
      BY <1>3, <2>2
    <2>4. PICK d \in depths : \A e \in depths : d <= e
      BY <2>3, LeastExists
    <2>5. PICK m \in late : d = top - m
      BY <2>4
    <2>6. \A g \in late : g <= m
      <3> SUFFICES ASSUME NEW g \in late PROVE g <= m
        OBVIOUS
      <3>1. d <= top - g
        BY <2>4
      <3> QED
        BY <2>2, <2>5, <3>1
    <2>7. m \in gone /\ m > n /\ m \in Nat
      BY <2>2, <2>5
    <2>8. BackupsAfter(m) \in SUBSET (BackupsAfter(n) \ gone)
      <3> SUFFICES ASSUME NEW b \in backups, b > m PROVE b > n /\ b \notin gone
        BY DEF BackupsAfter
      <3>1. b \in Nat
        BY <1>1 DEF DataLogTypes
      <3>2. b > n
        BY <1>1, <2>7, <3>1
      <3>3. CASE b \in gone
        <4>1. b <= m
          BY <2>6, <3>2, <3>3
        <4> QED
          BY <2>7, <3>1, <4>1
      <3> QED
        BY <3>2, <3>3
    <2>9. IsFiniteSet(BackupsAfter(n) \ gone)
      BY BackupsAreFinite, FS_Subset
    <2>10. /\ Cardinality(BackupsAfter(m)) <= Cardinality(BackupsAfter(n) \ gone)
           /\ Cardinality(BackupsAfter(n) \ gone) \in Nat
      BY <2>8, <2>9, FS_Subset, FS_CardinalityType
    <2>11. Cardinality(BackupsAfter(m)) >= BackupCount /\ Cardinality(BackupsAfter(m)) \in Nat
      BY <1>1, <2>7, BackupsAreFinite DEF Outlived
    <2> QED
      BY <2>10, <2>11, DataLogAssumption
  <1> QED
    BY <1>2, <1>3

\* The file that is open gets a row, or the row is lost.
LEMMA WriteKeepsInv ==
  ASSUME DataLogInv, WritesRow
  PROVE  DataLogInv'
  <1> DEFINE newest == rows.written + 1
  <1>0. PICK w : w = writer.name
    OBVIOUS
  <1>1. /\ newest \in 1..MaxRow /\ newest > rows.written /\ rows.written \in Nat
        /\ 1..newest = 1..rows.written \cup {newest} /\ newest \in 0..MaxRow
    BY DataLogAssumption DEF WritesRow, DataLogInv, DataLogTypes, RowSequence
  <1>2. w \in FileName /\ FileName \in SUBSET Nat /\ writer.pc # "remove"
    BY <1>0, DataLogAssumption DEF WritesRow, DataLogInv, DataLogTypes, Writer, FileName
  <1>3. /\ zipped' = zipped /\ backups' = backups
        /\ writer' \in Writer /\ writer'.pc = "idle" /\ writer'.name = w
    <2>1. writer.size + 1 \in Nat /\ writer \in Writer
      BY DEF DataLogInv, DataLogTypes, Writer
    <2>2. PICK n \in Nat : n = writer.size + 1
      BY <2>1
    <2>3. \/ writer' = [writer EXCEPT !.pc = "idle", !.size = n]
          \/ writer' = [writer EXCEPT !.pc = "idle"]
      BY <2>2 DEF WritesRow
    <2>4. zipped' = zipped /\ backups' = backups
      BY DEF WritesRow
    <2> QED
      BY <1>0, <2>1, <2>3, <2>4 DEF Writer
  <1>4. \A n : Outlived(n)' = Outlived(n)
    BY <1>3 DEF Outlived, BackupsAfter
  <1>5. /\ rows' \in RowSequence /\ rows'.written = newest /\ rows'.pruned = rows.pruned
        /\ rows.spoiled \subseteq rows'.spoiled /\ rows'.replaced = rows.replaced
        /\ \/ newest \in rows'.spoiled /\ files' = files
           \/ files' = [files EXCEPT ![w] = @ \cup {newest}]
    <2>1. CASE files' = [files EXCEPT ![w] = @ \cup {newest}]
               /\ rows' = [rows EXCEPT !.written = newest]
      BY <1>1, <2>1 DEF DataLogInv, DataLogTypes, RowSequence
    <2>2. CASE /\ files' = files
               /\ rows' = [rows EXCEPT !.written = newest, !.spoiled = @ \cup {newest}]
      <3>1. PICK bad \in RowSet : bad = rows.spoiled \cup {newest}
        BY <1>1 DEF DataLogInv, DataLogTypes, RowSequence, RowSet
      <3>2. rows' = [rows EXCEPT !.written = newest, !.spoiled = bad]
        BY <2>2, <3>1
      <3>3. bad \in RowSet
        OBVIOUS
      <3>4. /\ rows' \in RowSequence /\ rows'.written = newest /\ rows'.pruned = rows.pruned
            /\ rows'.spoiled = bad /\ rows'.replaced = rows.replaced
        BY <1>1, <3>2, <3>3 DEF DataLogInv, DataLogTypes, RowSequence
      <3> QED
        BY <2>2, <3>1, <3>4
    <2> QED
      BY <1>0, <2>1, <2>2 DEF WritesRow
  <1> HIDE DEF newest
  <1>6. files \in [FileName -> RowSet] /\ zipped \in [FileName -> RowSet]
    BY DEF DataLogInv, DataLogTypes
  <1>7. /\ files' \in [FileName -> RowSet]
        /\ \A n \in FileName : Under(n) \subseteq Under(n)'
        /\ \A n \in FileName : n # w => Under(n)' = Under(n)
        /\ Under(w)' \subseteq Under(w) \cup {newest}
    <2>1. CASE files' = files
      BY <1>3, <1>6, <2>1 DEF Under
    <2>2. CASE files' = [files EXCEPT ![w] = @ \cup {newest}]
      <3>1. PICK now \in RowSet : now = files[w] \cup {newest}
        BY <1>1, <1>2, <1>6 DEF RowSet
      <3>2. files' = [files EXCEPT ![w] = now]
        BY <2>2, <3>1
      <3>3. /\ files' \in [FileName -> RowSet] /\ files'[w] = now
            /\ \A n \in FileName : n # w => files'[n] = files[n]
        BY <1>2, <1>6, <3>2
      <3> QED
        BY <1>3, <3>1, <3>3 DEF Under
    <2> QED
      BY <1>5, <2>1, <2>2
  <1>8. DataLogTypes'
    BY <1>3, <1>5, <1>7 DEF DataLogInv, DataLogTypes
  <1>9. BackedUp'
    BY <1>3 DEF BackedUp
  <1>10. InOrder'
    <2>1. /\ \A n \in FileName : n > w => Under(n) = {}
          /\ \A n \in FileName : Under(n) \subseteq 1..rows.written
          /\ \A m, n \in FileName : m < n => \A r \in Under(m), s \in Under(n) : r < s
          /\ rows.pruned \subseteq 1..rows.written
      BY <1>0 DEF DataLogInv, InOrder
    <2>2. \A n \in FileName : n > w => Under(n)' = {}
      BY <1>2, <1>7, <2>1
    <2>3. \A n \in FileName : Under(n)' \subseteq 1..newest
      BY <1>1, <1>7, <2>1
    <2>4. \A m, n \in FileName : m < n => \A r \in Under(m)', s \in Under(n)' : r < s
      <3> SUFFICES ASSUME NEW m \in FileName, NEW n \in FileName, m < n,
                          NEW r \in Under(m)', NEW s \in Under(n)'
                   PROVE  r < s
        OBVIOUS
      <3>1. ~(n > w)
        BY <2>2
      <3>2. m # w
        BY <1>2, <3>1
      <3>3. r \in Under(m) /\ r \in Nat /\ r < newest
        BY <1>1, <1>7, <2>1, <3>2
      <3>4. CASE s \in Under(n)
        BY <2>1, <3>3, <3>4
      <3>5. CASE s \notin Under(n)
        BY <1>7, <3>3, <3>5
      <3> QED
        BY <3>4, <3>5
    <2>5. rows.pruned \subseteq 1..newest
      BY <1>1, <2>1
    <2> QED
      BY <1>3, <1>5, <2>2, <2>3, <2>4, <2>5, Zenon DEF InOrder
  <1>11. PrunedBelow'
    <2> SUFFICES ASSUME NEW n \in FileName, NEW r \in 1..MaxRow, NEW old \in 1..MaxRow,
                        r \in Under(n)', old \in rows.pruned, r < old
                 PROVE  Outlived(n)
      BY <1>4, <1>5, Zenon DEF PrunedBelow
    <2>1. old < newest
      BY <1>1 DEF DataLogInv, InOrder
    <2>2. r # newest
      BY <1>1, <2>1
    <2>3. r \in Under(n)
      BY <1>7, <2>2
    <2> QED
      BY <2>3, Zenon DEF DataLogInv, PrunedBelow
  <1>12. RowsAreKept'
    <2>1. RowsOnDisk \subseteq RowsOnDisk'
      BY <1>7 DEF RowsOnDisk, Under
    <2>2. newest \in rows'.spoiled \/ newest \in RowsOnDisk'
      <3>1. CASE files' = [files EXCEPT ![w] = @ \cup {newest}]
        BY <1>2, <1>6, <3>1 DEF RowsOnDisk
      <3> QED
        BY <1>5, <3>1
    <2> QED
      BY <1>1, <1>5, <2>1, <2>2 DEF DataLogInv, RowsAreKept
  <1> QED
    BY <1>8, <1>9, <1>10, <1>11, <1>12 DEF DataLogInv

\* Steps of the writer that change no file: a rollover begins, a file cannot be
\* compressed or removed, a file is opened or not.
LEMMA WriterKeepsInv ==
  ASSUME DataLogInv, UNCHANGED <<files, backups, zipped, rows>>,
         writer' \in Writer, writer'.name \in {writer.name, writer.name + 1},
         writer'.pc \notin {"copy", "remove"}
  PROVE  DataLogInv'
  <1>1. \A n : Under(n)' = Under(n) /\ Outlived(n)' = Outlived(n)
    BY DEF Under, Outlived, BackupsAfter
  <1>2. rows' = rows /\ files' = files /\ zipped' = zipped /\ backups' = backups
    OBVIOUS
  <1>3. \A n \in FileName : n > writer'.name => n > writer.name
    BY DataLogAssumption DEF DataLogInv, DataLogTypes, Writer, FileName
  <1>4. DataLogTypes' /\ BackedUp'
    BY <1>2 DEF DataLogInv, DataLogTypes, BackedUp
  <1>5. InOrder'
    BY <1>1, <1>2, <1>3, Zenon DEF DataLogInv, InOrder
  <1>6. PrunedBelow'
    BY <1>1, <1>2, Zenon DEF DataLogInv, PrunedBelow
  <1>7. RowsAreKept'
    BY <1>2 DEF DataLogInv, RowsAreKept, RowsOnDisk
  <1> QED
    BY <1>4, <1>5, <1>6, <1>7 DEF DataLogInv

\* Openings change the writer only.
LEMMA OpenKeepsInv ==
  ASSUME DataLogInv, OpensFile \/ StartsAgain
  PROVE  DataLogInv'
  <1>1. PICK pc \in {"idle", "write"}, open \in BOOLEAN : OpensAs(pc, open)
    BY DEF OpensFile, StartsAgain
  <1>2. PICK name \in {writer.name, writer.name + 1} \cap FileName :
          writer' = [pc |-> pc, name |-> name, open |-> open,
                     size |-> IF open THEN Cardinality(files[name]) ELSE 0]
    BY <1>1 DEF OpensAs
  <1>3. Cardinality(files[name]) \in Nat
    <2>1. files[name] \in SUBSET (1..MaxRow) /\ IsFiniteSet(1..MaxRow)
      BY <1>2, DataLogAssumption, FS_Interval DEF DataLogInv, DataLogTypes, RowSet
    <2> QED
      BY <2>1, FS_Subset, FS_CardinalityType
  <1>4. PICK size \in Nat : size = IF open THEN Cardinality(files[name]) ELSE 0
    BY <1>3
  <1>5. writer' = [pc |-> pc, name |-> name, open |-> open, size |-> size]
    BY <1>2, <1>4
  <1>6. writer' \in Writer /\ writer'.name = name /\ writer'.pc = pc
    BY <1>2, <1>5 DEF Writer
  <1>7. UNCHANGED <<files, backups, zipped, rows>>
    BY DEF OpensFile, StartsAgain
  <1> QED
    BY <1>2, <1>6, <1>7, WriterKeepsInv

\* A rollover begins, or a file is left as it is.
LEMMA LeaveKeepsInv ==
  ASSUME DataLogInv, UNCHANGED <<files, backups, zipped, rows>>,
         \/ RollsOver
         \/ writer' = [writer EXCEPT !.pc = "prune"]
  PROVE  DataLogInv'
  <1>1. writer' \in Writer /\ writer'.name = writer.name
        /\ writer'.pc \notin {"copy", "remove"}
    BY DEF RollsOver, DataLogInv, DataLogTypes, Writer
  <1> QED
    BY <1>1, WriterKeepsInv

\* Files and backups lose rows under one name at most, or a backup gets the rows of
\* its file: order and age stay, and no row is lost but to what is named.
LEMMA ContentsKeepInv ==
  ASSUME DataLogInv, DataLogTypes', BackedUp', writer'.name = writer.name,
         \A n \in FileName : Under(n)' \subseteq Under(n),
         backups \subseteq backups',
         rows'.written = rows.written, rows'.pruned = rows.pruned,
         RowsOnDisk \subseteq RowsOnDisk' \cup rows'.spoiled \cup rows'.replaced,
         rows.spoiled \subseteq rows'.spoiled, rows.replaced \subseteq rows'.replaced
  PROVE  DataLogInv'
  <1>1. \A n \in FileName : Outlived(n) => Outlived(n)'
    <2> SUFFICES ASSUME NEW n \in FileName, Outlived(n) PROVE Outlived(n)'
      OBVIOUS
    <2>1. BackupsAfter(n) \in SUBSET BackupsAfter(n)'
      BY DEF BackupsAfter
    <2>2. IsFiniteSet(BackupsAfter(n)')
      <3>1. IsFiniteSet(FileName)
        BY DataLogAssumption, FS_Interval DEF FileName
      <3>2. BackupsAfter(n)' \in SUBSET FileName
        BY DEF BackupsAfter, DataLogTypes
      <3> QED
        BY <3>1, <3>2, FS_Subset
    <2>3. /\ Cardinality(BackupsAfter(n)) <= Cardinality(BackupsAfter(n)')
          /\ Cardinality(BackupsAfter(n)') \in Nat
      BY <2>1, <2>2, FS_Subset, FS_CardinalityType
    <2>4. Cardinality(BackupsAfter(n)) \in Nat
      BY BackupsAreFinite DEF DataLogInv
    <2> QED
      BY <2>3, <2>4, DataLogAssumption DEF Outlived
  <1>2. InOrder'
    BY Zenon DEF DataLogInv, InOrder
  <1>3. PrunedBelow'
    BY <1>1, Zenon DEF DataLogInv, PrunedBelow
  <1>4. RowsAreKept'
    BY DEF DataLogInv, RowsAreKept
  <1> QED
    BY <1>2, <1>3, <1>4 DEF DataLogInv

\* A backup is created, empty, and what was in it is replaced.
LEMMA CreateKeepsInv ==
  ASSUME DataLogInv, CreatesBackup, ~LeavesFile
  PROVE  DataLogInv'
  <1> DEFINE w == writer.name
  <1>1. /\ backups' = backups \cup {w} /\ zipped' = [zipped EXCEPT ![w] = {}]
        /\ rows' = [rows EXCEPT !.replaced = @ \cup (zipped[w] \ files[w])]
        /\ writer' = [writer EXCEPT !.pc = "copy"] /\ files' = files
    BY DEF CreatesBackup
  <1>2. /\ w \in FileName /\ files \in [FileName -> RowSet] /\ zipped \in [FileName -> RowSet]
        /\ backups \in SUBSET FileName /\ rows \in RowSequence
    BY DEF DataLogInv, DataLogTypes, Writer
  <1>3. writer' \in Writer /\ writer'.pc = "copy" /\ writer'.name = w
    BY <1>1 DEF DataLogInv, DataLogTypes, Writer
  <1>4. PICK all \in RowSet : all = rows.replaced \cup (zipped[w] \ files[w])
    BY <1>2 DEF RowSequence, RowSet
  <1>5. rows' = [rows EXCEPT !.replaced = all]
    BY <1>1, <1>4
  <1>6. /\ rows' \in RowSequence /\ rows'.written = rows.written /\ rows'.pruned = rows.pruned
        /\ rows'.spoiled = rows.spoiled /\ rows'.replaced = all
    BY <1>2, <1>5 DEF RowSequence
  <1>7. /\ zipped' \in [FileName -> RowSet] /\ zipped'[w] = {}
        /\ \A n \in FileName : n # w => zipped'[n] = zipped[n]
    <2>1. {} \in RowSet
      BY DEF RowSet
    <2> QED
      BY <1>1, <1>2, <2>1
  <1>8. backups' \in SUBSET FileName /\ backups \subseteq backups'
    BY <1>1, <1>2
  <1> HIDE DEF w
  <1>9. DataLogTypes' /\ BackedUp'
    BY <1>1, <1>2, <1>3, <1>6, <1>7, <1>8 DEF DataLogTypes, BackedUp
  <1>10. \A n \in FileName : Under(n)' \subseteq Under(n)
    BY <1>1, <1>7 DEF Under
  <1>11. RowsOnDisk \subseteq RowsOnDisk' \cup rows'.spoiled \cup rows'.replaced
    <2> SUFFICES ASSUME NEW n \in FileName, NEW r \in files[n] \cup zipped[n]
                 PROVE  r \in RowsOnDisk' \cup rows'.replaced
      BY DEF RowsOnDisk
    <2>1. CASE r \in files'[n] \cup zipped'[n]
      BY <2>1 DEF RowsOnDisk
    <2>2. CASE r \notin files'[n] \cup zipped'[n]
      BY <1>1, <1>4, <1>6, <1>7, <2>2
    <2> QED
      BY <2>1, <2>2
  <1> QED
    BY <1>3, <1>4, <1>6, <1>8, <1>9, <1>10, <1>11, ContentsKeepInv DEF w

\* A backup gets the rows of its file, or they are spoiled.
LEMMA CompressKeepsInv ==
  ASSUME DataLogInv, Compresses
  PROVE  DataLogInv'
  <1> DEFINE w == writer.name
  <1>1. /\ writer.pc = "copy" /\ writer' = [writer EXCEPT !.pc = "remove"]
        /\ files' = files /\ backups' = backups
        /\ \/ zipped' = [zipped EXCEPT ![w] = files[w]] /\ rows' = rows
           \/ zipped' = zipped /\ rows' = [rows EXCEPT !.spoiled = @ \cup files[w]]
    BY DEF Compresses
  <1>2. /\ w \in FileName /\ files \in [FileName -> RowSet] /\ zipped \in [FileName -> RowSet]
        /\ backups \in SUBSET FileName /\ rows \in RowSequence
    BY DEF DataLogInv, DataLogTypes, Writer
  <1>3. writer' \in Writer /\ writer'.pc = "remove" /\ writer'.name = w
    BY <1>1 DEF DataLogInv, DataLogTypes, Writer
  <1>4. PICK all \in RowSet : all = rows.spoiled \cup files[w]
    BY <1>2 DEF RowSequence, RowSet
  <1>5. \/ rows' = rows
        \/ rows' = [rows EXCEPT !.spoiled = all]
    BY <1>1, <1>4
  <1>6. /\ rows' \in RowSequence /\ rows'.written = rows.written /\ rows'.pruned = rows.pruned
        /\ rows'.spoiled = rows.spoiled \/ rows'.spoiled = all
        /\ rows' # rows => rows'.spoiled = all
        /\ rows'.replaced = rows.replaced
    BY <1>2, <1>5 DEF RowSequence
  <1>7. PICK gz \in [FileName -> RowSet] : gz = [zipped EXCEPT ![w] = files[w]]
    BY <1>2
  <1>8. gz[w] = files[w] /\ \A n \in FileName : n # w => gz[n] = zipped[n]
    BY <1>2, <1>7
  <1>9. zipped' = gz \/ (zipped' = zipped /\ files[w] \subseteq rows'.spoiled)
    <2>1. CASE zipped' = zipped /\ rows' = [rows EXCEPT !.spoiled = all]
      <3>1. rows'.spoiled = all
        BY <1>2, <2>1 DEF RowSequence
      <3> QED
        BY <1>4, <2>1, <3>1
    <2> QED
      BY <1>1, <1>4, <1>7, <2>1
  <1> HIDE DEF w
  <1>10. DataLogTypes'
    BY <1>1, <1>2, <1>3, <1>6, <1>7, <1>9 DEF DataLogTypes
  <1>11. BackedUp'
    BY <1>1, <1>3, <1>8, <1>9 DEF BackedUp
  <1>12. \A n \in FileName : Under(n)' \subseteq Under(n)
    <2>1. CASE zipped' = gz
      BY <1>1, <1>8, <2>1 DEF Under
    <2>2. CASE zipped' = zipped
      BY <1>1, <2>2 DEF Under
    <2> QED
      BY <1>9, <2>1, <2>2
  <1>13. RowsOnDisk \subseteq RowsOnDisk' \cup rows'.spoiled \cup rows'.replaced
    <2>1. CASE zipped' = zipped
      BY <1>1, <2>1 DEF RowsOnDisk
    <2>2. CASE zipped' = gz
      <3>1. w = writer.name /\ writer.pc = "copy"
        BY <1>1 DEF w
      <3> SUFFICES ASSUME NEW n \in FileName, NEW r \in files[n] \cup zipped[n]
                   PROVE  r \in RowsOnDisk' \cup rows'.spoiled \cup rows'.replaced
        BY DEF RowsOnDisk
      <3>2. CASE r \in files'[n] \cup zipped'[n]
        BY <3>2 DEF RowsOnDisk
      <3>3. CASE r \notin files'[n] \cup zipped'[n]
        <4>1. n = w /\ r \in zipped[w]
          BY <1>1, <1>8, <2>2, <3>3
        <4>2. zipped[w] = {}
          BY <3>1 DEF DataLogInv, BackedUp
        <4> QED
          BY <4>1, <4>2
      <3> QED
        BY <3>2, <3>3
    <2> QED
      BY <1>9, <2>1, <2>2
  <1> QED
    BY <1>1, <1>3, <1>4, <1>6, <1>10, <1>11, <1>12, <1>13, ContentsKeepInv DEF w

\* The file that was compressed goes.
LEMMA RemoveKeepsInv ==
  ASSUME DataLogInv, writer.pc = "remove", files' = [files EXCEPT ![writer.name] = {}],
         UNCHANGED <<backups, zipped, rows>>, writer' = [writer EXCEPT !.pc = "prune"]
  PROVE  DataLogInv'
  <1> DEFINE w == writer.name
  <1>1. /\ w \in FileName /\ files \in [FileName -> RowSet] /\ rows' = rows
        /\ zipped' = zipped /\ backups' = backups
    BY DEF DataLogInv, DataLogTypes, Writer
  <1>2. writer' \in Writer /\ writer'.pc = "prune" /\ writer'.name = w
    BY DEF DataLogInv, DataLogTypes, Writer
  <1>3. /\ files' \in [FileName -> RowSet] /\ files'[w] = {}
        /\ \A n \in FileName : n # w => files'[n] = files[n]
    <2>1. {} \in RowSet
      BY DEF RowSet
    <2> QED
      BY <1>1, <2>1
  <1>4. files[w] \subseteq zipped[w] \cup rows.spoiled
    BY DEF DataLogInv, BackedUp
  <1> HIDE DEF w
  <1>5. DataLogTypes' /\ BackedUp'
    BY <1>1, <1>2, <1>3 DEF DataLogInv, DataLogTypes, BackedUp
  <1>6. \A n \in FileName : Under(n)' \subseteq Under(n)
    BY <1>1, <1>3 DEF Under
  <1>7. RowsOnDisk \subseteq RowsOnDisk' \cup rows'.spoiled \cup rows'.replaced
    <2> SUFFICES ASSUME NEW n \in FileName, NEW r \in files[n] \cup zipped[n]
                 PROVE  r \in RowsOnDisk' \cup rows'.spoiled
      BY DEF RowsOnDisk
    <2>1. CASE r \in files'[n] \cup zipped'[n]
      BY <2>1 DEF RowsOnDisk
    <2>2. CASE r \notin files'[n] \cup zipped'[n]
      BY <1>1, <1>3, <1>4, <2>2
    <2> QED
      BY <2>1, <2>2
  <1> QED
    BY <1>1, <1>2, <1>5, <1>6, <1>7, ContentsKeepInv DEF w

\* Backups are deleted, all that are too many or some of them.
LEMMA PruneKeepsInv ==
  ASSUME DataLogInv, Prunes
  PROVE  DataLogInv'
  <1>1. PICK gone \in SUBSET OldestBeyond(BackupCount) :
          /\ backups' = backups \ gone
          /\ rows' = [rows EXCEPT !.pruned = @ \cup UNION {zipped[n] : n \in gone}]
          /\ zipped' = [n \in FileName |-> IF n \in gone THEN {} ELSE zipped[n]]
    BY DEF Prunes
  <1>2. /\ files' = files
        /\ writer' \in Writer /\ writer'.pc = "open" /\ writer'.name = writer.name
    BY DEF Prunes, DataLogInv, DataLogTypes, Writer
  <1>3. /\ gone \in SUBSET FileName /\ FileName \in SUBSET Nat
        /\ \A g \in gone : Outlived(g)
    BY DataLogAssumption DEF OldestBeyond, Outlived, DataLogInv, DataLogTypes, FileName
  <1>4. /\ files \in [FileName -> RowSet] /\ zipped \in [FileName -> RowSet]
        /\ backups \in SUBSET FileName /\ rows \in RowSequence
    BY DEF DataLogInv, DataLogTypes
  <1>5. PICK all \in RowSet : all = rows.pruned \cup UNION {zipped[n] : n \in gone}
    <2>1. rows.pruned \subseteq 1..MaxRow /\ \A n \in gone : zipped[n] \subseteq 1..MaxRow
      BY <1>3, <1>4 DEF RowSequence, RowSet
    <2>2. UNION {zipped[n] : n \in gone} \subseteq 1..MaxRow
      BY <2>1
    <2> QED
      BY <2>1, <2>2, Zenon DEF RowSet
  <1>6. rows' = [rows EXCEPT !.pruned = all]
    BY <1>1, <1>5
  <1>7. /\ rows' \in RowSequence /\ rows'.written = rows.written /\ rows'.pruned = all
        /\ rows'.spoiled = rows.spoiled /\ rows'.replaced = rows.replaced
    BY <1>4, <1>6 DEF RowSequence
  <1>8. /\ \A n \in FileName : zipped'[n] = IF n \in gone THEN {} ELSE zipped[n]
        /\ zipped' \in [FileName -> RowSet]
    <2>1. {} \in RowSet /\ \A n \in FileName : zipped[n] \in RowSet
      BY <1>4 DEF RowSet
    <2> QED
      BY <1>1, <2>1
  <1>9. DataLogTypes' /\ BackedUp'
    BY <1>1, <1>2, <1>4, <1>7, <1>8 DEF DataLogTypes, BackedUp
  <1>10. \A n \in FileName : Under(n)' \subseteq Under(n)
    BY <1>2, <1>8 DEF Under
  <1>11. \A r \in all : r \in rows.pruned \/ \E g \in gone : r \in Under(g)
    BY <1>5 DEF Under
  <1>12. InOrder'
    <2>1. all \subseteq 1..rows.written
      BY <1>3, <1>11 DEF DataLogInv, InOrder
    <2> QED
      BY <1>2, <1>7, <1>10, <2>1, Zenon DEF DataLogInv, InOrder
  <1>13. \A n \in FileName : Outlived(n) => Outlived(n)'
    <2> SUFFICES ASSUME NEW n \in FileName, Outlived(n) PROVE Outlived(n)'
      OBVIOUS
    <2>1. BackupsAfter(n)' = BackupsAfter(n) \ gone
      BY <1>1 DEF BackupsAfter
    <2>2. Cardinality(BackupsAfter(n) \ gone) >= BackupCount
      BY NewestStay DEF DataLogInv
    <2> QED
      BY <2>1, <2>2 DEF Outlived
  <1>14. PrunedBelow'
    <2> SUFFICES ASSUME NEW n \in FileName, NEW r \in 1..MaxRow, NEW old \in 1..MaxRow,
                        r \in Under(n), old \in all, r < old
                 PROVE  Outlived(n)
      BY <1>7, <1>10, <1>13, Zenon DEF PrunedBelow
    <2>1. CASE old \in rows.pruned
      BY <2>1, Zenon DEF DataLogInv, PrunedBelow
    <2>2. CASE old \notin rows.pruned
      <3>1. PICK g \in gone : old \in Under(g)
        BY <1>11, <2>2
      <3>2. g \in FileName /\ Outlived(g)
        BY <1>3
      <3>3. ~(g < n)
        <4> SUFFICES ASSUME g < n PROVE FALSE
          OBVIOUS
        <4>1. old < r
          BY <3>1, <3>2, Zenon DEF DataLogInv, InOrder
        <4> QED
          BY <4>1
      <3>4. n <= g
        BY <1>3, <3>2, <3>3
      <3> QED
        BY <3>2, <3>4, OutlivedBefore DEF DataLogInv
    <2> QED
      BY <2>1, <2>2
  <1>15. RowsAreKept'
    <2>1. RowsOnDisk \subseteq RowsOnDisk' \cup rows'.pruned
      <3> SUFFICES ASSUME NEW n \in FileName, NEW r \in files[n] \cup zipped[n]
                   PROVE  r \in RowsOnDisk' \cup all
        BY <1>7 DEF RowsOnDisk
      <3>1. CASE r \in files'[n] \cup zipped'[n]
        BY <3>1 DEF RowsOnDisk
      <3>2. CASE r \notin files'[n] \cup zipped'[n]
        BY <1>2, <1>5, <1>8, <3>2
      <3> QED
        BY <3>1, <3>2
    <2>2. rows.pruned \subseteq rows'.pruned
      BY <1>5, <1>7
    <2> QED
      BY <1>7, <2>1, <2>2 DEF DataLogInv, RowsAreKept
  <1> QED
    BY <1>9, <1>12, <1>14, <1>15 DEF DataLogInv

\* No row of the data log is lost without a failure or a name used twice in one
\* second, and the oldest backups are deleted first: one that outlived a newer one is
\* still too many (rollover, compress, manageBackups), for any numbers of rows and
\* of backups.
THEOREM DataLogIsSafe == DataLogSpec => []DataLogSafety
  <1>1. DataLogInv /\ [DataLogNext]_dataLogVars => DataLogInv'
    <2> SUFFICES ASSUME DataLogInv, [DataLogNext]_dataLogVars
                 PROVE  DataLogInv'
      OBVIOUS
    <2>1. CASE WritesRow
      BY <2>1, WriteKeepsInv
    <2>2. CASE RollsOver
      BY <2>2, LeaveKeepsInv DEF RollsOver
    <2>3. CASE CreatesBackup
      <3>1. CASE LeavesFile
        BY <3>1, LeaveKeepsInv DEF LeavesFile
      <3> QED
        BY <2>3, <3>1, CreateKeepsInv
    <2>4. CASE Compresses
      BY <2>4, CompressKeepsInv
    <2>5. CASE RemovesFile
      <3>1. writer.pc = "remove" /\ writer' = [writer EXCEPT !.pc = "prune"]
            /\ UNCHANGED <<backups, zipped, rows>>
            /\ (files' = [files EXCEPT ![writer.name] = {}] \/ UNCHANGED files)
        BY <2>5 DEF RemovesFile
      <3> QED
        BY <3>1, RemoveKeepsInv, LeaveKeepsInv
    <2>6. CASE Prunes
      BY <2>6, PruneKeepsInv
    <2>7. CASE OpensFile \/ StartsAgain
      BY <2>7, OpenKeepsInv
    <2>8. CASE UNCHANGED dataLogVars
      BY <2>8 DEF dataLogVars, DataLogInv, DataLogTypes, BackedUp, InOrder, PrunedBelow,
        RowsAreKept, RowsOnDisk, Under, Outlived, BackupsAfter
    <2> QED
      BY <2>1, <2>2, <2>3, <2>4, <2>5, <2>6, <2>7, <2>8 DEF DataLogNext
  <1>2. DataLogInv => DataLogSafety
    <2> SUFFICES ASSUME DataLogInv PROVE DataLogSafety
      OBVIOUS
    <2>1. DataLogTypeOK
      BY DEF DataLogInv, DataLogTypes, InOrder, Under, DataLogTypeOK, Writer
    <2>2. OldestGoFirst
      <3> SUFFICES ASSUME NEW n \in backups, NEW r \in zipped[n], NEW old \in rows.pruned, r < old
                   PROVE  Outlived(n)
        BY DEF OldestGoFirst, OldestBeyond, Outlived
      <3>1. n \in FileName /\ r \in Under(n) /\ r \in 1..MaxRow /\ old \in 1..MaxRow
        BY DEF DataLogInv, DataLogTypes, Under, RowSequence, RowSet
      <3> QED
        BY <3>1, Zenon DEF DataLogInv, PrunedBelow
    <2> QED
      BY <2>1, <2>2 DEF DataLogInv, DataLogSafety
  <1> QED
    BY <1>1, <1>2, DataLogInvInit, PTL DEF DataLogSpec

-----------------------------------------------------------------------------
(* The alarms (AlarmPolicy).                                                 *)

\* One more age is kept under a mark of its own.
LEMMA AddedAge ==
  ASSUME NEW ages, NEW age, IsFiniteSet(DOMAIN ages)
  PROVE  \E mark : /\ mark \notin DOMAIN ages
                   /\ DOMAIN Added(ages, age) = DOMAIN ages \cup {mark}
                   /\ Added(ages, age)[mark] = age
                   /\ \A m \in DOMAIN ages : Added(ages, age)[m] = ages[m]
                   /\ IsFiniteSet(DOMAIN Added(ages, age))
                   /\ Cardinality(DOMAIN Added(ages, age)) = Cardinality(DOMAIN ages) + 1
  <1> DEFINE D == DOMAIN ages
             n == Cardinality(D)
             mark == CHOOSE m \in 1..(n + 1) : m \notin D
  <1>1. n \in Nat
    BY FS_CardinalityType
  <1>2. \E m \in 1..(n + 1) : m \notin D
    <2> SUFFICES ASSUME 1..(n + 1) \subseteq D
                 PROVE  FALSE
      OBVIOUS
    <2>1. Cardinality(1..(n + 1)) <= n
      BY FS_Subset
    <2>2. Cardinality(1..(n + 1)) = n + 1
      BY <1>1, FS_Interval
    <2> QED
      BY <1>1, <2>1, <2>2
  <1>3. mark \in 1..(n + 1) /\ mark \notin D
    BY <1>2
  <1>4. Added(ages, age) = [m \in D \cup {mark} |-> IF m = mark THEN age ELSE ages[m]]
    BY DEF Added
  <1> HIDE DEF mark, n, D
  <1>5. DOMAIN Added(ages, age) = D \cup {mark}
    BY <1>4
  <1>6. Added(ages, age)[mark] = age /\ \A m \in D : Added(ages, age)[m] = ages[m]
    BY <1>3, <1>4
  <1>7. IsFiniteSet(D \cup {mark}) /\ Cardinality(D \cup {mark}) = Cardinality(D) + 1
    BY <1>3, FS_AddElement DEF D
  <1> QED
    BY <1>3, <1>5, <1>6, <1>7 DEF D

\* What is kept of the ages.
LEMMA NoOlderAges ==
  ASSUME NEW ages, NEW limit, IsFiniteSet(DOMAIN ages)
  PROVE  /\ DOMAIN NoOlder(ages, limit) = {m \in DOMAIN ages : ages[m] <= limit}
         /\ \A m \in DOMAIN NoOlder(ages, limit) : NoOlder(ages, limit)[m] = ages[m]
         /\ IsFiniteSet(DOMAIN NoOlder(ages, limit))
         /\ Cardinality(DOMAIN NoOlder(ages, limit)) <= Cardinality(DOMAIN ages)
  <1>1. NoOlder(ages, limit) = [m \in {k \in DOMAIN ages : ages[k] <= limit} |-> ages[m]]
    BY DEF NoOlder, Restrict
  <1>2. DOMAIN NoOlder(ages, limit) \subseteq DOMAIN ages
    BY <1>1
  <1> QED
    BY <1>1, <1>2, FS_Subset

\* Ages in as many windows that lie side by side are as many.
LEMMA OneInEachWindow ==
  ASSUME NEW D, IsFiniteSet(D), NEW ages, NEW n \in Nat, NEW base \in Int, NEW width \in Nat,
         \A j \in 0..(n - 1) :
           \E m \in D : ages[m] \in (base + j * width)..(base + j * width + width - 1)
  PROVE  n <= Cardinality(D)
  <1>1. Cardinality(D) \in Nat
    BY FS_CardinalityType
  <1> SUFFICES ASSUME Cardinality(D) < n
               PROVE  FALSE
    BY <1>1
  <1> DEFINE Inside(j, m) == ages[m] \in (base + j * width)..(base + j * width + width - 1)
             f == [j \in 0..(n - 1) |-> CHOOSE m \in D : Inside(j, m)]
  <1>2. \A j \in 0..(n - 1) : f[j] \in D /\ Inside(j, f[j])
    OBVIOUS
  <1>3. f \in [0..(n - 1) -> D]
    BY <1>2
  <1>4. IsFiniteSet(0..(n - 1)) /\ Cardinality(0..(n - 1)) = n
    BY FS_Interval
  <1> HIDE DEF f
  <1>5. PICK x, y \in 0..(n - 1) : x # y /\ f[x] = f[y]
    <2> DEFINE S == 0..(n - 1)
    <2>1. IsFiniteSet(S) /\ Cardinality(D) < Cardinality(S) /\ f \in [S -> D]
      BY <1>1, <1>3, <1>4
    <2> HIDE DEF S
    <2>2. \E x, y \in S : x # y /\ f[x] = f[y]
      BY <2>1, FS_PigeonHole
    <2> QED
      BY <2>2 DEF S
  <1>6. \A i, j \in 0..(n - 1) : i < j => f[i] # f[j]
    <2> SUFFICES ASSUME NEW i \in 0..(n - 1), NEW j \in 0..(n - 1), i < j, f[i] = f[j]
                 PROVE  FALSE
      OBVIOUS
    <2>1. PICK d \in Nat : j = i + 1 + d
      <3>1. j - i - 1 \in Nat /\ j = i + 1 + (j - i - 1)
        OBVIOUS
      <3> QED
        BY <3>1
    <2>2. PICK p \in Nat, q \in Nat : p = i * width /\ q = d * width
      OBVIOUS
    <2>3. j * width = p + width + q
      BY <2>1, <2>2
    <2>4. ages[f[i]] \in (base + p)..(base + p + width - 1)
      BY <1>2, <2>2
    <2>5. ages[f[i]] \in (base + (p + width + q))..(base + (p + width + q) + width - 1)
      BY <1>2, <2>3
    <2> QED
      BY <2>2, <2>4, <2>5
  <1> QED
    BY <1>5, <1>6

(* The inductive invariant.  How long a breach has lasted without a line in  *)
(* a file that works is bounded by the times it was found since: w of them   *)
(* is how long none of its reports was held back.                            *)

Lasting == MinOf(breach.lasts, record.quiet)

\* The breach was found so long ago: the policy counts it, or is about to.
Looked(age) ==
  \/ \E m \in DOMAIN policy.occurrences : policy.occurrences[m] = age
  \/ \E r \in Reporter : reporter[r].pc = "decide" /\ reporter[r].late = age

\* It was found at least once in any CycleGap of the last w.
Dense(w) ==
  \A x \in Int : x > breach.found - CycleGap /\ x + CycleGap - 1 < w
    => \E age \in x..(x + CycleGap - 1) : Looked(age)

Counted(w) ==
  /\ Lasting <= w + SuppressionWindow
  /\ policy.last < Oldest => Lasting <= policy.last
  /\ \A l \in 0..MaxLate : l < w => policy.last - l >= SuppressionWindow
  /\ Dense(w)

\* A report that was let through is about to be written.
Written(r) ==
  /\ reporter[r].pc = "write"
  /\ Lasting <= SuppressionWindow + ReportThresh * CycleGap + MaxLate + reporter[r].late

Searched == (\E r \in Reporter : Written(r)) \/ (\E w \in Nat : Counted(w))

\* The policy counts what was seen, each once.
Recent == {m \in DOMAIN policy.occurrences : policy.occurrences[m] <= ObservationWindow + MaxLate}
SeenAs(h) ==
  /\ h \in [Recent -> DOMAIN record.seen]
  /\ \A m \in Recent : record.seen[h[m]] = policy.occurrences[m]
  /\ \A m, n \in Recent : h[m] = h[n] => m = n

AlarmTypes ==
  /\ policy = [consecutive |-> policy.consecutive, last |-> policy.last,
               occurrences |-> policy.occurrences]
  /\ policy.last \in 0..Oldest
  /\ IsFiniteSet(DOMAIN policy.occurrences)
  /\ \A m \in DOMAIN policy.occurrences : policy.occurrences[m] \in 0..Oldest
  /\ Cardinality(DOMAIN policy.occurrences) < ReportThresh
  /\ reporter \in [Reporter -> [pc : {"idle", "decide", "write"}, late : 0..MaxLate]]
  /\ alarmFile \in BOOLEAN
  /\ breach \in [on : BOOLEAN, found : 0..CycleGap, lasts : 0..(Patience + 1)]
  /\ (breach.on /\ alarmFile) \/ breach.lasts = 0
  /\ record = [seen |-> record.seen, quiet |-> record.quiet, apart |-> record.apart,
               evidence |-> record.evidence]
  /\ record.quiet \in 0..(Patience + 1)
  /\ IsFiniteSet(DOMAIN record.seen)
  /\ \A m \in DOMAIN record.seen : record.seen[m] \in Nat

AlarmInv ==
  /\ AlarmTypes
  /\ Searched
  /\ \E h : SeenAs(h)
  /\ ReportsApart
  /\ ReportHasEvidence

\* The bounds are numbers.
LEMMA AlarmBounds ==
  /\ SuppressionWindow \in Nat /\ ObservationWindow \in Nat /\ MaxLate \in Nat
  /\ CycleGap \in Nat /\ ReportThresh \in Nat /\ ReportThresh >= 1
  /\ ReportThresh * CycleGap \in Nat /\ (ReportThresh - 1) * CycleGap \in Nat
  /\ ReportThresh * CycleGap = (ReportThresh - 1) * CycleGap + CycleGap
  /\ (ReportThresh - 1) * CycleGap + MaxLate <= ObservationWindow
  /\ Oldest \in Nat /\ Oldest >= SuppressionWindow + MaxLate /\ Oldest > ObservationWindow + MaxLate
  /\ Patience \in Nat
  /\ Patience = SuppressionWindow + ReportThresh * CycleGap + MaxLate + MaxLate
  <1>1. /\ SuppressionWindow \in Nat /\ ObservationWindow \in Nat /\ MaxLate \in Nat
        /\ CycleGap \in Nat /\ ReportThresh \in Nat /\ ReportThresh >= 1
        /\ (ReportThresh - 1) * CycleGap + MaxLate <= ObservationWindow
    BY AlarmAssumption
  <1>2. PICK t \in Nat : ReportThresh = t + 1
    <2>1. ReportThresh - 1 \in Nat /\ ReportThresh = (ReportThresh - 1) + 1
      BY <1>1
    <2> QED
      BY <2>1
  <1>3. PICK k \in Nat : k = t * CycleGap
    BY <1>1
  <1>4. ReportThresh * CycleGap = k + CycleGap /\ (ReportThresh - 1) * CycleGap = k
    BY <1>1, <1>2, <1>3
  <1>5. /\ Oldest \in Nat /\ Oldest >= SuppressionWindow + MaxLate
        /\ Oldest > ObservationWindow + MaxLate
    BY <1>1 DEF Oldest, MaxOf
  <1>6. Patience = SuppressionWindow + (k + CycleGap) + MaxLate + MaxLate
    BY <1>1, <1>4 DEF Patience
  <1> QED
    BY <1>1, <1>4, <1>5, <1>6

\* No occurrence of the search is so old that a later report forgets it: as
\* many as are needed for a line would be younger.
LEMMA NoneForgotten ==
  ASSUME AlarmTypes, NEW w \in Nat, Dense(w),
         NEW m \in DOMAIN policy.occurrences, policy.occurrences[m] < w
  PROVE  policy.occurrences[m] <= ObservationWindow
  <1> DEFINE D == DOMAIN policy.occurrences
             occ == policy.occurrences
             n == ReportThresh - 1
  <1>a. IsFiniteSet(D) /\ Cardinality(D) < ReportThresh /\ breach.found \in 0..CycleGap
    BY DEF AlarmTypes
  <1>b. occ[m] \in Nat
    BY AlarmBounds DEF AlarmTypes
  <1>c. n \in Nat
    BY AlarmBounds
  <1>1. n \in Nat /\ occ[m] \in Nat /\ IsFiniteSet(D) /\ Cardinality(D) < ReportThresh
        /\ breach.found \in 0..CycleGap /\ Cardinality(D) \in Nat
    BY <1>a, <1>b, <1>c, FS_CardinalityType
  <1> SUFFICES ASSUME occ[m] > MaxLate + n * CycleGap
               PROVE  FALSE
    BY <1>1, AlarmBounds
  <1>2. ASSUME NEW j \in 0..(n - 1)
        PROVE  \E k \in D \ {m} :
                 occ[k] \in (MaxLate + 1 + j * CycleGap)..(MaxLate + 1 + j * CycleGap + CycleGap - 1)
    <2>1. PICK p \in Nat : p = j * CycleGap /\ p + CycleGap <= n * CycleGap
      <3>1. PICK d \in Nat : n = j + 1 + d
        <4>1. n - j - 1 \in Nat /\ n = j + 1 + (n - j - 1)
          BY <1>1
        <4> QED
          BY <4>1
      <3>2. PICK p \in Nat, q \in Nat : p = j * CycleGap /\ q = d * CycleGap
        BY AlarmBounds
      <3>3. n * CycleGap = p + CycleGap + q
        BY <3>1, <3>2, AlarmBounds
      <3> QED
        BY <3>2, <3>3, AlarmBounds
    <2>2. n * CycleGap \in Nat
      BY AlarmBounds
    <2> DEFINE x == MaxLate + 1 + p
    <2>3. x \in Int /\ x > breach.found - CycleGap /\ x + CycleGap - 1 < w
      BY <1>1, <2>1, <2>2, AlarmBounds
    <2>4. PICK age \in x..(x + CycleGap - 1) : Looked(age)
      BY <2>3 DEF Dense
    <2>5. age > MaxLate /\ age < occ[m]
      BY <1>1, <2>1, <2>2, AlarmBounds
    <2>6. \A r \in Reporter : reporter[r].late <= MaxLate /\ reporter[r].late \in Nat
      BY AlarmBounds DEF AlarmTypes
    <2>7. PICK k \in D : occ[k] = age
      BY <2>4, <2>5, <2>6, AlarmBounds DEF Looked
    <2>8. k \in D \ {m} /\ occ[k] \in x..(x + CycleGap - 1)
      BY <2>4, <2>5, <2>7, <1>1
    <2>9. x = MaxLate + 1 + j * CycleGap
      BY <2>1
    <2> HIDE DEF x, D, occ
    <2> QED
      BY <2>8, <2>9
  <1>3. IsFiniteSet(D \ {m}) /\ Cardinality(D \ {m}) = Cardinality(D) - 1
    BY <1>1, FS_RemoveElement
  <1>4. n <= Cardinality(D \ {m})
    <2>1. PICK base \in Int : base = MaxLate + 1
      BY AlarmBounds
    <2>2. IsFiniteSet(D \ {m}) /\ n \in Nat /\ CycleGap \in Nat
      BY <1>1, <1>3, AlarmBounds
    <2>3. \A j \in 0..(n - 1) :
            \E k \in D \ {m} : occ[k] \in (base + j * CycleGap)..(base + j * CycleGap + CycleGap - 1)
      BY <1>2, <2>1
    <2> HIDE DEF D, occ, n
    <2> QED
      BY <2>2, <2>3, OneInEachWindow
  <1> HIDE DEF D
  <1> QED
    BY <1>1, <1>3, <1>4, AlarmBounds

\* The search ends: after so long, enough of the reports have been decided.
LEMMA SearchEnds ==
  ASSUME AlarmTypes, NEW w \in Nat, Dense(w)
  PROVE  w <= MaxLate + ReportThresh * CycleGap
  <1> DEFINE D == DOMAIN policy.occurrences
             occ == policy.occurrences
             n == ReportThresh
  <1>1. n \in Nat /\ IsFiniteSet(D) /\ Cardinality(D) < n
        /\ breach.found \in 0..CycleGap /\ Cardinality(D) \in Nat
    BY AlarmBounds, FS_CardinalityType DEF AlarmTypes
  <1> SUFFICES ASSUME w > MaxLate + n * CycleGap
               PROVE  FALSE
    BY AlarmBounds
  <1>2. ASSUME NEW j \in 0..(n - 1)
        PROVE  \E k \in D :
                 occ[k] \in (MaxLate + 1 + j * CycleGap)..(MaxLate + 1 + j * CycleGap + CycleGap - 1)
    <2>1. PICK p \in Nat : p = j * CycleGap /\ p + CycleGap <= n * CycleGap
      <3>1. PICK d \in Nat : n = j + 1 + d
        <4>1. n - j - 1 \in Nat /\ n = j + 1 + (n - j - 1)
          BY <1>1
        <4> QED
          BY <4>1
      <3>2. PICK p \in Nat, q \in Nat : p = j * CycleGap /\ q = d * CycleGap
        BY AlarmBounds
      <3>3. n * CycleGap = p + CycleGap + q
        BY <3>1, <3>2, AlarmBounds
      <3> QED
        BY <3>2, <3>3, AlarmBounds
    <2>2. n * CycleGap \in Nat
      BY AlarmBounds
    <2> DEFINE x == MaxLate + 1 + p
    <2>3. x \in Int /\ x > breach.found - CycleGap /\ x + CycleGap - 1 < w
      BY <1>1, <2>1, <2>2, AlarmBounds
    <2>4. PICK age \in x..(x + CycleGap - 1) : Looked(age)
      BY <2>3 DEF Dense
    <2>5. age > MaxLate
      BY <1>1, <2>1, <2>2, AlarmBounds
    <2>6. \A r \in Reporter : reporter[r].late <= MaxLate /\ reporter[r].late \in Nat
      BY AlarmBounds DEF AlarmTypes
    <2>7. PICK k \in D : occ[k] = age
      BY <2>4, <2>5, <2>6, AlarmBounds DEF Looked
    <2>8. k \in D /\ occ[k] \in x..(x + CycleGap - 1)
      BY <2>4, <2>7
    <2>9. x = MaxLate + 1 + j * CycleGap
      BY <2>1
    <2> HIDE DEF x, D, occ
    <2> QED
      BY <2>8, <2>9
  <1>3. n <= Cardinality(D)
    <2>1. PICK base \in Int : base = MaxLate + 1
      BY AlarmBounds
    <2>2. IsFiniteSet(D) /\ n \in Nat /\ CycleGap \in Nat
      BY <1>1, AlarmBounds
    <2>3. \A j \in 0..(n - 1) :
            \E k \in D : occ[k] \in (base + j * CycleGap)..(base + j * CycleGap + CycleGap - 1)
      BY <1>2, <2>1
    <2> HIDE DEF D, occ, n
    <2> QED
      BY <2>2, <2>3, OneInEachWindow
  <1> QED
    BY <1>1, <1>3

\* A search that has not begun.
LEMMA NotBegun ==
  ASSUME NEW found \in Nat, NEW x \in Int, x > found - CycleGap, x + CycleGap - 1 < 0
  PROVE  FALSE
  BY AlarmBounds

\* Time passes.
LEMMA TimeKeepsAlarm ==
  ASSUME AlarmInv, TimePasses
  PROVE  AlarmInv'
  <1>0. AlarmTypes
    BY DEF AlarmInv
  <1> DEFINE D == DOMAIN policy.occurrences
             occ == policy.occurrences
             prev == policy.last
  <1>1. /\ policy' = [consecutive |-> policy'.consecutive, last |-> policy'.last,
                      occurrences |-> policy'.occurrences]
        /\ policy'.last = Aged(prev)
        /\ policy'.occurrences = [m \in D |-> Aged(occ[m])]
    BY <1>0 DEF TimePasses, AlarmTypes
  <1>2. /\ breach.on => breach.found < CycleGap
        /\ alarmFile' = alarmFile /\ breach'.on = breach.on
        /\ breach'.found = IF breach.on THEN breach.found + 1 ELSE 0
        /\ breach'.lasts = IF breach.on /\ alarmFile THEN MinOf(breach.lasts + 1, Patience + 1) ELSE 0
        /\ breach' = [on |-> breach'.on, found |-> breach'.found, lasts |-> breach'.lasts]
    BY <1>0 DEF TimePasses, AlarmTypes
  <1>3. /\ record'.quiet = MinOf(record.quiet + 1, Patience + 1)
        /\ record'.seen = NoOlder([m \in DOMAIN record.seen |-> record.seen[m] + 1],
                                  ObservationWindow + MaxLate)
        /\ record'.apart = record.apart /\ record'.evidence = record.evidence
        /\ record' = [seen |-> record'.seen, quiet |-> record'.quiet, apart |-> record'.apart,
                      evidence |-> record'.evidence]
    BY <1>0 DEF TimePasses, AlarmTypes
  <1>4. \A r \in Reporter :
          /\ reporter'[r].pc = reporter[r].pc
          /\ reporter[r].pc # "idle" => reporter'[r].late = reporter[r].late + 1
          /\ reporter'[r] \in [pc : {"idle", "decide", "write"}, late : 0..MaxLate]
    <2> SUFFICES ASSUME NEW r \in Reporter
                 PROVE  /\ reporter'[r].pc = reporter[r].pc
                        /\ reporter[r].pc # "idle" => reporter'[r].late = reporter[r].late + 1
                        /\ reporter'[r] \in [pc : {"idle", "decide", "write"}, late : 0..MaxLate]
      OBVIOUS
    <2>1. /\ reporter[r].pc # "idle" => reporter[r].late < MaxLate
          /\ reporter'[r] = IF reporter[r].pc = "idle" THEN Asleep
                            ELSE [reporter[r] EXCEPT !.late = @ + 1]
          /\ reporter[r] \in [pc : {"idle", "decide", "write"}, late : 0..MaxLate]
      BY <1>0 DEF TimePasses, AlarmTypes
    <2>2. CASE reporter[r].pc = "idle"
      BY <2>1, <2>2, AlarmBounds DEF Asleep
    <2>3. CASE reporter[r].pc # "idle"
      <3>1. PICK l \in 0..MaxLate : l = reporter[r].late + 1
        BY <2>1, <2>3, AlarmBounds
      <3>2. reporter'[r] = [reporter[r] EXCEPT !.late = l]
        BY <2>1, <2>3, <3>1
      <3> QED
        BY <2>1, <3>1, <3>2
    <2> QED
      BY <2>2, <2>3
  <1>5. reporter' = [r \in Reporter |-> reporter'[r]]
    BY DEF TimePasses
  <1>6. /\ DOMAIN policy'.occurrences = D
        /\ \A m \in D : policy'.occurrences[m] = Aged(occ[m])
    BY <1>1
  <1>7. \A age \in 0..Oldest : /\ Aged(age) \in 0..Oldest /\ age <= Aged(age)
                               /\ age < Oldest => Aged(age) = age + 1
                               /\ Aged(age) < Oldest => age < Oldest
    BY AlarmBounds DEF Aged
  <1> DEFINE older == [m \in DOMAIN record.seen |-> record.seen[m] + 1]
  <1>8. /\ DOMAIN record'.seen = {m \in DOMAIN record.seen :
                                    record.seen[m] + 1 <= ObservationWindow + MaxLate}
        /\ \A m \in DOMAIN record'.seen : record'.seen[m] = record.seen[m] + 1
        /\ IsFiniteSet(DOMAIN record'.seen)
    <2>1. IsFiniteSet(DOMAIN older) /\ DOMAIN older = DOMAIN record.seen
      BY <1>0 DEF AlarmTypes
    <2>2. \A m \in DOMAIN older : older[m] = record.seen[m] + 1
      OBVIOUS
    <2>3. record'.seen = NoOlder(older, ObservationWindow + MaxLate)
      BY <1>3
    <2> HIDE DEF older
    <2>4. PICK limit : limit = ObservationWindow + MaxLate
      OBVIOUS
    <2>5. /\ DOMAIN NoOlder(older, limit) = {m \in DOMAIN older : older[m] <= limit}
          /\ \A m \in DOMAIN NoOlder(older, limit) : NoOlder(older, limit)[m] = older[m]
          /\ IsFiniteSet(DOMAIN NoOlder(older, limit))
      BY <2>1, NoOlderAges
    <2>6. record'.seen = NoOlder(older, limit)
      BY <2>3, <2>4
    <2> QED
      BY <2>1, <2>2, <2>4, <2>5, <2>6
  <1>9. AlarmTypes'
    <2>1. policy'.last \in 0..Oldest
      BY <1>0, <1>1, <1>7 DEF AlarmTypes
    <2>2. /\ IsFiniteSet(DOMAIN policy'.occurrences)
          /\ \A m \in DOMAIN policy'.occurrences : policy'.occurrences[m] \in 0..Oldest
          /\ Cardinality(DOMAIN policy'.occurrences) < ReportThresh
      BY <1>0, <1>6, <1>7 DEF AlarmTypes
    <2>3. reporter' \in [Reporter -> [pc : {"idle", "decide", "write"}, late : 0..MaxLate]]
      BY <1>4, <1>5
    <2>4. /\ breach'.on \in BOOLEAN /\ breach'.found \in 0..CycleGap
          /\ breach'.lasts \in 0..(Patience + 1)
          /\ (breach'.on /\ alarmFile') \/ breach'.lasts = 0
          /\ alarmFile' \in BOOLEAN
      BY <1>0, <1>2, AlarmBounds DEF AlarmTypes, MinOf
    <2>5. breach' \in [on : BOOLEAN, found : 0..CycleGap, lasts : 0..(Patience + 1)]
      BY <1>2, <2>4
    <2>6. record'.quiet \in 0..(Patience + 1)
      BY <1>0, <1>3, AlarmBounds DEF AlarmTypes, MinOf
    <2>7. \A m \in DOMAIN record'.seen : record'.seen[m] \in Nat
      BY <1>0, <1>8 DEF AlarmTypes
    <2>8. /\ policy' = [consecutive |-> policy'.consecutive, last |-> policy'.last,
                        occurrences |-> policy'.occurrences]
          /\ record' = [seen |-> record'.seen, quiet |-> record'.quiet,
                        apart |-> record'.apart, evidence |-> record'.evidence]
          /\ IsFiniteSet(DOMAIN record'.seen)
      BY <1>1, <1>3, <1>8
    <2> QED
      BY <2>1, <2>2, <2>3, <2>4, <2>5, <2>6, <2>7, <2>8, Zenon DEF AlarmTypes
  <1>10. /\ Lasting \in Nat /\ Lasting' \in Nat /\ Lasting' <= Lasting + 1
         /\ ~(breach.on /\ alarmFile) => Lasting' = 0
    BY <1>0, <1>2, <1>3, AlarmBounds DEF AlarmTypes, MinOf, Lasting
  <1>11. Searched'
    <2>1. CASE \E r \in Reporter : Written(r)
      <3>1. PICK r \in Reporter : Written(r)
        BY <2>1
      <3>2. reporter[r].late \in Nat /\ reporter'[r].late = reporter[r].late + 1
            /\ reporter'[r].pc = "write"
        BY <1>0, <1>4, <3>1, AlarmBounds DEF Written, AlarmTypes
      <3>3. Written(r)'
        BY <1>10, <3>1, <3>2, AlarmBounds DEF Written
      <3> QED
        BY <3>3 DEF Searched
    <2>2. CASE Lasting' = 0
      <3>1. policy'.last \in Nat /\ breach'.found \in Nat
        BY <1>9, AlarmBounds DEF AlarmTypes
      <3>2. Dense(0)'
        BY <3>1, NotBegun DEF Dense
      <3>3. Counted(0)'
        BY <2>2, <3>1, <3>2, AlarmBounds DEF Counted
      <3> QED
        BY <3>3 DEF Searched
    <2>3. ASSUME breach.on, alarmFile, NEW w \in Nat, Counted(w)
          PROVE  Searched'
      <3>1. prev \in 0..Oldest /\ policy'.last = Aged(prev) /\ breach.found \in 0..CycleGap
            /\ breach'.found = breach.found + 1
        BY <1>0, <1>1, <1>2, <2>3 DEF AlarmTypes
      <3>2. policy'.last < Oldest => Lasting' <= policy'.last
        BY <1>7, <1>10, <2>3, <3>1, AlarmBounds DEF Counted
      <3>3. CASE policy'.last < SuppressionWindow
        <4>1. Lasting' <= SuppressionWindow
          BY <1>7, <1>10, <3>1, <3>2, <3>3, AlarmBounds
        <4>2. breach'.found \in Nat
          BY <3>1, AlarmBounds
        <4>3. Dense(0)'
          BY <4>2, NotBegun DEF Dense
        <4>4. Counted(0)'
          BY <3>2, <4>1, <4>3, AlarmBounds DEF Counted
        <4> QED
          BY <4>4 DEF Searched
      <3>4. CASE ~(policy'.last < SuppressionWindow)
        <4>1. Lasting' <= (w + 1) + SuppressionWindow
          BY <1>10, <2>3, AlarmBounds DEF Counted
        <4>2. ASSUME NEW l \in 0..MaxLate, l < w + 1
              PROVE  policy'.last - l >= SuppressionWindow
          <5>1. CASE l = 0
            BY <1>7, <3>1, <3>4, <5>1, AlarmBounds
          <5>2. CASE l # 0
            <6>1. PICK k \in 0..MaxLate : l = k + 1 /\ k < w
              <7>1. l - 1 \in 0..MaxLate /\ l = (l - 1) + 1 /\ l - 1 < w
                BY <4>2, <5>2, AlarmBounds
              <7> QED
                BY <7>1
            <6>2. prev - k >= SuppressionWindow
              BY <2>3, <6>1 DEF Counted
            <6>3. CASE prev < Oldest
              BY <1>7, <3>1, <6>1, <6>2, <6>3, AlarmBounds
            <6>4. CASE prev = Oldest
              BY <1>7, <3>1, <6>4, AlarmBounds
            <6> QED
              BY <3>1, <6>3, <6>4, AlarmBounds
          <5> QED
            BY <5>1, <5>2
        <4>3. Dense(w + 1)'
          <5> SUFFICES ASSUME NEW x \in Int, x > breach'.found - CycleGap,
                              x + CycleGap - 1 < w + 1
                       PROVE  \E age \in x..(x + CycleGap - 1) : Looked(age)'
            BY DEF Dense
          <5>1. PICK y \in Int : x = y + 1
            <6>1. x - 1 \in Int /\ x = (x - 1) + 1
              OBVIOUS
            <6> QED
              BY <6>1
          <5>2. y > breach.found - CycleGap /\ y + CycleGap - 1 < w
            BY <3>1, <5>1, AlarmBounds
          <5>3. PICK age \in y..(y + CycleGap - 1) : Looked(age)
            BY <2>3, <5>2 DEF Counted, Dense
          <5>4. age + 1 \in x..(x + CycleGap - 1)
            BY <5>1, <5>3, AlarmBounds
          <5>5. Looked(age + 1)'
            <6>1. CASE \E m \in D : occ[m] = age
              <7>1. PICK m \in D : occ[m] = age
                BY <6>1
              <7>2. occ[m] \in 0..Oldest
                BY <1>0 DEF AlarmTypes
              <7>3. occ[m] < w
                BY <5>2, <5>3, <7>1, <7>2, AlarmBounds
              <7>4. Dense(w)
                BY <2>3 DEF Counted
              <7>5. occ[m] <= ObservationWindow
                BY <1>0, <2>3, <7>3, <7>4, NoneForgotten
              <7>6. Aged(occ[m]) = age + 1
                BY <1>7, <7>1, <7>2, <7>5, AlarmBounds
              <7> QED
                BY <1>6, <7>6 DEF Looked
            <6>2. CASE \E r \in Reporter : reporter[r].pc = "decide" /\ reporter[r].late = age
              BY <1>4, <6>2 DEF Looked
            <6> QED
              BY <5>3, <6>1, <6>2 DEF Looked
          <5> QED
            BY <5>4, <5>5
        <4>4. Counted(w + 1)'
          BY <3>2, <4>1, <4>2, <4>3 DEF Counted
        <4>5. w + 1 \in Nat
          BY <2>3
        <4> QED
          BY <4>4, <4>5 DEF Searched
      <3> QED
        BY <3>3, <3>4
    <2> QED
      BY <1>10, <2>1, <2>2, <2>3 DEF AlarmInv, Searched
  <1>12. \E h : SeenAs(h)'
    <2>1. PICK h : SeenAs(h)
      BY DEF AlarmInv
    <2>2. \A m \in Recent' : m \in Recent /\ policy'.occurrences[m] = occ[m] + 1
                             /\ occ[m] + 1 <= ObservationWindow + MaxLate
      <3> SUFFICES ASSUME NEW m \in Recent'
                   PROVE  m \in Recent /\ policy'.occurrences[m] = occ[m] + 1
                          /\ occ[m] + 1 <= ObservationWindow + MaxLate
        OBVIOUS
      <3>1. m \in D /\ policy'.occurrences[m] = Aged(occ[m]) /\ Aged(occ[m]) <= ObservationWindow + MaxLate
        BY <1>6 DEF Recent
      <3>2. occ[m] \in 0..Oldest
        BY <1>0, <3>1 DEF AlarmTypes
      <3>3. Aged(occ[m]) = occ[m] + 1 /\ occ[m] <= ObservationWindow + MaxLate
        BY <1>7, <3>1, <3>2, AlarmBounds
      <3> QED
        BY <3>1, <3>3 DEF Recent
    <2>0. PICK g : g = [m \in Recent' |-> h[m]]
      OBVIOUS
    <2>3. \A m \in Recent' : h[m] \in DOMAIN record'.seen
                             /\ record'.seen[h[m]] = policy'.occurrences[m]
      BY <1>8, <2>1, <2>2 DEF SeenAs
    <2>4. \A m, n \in Recent' : h[m] = h[n] => m = n
      BY <2>1, <2>2 DEF SeenAs
    <2>a. g \in [Recent' -> DOMAIN record'.seen] /\ \A m \in Recent' : g[m] = h[m]
      BY <2>0, <2>3
    <2>5. SeenAs(g)'
      BY <2>3, <2>4, <2>a DEF SeenAs
    <2> QED
      BY <2>5
  <1>13. ReportsApart' /\ ReportHasEvidence'
    BY <1>3 DEF AlarmInv, ReportsApart, ReportHasEvidence
  <1> QED
    BY <1>9, <1>11, <1>12, <1>13 DEF AlarmInv

\* The breach ends or begins, the file breaks or works again: the count of how
\* long it has lasted starts again.
LEMMA OutsideKeepsAlarm ==
  ASSUME AlarmInv, OutsideMoves
  PROVE  AlarmInv'
  <1>0. AlarmTypes
    BY DEF AlarmInv
  <1>1. UNCHANGED <<policy, reporter, record>>
    BY DEF OutsideMoves
  <1>2. /\ breach'.lasts = 0 /\ breach'.found \in 0..CycleGap /\ alarmFile' \in BOOLEAN
        /\ breach' \in [on : BOOLEAN, found : 0..CycleGap, lasts : 0..(Patience + 1)]
    <2>0. breach \in [on : BOOLEAN, found : 0..CycleGap, lasts : 0..(Patience + 1)]
          /\ alarmFile \in BOOLEAN /\ 0 \in 0..CycleGap /\ 0 \in 0..(Patience + 1)
      BY <1>0, AlarmBounds DEF AlarmTypes
    <2>1. PICK b \in BOOLEAN, c \in BOOLEAN : b = ~breach.on /\ c = ~alarmFile
      BY Zenon
    <2>2. CASE breach' = [on |-> b, found |-> 0, lasts |-> 0] /\ alarmFile' = alarmFile
      BY <2>0, <2>2
    <2>3. CASE breach' = [breach EXCEPT !.lasts = 0] /\ alarmFile' = c
      BY <2>0, <2>3
    <2> QED
      BY <2>1, <2>2, <2>3, Zenon DEF OutsideMoves
  <1>3. AlarmTypes'
    BY <1>0, <1>1, <1>2 DEF AlarmTypes
  <1>4. Lasting' = 0
    BY <1>1, <1>2, <1>0, AlarmBounds DEF Lasting, MinOf, AlarmTypes
  <1>5. policy'.last \in Nat /\ breach'.found \in Nat
    BY <1>3, AlarmBounds DEF AlarmTypes
  <1>6. Dense(0)'
    BY <1>5, NotBegun DEF Dense
  <1>7. Counted(0)'
    BY <1>4, <1>5, <1>6, AlarmBounds DEF Counted
  <1>8. (\E h : SeenAs(h))'
    BY <1>1 DEF AlarmInv, SeenAs, Recent
  <1> QED
    BY <1>1, <1>3, <1>7, <1>8 DEF AlarmInv, Searched, ReportsApart, ReportHasEvidence

\* The breach is found.
LEMMA FoundKeepsAlarm ==
  ASSUME AlarmInv, NEW r \in Reporter, Found(r)
  PROVE  AlarmInv'
  <1>0. AlarmTypes
    BY DEF AlarmInv
  <1>1. UNCHANGED <<policy, alarmFile, record>> /\ reporter[r].pc = "idle"
    BY DEF Found
  <1>2. /\ reporter'[r].pc = "decide" /\ reporter'[r].late = 0
        /\ \A q \in Reporter \ {r} : reporter'[q] = reporter[q]
        /\ reporter' \in [Reporter -> [pc : {"idle", "decide", "write"}, late : 0..MaxLate]]
    <2>1. reporter' = [reporter EXCEPT ![r] = [pc |-> "decide", late |-> 0]]
      BY DEF Found
    <2>2. [pc |-> "decide", late |-> 0] \in [pc : {"idle", "decide", "write"}, late : 0..MaxLate]
      BY AlarmBounds
    <2> QED
      BY <1>0, <2>1, <2>2 DEF AlarmTypes
  <1>3. breach'.found = 0 /\ breach'.lasts = breach.lasts /\ breach'.on = breach.on
        /\ breach' \in [on : BOOLEAN, found : 0..CycleGap, lasts : 0..(Patience + 1)]
    <2>1. breach' = [breach EXCEPT !.found = 0]
      BY DEF Found
    <2>2. breach \in [on : BOOLEAN, found : 0..CycleGap, lasts : 0..(Patience + 1)]
          /\ 0 \in 0..CycleGap
      BY <1>0, AlarmBounds DEF AlarmTypes
    <2> QED
      BY <2>1, <2>2
  <1>4. AlarmTypes'
    BY <1>0, <1>1, <1>2, <1>3 DEF AlarmTypes
  <1>5. Lasting' = Lasting
    BY <1>1, <1>3 DEF Lasting
  <1>6. Searched'
    <2>1. ASSUME NEW q \in Reporter, Written(q)
          PROVE  Written(q)'
      <3>1. q \in Reporter \ {r}
        BY <1>1, <2>1 DEF Written
      <3> QED
        BY <1>2, <1>5, <2>1, <3>1 DEF Written
    <2>2. ASSUME NEW w \in Nat, Counted(w)
          PROVE  Counted(w)'
      <3>1. Dense(w)'
        <4> SUFFICES ASSUME NEW x \in Int, x > breach'.found - CycleGap,
                            x + CycleGap - 1 < w
                     PROVE  \E age \in x..(x + CycleGap - 1) : Looked(age)'
          BY DEF Dense
        <4>1. CASE x <= 0
          <5>1. 0 \in x..(x + CycleGap - 1)
            BY <1>3, <4>1, AlarmBounds
          <5>2. Looked(0)'
            BY <1>2 DEF Looked
          <5> QED
            BY <5>1, <5>2
        <4>2. CASE x > 0
          <5>1. x > breach.found - CycleGap
            BY <1>0, <4>2, AlarmBounds DEF AlarmTypes
          <5>2. PICK age \in x..(x + CycleGap - 1) : Looked(age)
            BY <2>2, <5>1 DEF Counted, Dense
          <5>3. Looked(age)'
            BY <1>1, <1>2, <5>2 DEF Looked
          <5> QED
            BY <5>2, <5>3
        <4> QED
          BY <4>1, <4>2
      <3> QED
        BY <1>1, <1>5, <2>2, <3>1 DEF Counted
    <2> QED
      BY <2>1, <2>2 DEF AlarmInv, Searched
  <1>7. (\E h : SeenAs(h))'
    BY <1>1 DEF AlarmInv, SeenAs, Recent
  <1> QED
    BY <1>1, <1>4, <1>6, <1>7 DEF AlarmInv, ReportsApart, ReportHasEvidence

\* The line of a report that was let through is written, or lost.
LEMMA WriteKeepsAlarm ==
  ASSUME AlarmInv, NEW r \in Reporter, WritesLine(r)
  PROVE  AlarmInv'
  <1>0. AlarmTypes
    BY DEF AlarmInv
  <1>1. UNCHANGED <<policy, alarmFile, breach>>
    BY DEF WritesLine
  <1>2. reporter' \in [Reporter -> [pc : {"idle", "decide", "write"}, late : 0..MaxLate]]
    <2>1. reporter' = [reporter EXCEPT ![r] = Asleep]
      BY DEF WritesLine
    <2>2. Asleep \in [pc : {"idle", "decide", "write"}, late : 0..MaxLate]
      BY AlarmBounds DEF Asleep
    <2> QED
      BY <1>0, <2>1, <2>2 DEF AlarmTypes
  <1>3. /\ record'.quiet = IF alarmFile THEN 0 ELSE record.quiet
        /\ record'.seen = record.seen /\ record'.apart = record.apart
        /\ record'.evidence = record.evidence
        /\ record' = [seen |-> record'.seen, quiet |-> record'.quiet, apart |-> record'.apart,
                      evidence |-> record'.evidence]
    BY <1>0 DEF WritesLine, AlarmTypes
  <1>a. record'.quiet \in 0..(Patience + 1)
    BY <1>0, <1>3, AlarmBounds DEF AlarmTypes
  <1>4. AlarmTypes'
    BY <1>0, <1>1, <1>2, <1>3, <1>a DEF AlarmTypes
  <1>5. Lasting' = 0
    BY <1>0, <1>1, <1>3, AlarmBounds DEF Lasting, MinOf, AlarmTypes
  <1>6. policy'.last \in Nat /\ breach'.found \in Nat
    BY <1>4, AlarmBounds DEF AlarmTypes
  <1>7. Dense(0)'
    BY <1>6, NotBegun DEF Dense
  <1>8. Counted(0)'
    BY <1>5, <1>6, <1>7, AlarmBounds DEF Counted
  <1>9. (\E h : SeenAs(h))'
    BY <1>1, <1>3 DEF AlarmInv, SeenAs, Recent
  <1> QED
    BY <1>1, <1>3, <1>4, <1>8, <1>9 DEF AlarmInv, Searched, ReportsApart, ReportHasEvidence

\* What the policy keeps was seen, each once, and is in the window of the report.
LEMMA KeptIsSeen ==
  ASSUME AlarmTypes, NEW h, SeenAs(h), NEW r \in Reporter, NEW seen,
         seen = Added(record.seen, reporter[r].late)
  PROVE  /\ IsFiniteSet(DOMAIN Kept(r)) /\ IsFiniteSet(DOMAIN seen)
         /\ \A m \in DOMAIN seen : seen[m] \in Nat
         /\ \A m \in DOMAIN Kept(r) : Kept(r)[m] \in 0..Oldest
         /\ \E m \in DOMAIN Kept(r) : Kept(r)[m] = reporter[r].late
         /\ \A m \in DOMAIN policy.occurrences :
              policy.occurrences[m] <= ObservationWindow
                => \E k \in DOMAIN Kept(r) : Kept(r)[k] = policy.occurrences[m]
         /\ \E g \in [DOMAIN Kept(r) -> DOMAIN seen] :
              /\ \A m \in DOMAIN Kept(r) :
                   seen[g[m]] = Kept(r)[m] /\ Kept(r)[m] <= ObservationWindow + reporter[r].late
              /\ \A m, n \in DOMAIN Kept(r) : g[m] = g[n] => m = n
  <1> DEFINE occ == policy.occurrences
             D == DOMAIN policy.occurrences
             old == NoOlder(occ, ObservationWindow + reporter[r].late)
  <1>1. PICK l \in 0..MaxLate : l = reporter[r].late
    BY DEF AlarmTypes
  <1>2. PICK limit \in Nat : limit = ObservationWindow + l
    BY <1>1, AlarmBounds
  <1>3. /\ DOMAIN NoOlder(occ, limit) = {m \in D : occ[m] <= limit}
        /\ \A m \in DOMAIN NoOlder(occ, limit) : NoOlder(occ, limit)[m] = occ[m]
        /\ IsFiniteSet(DOMAIN NoOlder(occ, limit))
    <2>1. IsFiniteSet(DOMAIN occ) /\ D = DOMAIN occ
      BY DEF AlarmTypes
    <2> HIDE DEF occ, D
    <2> QED
      BY <2>1, NoOlderAges
  <1>4. PICK O : O = NoOlder(occ, limit)
    OBVIOUS
  <1>5. Kept(r) = Added(O, l)
    BY <1>1, <1>2, <1>4 DEF Kept
  <1>6. PICK mark : /\ mark \notin DOMAIN O
                    /\ DOMAIN Kept(r) = DOMAIN O \cup {mark}
                    /\ Kept(r)[mark] = l
                    /\ \A m \in DOMAIN O : Kept(r)[m] = O[m]
                    /\ IsFiniteSet(DOMAIN Kept(r))
    <2>1. IsFiniteSet(DOMAIN O)
      BY <1>3, <1>4
    <2>2. \E mark : /\ mark \notin DOMAIN O
                    /\ DOMAIN Added(O, l) = DOMAIN O \cup {mark}
                    /\ Added(O, l)[mark] = l
                    /\ \A m \in DOMAIN O : Added(O, l)[m] = O[m]
                    /\ IsFiniteSet(DOMAIN Added(O, l))
      BY <2>1, AddedAge
    <2> QED
      BY <1>5, <2>2
  <1>7. PICK sign : /\ sign \notin DOMAIN record.seen
                    /\ DOMAIN seen = DOMAIN record.seen \cup {sign}
                    /\ seen[sign] = l
                    /\ \A m \in DOMAIN record.seen : seen[m] = record.seen[m]
                    /\ IsFiniteSet(DOMAIN seen)
    <2>0. PICK S : S = record.seen
      OBVIOUS
    <2>1. IsFiniteSet(DOMAIN S)
      BY <2>0 DEF AlarmTypes
    <2>2. \E sign : /\ sign \notin DOMAIN S
                    /\ DOMAIN Added(S, l) = DOMAIN S \cup {sign}
                    /\ Added(S, l)[sign] = l
                    /\ \A m \in DOMAIN S : Added(S, l)[m] = S[m]
                    /\ IsFiniteSet(DOMAIN Added(S, l))
      BY <2>1, AddedAge
    <2>3. seen = Added(S, l)
      BY <1>1, <2>0
    <2> QED
      BY <2>0, <2>2, <2>3
  <1> DEFINE K == DOMAIN Kept(r)
  <1>8. \A m \in K : m # mark => m \in Recent /\ Kept(r)[m] = occ[m] /\ occ[m] <= limit
    BY <1>1, <1>2, <1>3, <1>4, <1>6, AlarmBounds DEF Recent, AlarmTypes
  <1>9. PICK g : g = [m \in K |-> IF m = mark THEN sign ELSE h[m]]
    OBVIOUS
  <1>10. \A m \in Recent : h[m] \in DOMAIN record.seen /\ record.seen[h[m]] = occ[m]
    BY DEF SeenAs
  <1>11. \A m \in K : g[m] \in DOMAIN seen /\ seen[g[m]] = Kept(r)[m] /\ Kept(r)[m] <= limit
    <2> SUFFICES ASSUME NEW m \in K
                 PROVE  g[m] \in DOMAIN seen /\ seen[g[m]] = Kept(r)[m] /\ Kept(r)[m] <= limit
      OBVIOUS
    <2>1. CASE m = mark
      BY <1>1, <1>2, <1>6, <1>7, <1>9, <2>1, AlarmBounds
    <2>2. CASE m # mark
      <3>1. g[m] = h[m] /\ h[m] \in DOMAIN record.seen /\ record.seen[h[m]] = Kept(r)[m]
        BY <1>8, <1>9, <1>10, <2>2
      <3> QED
        BY <1>7, <1>8, <2>2, <3>1
    <2> QED
      BY <2>1, <2>2
  <1>12. ASSUME NEW m \in K, NEW n \in K, g[m] = g[n]
         PROVE  m = n
    <2>1. CASE m = mark /\ n # mark
      BY <1>7, <1>8, <1>9, <1>10, <1>12, <2>1
    <2>2. CASE m # mark /\ n = mark
      BY <1>7, <1>8, <1>9, <1>10, <1>12, <2>2
    <2>3. CASE m # mark /\ n # mark
      BY <1>8, <1>9, <1>12, <2>3 DEF SeenAs
    <2> QED
      BY <2>1, <2>2, <2>3
  <1>13. g \in [K -> DOMAIN seen]
    BY <1>9, <1>11
  <1>14. \A m \in DOMAIN seen : seen[m] \in Nat
    BY <1>1, <1>7, AlarmBounds DEF AlarmTypes
  <1>15. \A m \in K : Kept(r)[m] \in 0..Oldest
    BY <1>1, <1>3, <1>4, <1>6, AlarmBounds DEF AlarmTypes
  <1>16. \A m \in D : occ[m] <= ObservationWindow => m \in K /\ Kept(r)[m] = occ[m]
    <2> SUFFICES ASSUME NEW m \in D, occ[m] <= ObservationWindow
                 PROVE  m \in K /\ Kept(r)[m] = occ[m]
      OBVIOUS
    <2>1. occ[m] <= limit
      BY <1>1, <1>2, AlarmBounds DEF AlarmTypes
    <2>2. m \in DOMAIN O /\ O[m] = occ[m]
      BY <1>3, <1>4, <2>1
    <2> QED
      BY <1>6, <2>2
  <1>17. /\ IsFiniteSet(DOMAIN Kept(r)) /\ IsFiniteSet(DOMAIN seen)
         /\ mark \in DOMAIN Kept(r) /\ Kept(r)[mark] = reporter[r].late
    BY <1>1, <1>6, <1>7
  <1>18. /\ g \in [DOMAIN Kept(r) -> DOMAIN seen]
         /\ \A m \in DOMAIN Kept(r) :
              seen[g[m]] = Kept(r)[m] /\ Kept(r)[m] <= ObservationWindow + reporter[r].late
         /\ \A m, n \in DOMAIN Kept(r) : g[m] = g[n] => m = n
    BY <1>1, <1>2, <1>11, <1>12, <1>13
  <1> QED
    BY <1>14, <1>15, <1>16, <1>17, <1>18

\* A report that is not let through: what is counted of it stays counted.
LEMMA CountedOn ==
  ASSUME AlarmTypes, NEW r \in Reporter, reporter[r].pc = "decide", NEW w \in Nat, Counted(w),
         policy'.last = policy.last, breach' = breach, Lasting' = Lasting,
         \A q \in Reporter \ {r} : reporter'[q] = reporter[q],
         \A m \in DOMAIN policy.occurrences : policy.occurrences[m] <= ObservationWindow
           => \E k \in DOMAIN policy'.occurrences :
                policy'.occurrences[k] = policy.occurrences[m],
         \/ reporter[r].late >= w
         \/ \E k \in DOMAIN policy'.occurrences : policy'.occurrences[k] = reporter[r].late
  PROVE  Counted(w)'
  <1>1. Dense(w)'
    <2> SUFFICES ASSUME NEW x \in Int, x > breach'.found - CycleGap,
                        x + CycleGap - 1 < w
                 PROVE  \E age \in x..(x + CycleGap - 1) : Looked(age)'
      BY DEF Dense
    <2>1. PICK age \in x..(x + CycleGap - 1) : Looked(age)
      BY DEF Counted, Dense
    <2>2. age < w
      BY <2>1, AlarmBounds
    <2>3. CASE \E m \in DOMAIN policy.occurrences : policy.occurrences[m] = age
      <3>1. PICK m \in DOMAIN policy.occurrences : policy.occurrences[m] = age
        BY <2>3
      <3>2. policy.occurrences[m] <= ObservationWindow
        BY <2>2, <3>1, NoneForgotten DEF Counted
      <3> QED
        BY <2>1, <3>1, <3>2 DEF Looked
    <2>4. CASE \E q \in Reporter : reporter[q].pc = "decide" /\ reporter[q].late = age
      <3>1. PICK q \in Reporter : reporter[q].pc = "decide" /\ reporter[q].late = age
        BY <2>4
      <3>2. CASE q = r
        <4>1. \E k \in DOMAIN policy'.occurrences : policy'.occurrences[k] = age
          BY <2>2, <3>1, <3>2, AlarmBounds DEF AlarmTypes
        <4> QED
          BY <2>1, <4>1 DEF Looked
      <3>3. CASE q # r
        BY <2>1, <3>1, <3>3 DEF Looked
      <3> QED
        BY <3>2, <3>3
    <2> QED
      BY <2>1, <2>3, <2>4 DEF Looked
  <1> QED
    BY <1>1 DEF Counted

\* The decision whether a report is let through.
LEMMA DecideKeepsAlarm ==
  ASSUME AlarmInv, NEW r \in Reporter, ShouldReport(r)
  PROVE  AlarmInv'
  <1>0. AlarmTypes
    BY DEF AlarmInv
  <1>1. UNCHANGED <<alarmFile, breach>> /\ reporter[r].pc = "decide"
    BY DEF ShouldReport
  <1>2. PICK h : SeenAs(h)
    BY DEF AlarmInv
  <1>3. PICK l \in 0..MaxLate : l = reporter[r].late
    BY <1>0 DEF AlarmTypes
  <1>4. PICK seen : seen = Added(record.seen, reporter[r].late)
    OBVIOUS
  <1>5. reporter' = [reporter EXCEPT ![r] = Asleep] \/ reporter' = [reporter EXCEPT ![r].pc = "write"]
    BY DEF ShouldReport
  <1>6. /\ reporter' \in [Reporter -> [pc : {"idle", "decide", "write"}, late : 0..MaxLate]]
        /\ \A q \in Reporter \ {r} : reporter'[q] = reporter[q]
        /\ reporter' = [reporter EXCEPT ![r].pc = "write"]
             => reporter'[r].pc = "write" /\ reporter'[r].late = l
    <2>1. Asleep \in [pc : {"idle", "decide", "write"}, late : 0..MaxLate]
      BY AlarmBounds DEF Asleep
    <2>2. CASE reporter' = [reporter EXCEPT ![r] = Asleep]
      BY <1>0, <2>1, <2>2 DEF AlarmTypes, Asleep
    <2>3. CASE reporter' = [reporter EXCEPT ![r].pc = "write"]
      BY <1>0, <1>3, <2>3 DEF AlarmTypes
    <2> QED
      BY <1>5, <2>2, <2>3
  <1>7. ASSUME record'.quiet = record.quiet
        PROVE  Lasting' = Lasting
    BY <1>1, <1>7 DEF Lasting
  <1>8. ASSUME Lasting' = Lasting, NEW q \in Reporter, Written(q)
        PROVE  Written(q)'
    <2>1. q \in Reporter \ {r}
      BY <1>1, <1>8 DEF Written
    <2> QED
      BY <1>6, <1>8, <2>1 DEF Written
  <1>9. ASSUME Lasting' = Lasting, reporter' = [reporter EXCEPT ![r].pc = "write"]
        PROVE  Searched'
    <2>1. ASSUME NEW w \in Nat, Counted(w)
          PROVE  Written(r)'
      <3>1. w <= MaxLate + ReportThresh * CycleGap
        BY <1>0, <2>1, SearchEnds DEF Counted
      <3>2. Lasting \in Nat /\ Lasting <= w + SuppressionWindow
        BY <1>0, <2>1, AlarmBounds DEF Counted, Lasting, MinOf, AlarmTypes
      <3>3. Lasting <= SuppressionWindow + ReportThresh * CycleGap + MaxLate + l
        BY <1>3, <3>1, <3>2, AlarmBounds
      <3> QED
        BY <1>6, <1>9, <3>3 DEF Written
    <2> QED
      BY <1>8, <1>9, <2>1 DEF AlarmInv, Searched
  <1>10. CASE Suppressed(r) /\ UNCHANGED <<policy, record>>
    <2>1. AlarmTypes'
      BY <1>0, <1>1, <1>6, <1>10 DEF AlarmTypes
    <2>2. Lasting' = Lasting
      BY <1>7, <1>10
    <2>3. ASSUME NEW w \in Nat, Counted(w)
          PROVE  Counted(w)'
      <3>1. reporter[r].late >= w
        BY <1>3, <1>10, <2>3, AlarmBounds, <1>0 DEF Counted, Suppressed, AlarmTypes
      <3> QED
        BY <1>0, <1>1, <1>6, <1>10, <2>2, <2>3, <3>1, CountedOn
    <2>4. Searched'
      BY <1>8, <2>2, <2>3 DEF AlarmInv, Searched
    <2> QED
      BY <1>10, <2>1, <2>4 DEF AlarmInv, SeenAs, Recent, ReportsApart, ReportHasEvidence
  <1>11. CASE /\ ~Suppressed(r)
              /\ policy' = [policy EXCEPT !.last = reporter[r].late]
              /\ reporter' = [reporter EXCEPT ![r].pc = "write"]
              /\ record' = [record EXCEPT !.apart = policy.last - reporter[r].late]
    <2>1. /\ policy'.last = l /\ policy'.occurrences = policy.occurrences
          /\ policy' = [consecutive |-> policy'.consecutive, last |-> policy'.last,
                        occurrences |-> policy'.occurrences]
      BY <1>0, <1>3, <1>11 DEF AlarmTypes
    <2>2. /\ record'.seen = record.seen /\ record'.quiet = record.quiet
          /\ record'.evidence = record.evidence /\ record'.apart = policy.last - l
          /\ record' = [seen |-> record'.seen, quiet |-> record'.quiet,
                        apart |-> record'.apart, evidence |-> record'.evidence]
      BY <1>0, <1>3, <1>11 DEF AlarmTypes
    <2>3. l \in 0..Oldest
      BY <1>3, AlarmBounds
    <2>4. AlarmTypes'
      BY <1>0, <1>1, <1>6, <2>1, <2>2, <2>3 DEF AlarmTypes
    <2>5. Searched'
      BY <1>7, <1>9, <1>11, <2>2
    <2>6. (\E k : SeenAs(k))'
      <3>1. Recent' = Recent
        BY <2>1 DEF Recent
      <3>2. PICK k : SeenAs(k)
        BY DEF AlarmInv
      <3>3. SeenAs(k)'
        BY <2>1, <2>2, <3>1, <3>2 DEF SeenAs
      <3> QED
        BY <3>3
    <2>7. ReportsApart'
      BY <1>0, <1>3, <1>11, <2>2, AlarmBounds DEF ReportsApart, Suppressed, AlarmTypes
    <2> QED
      BY <2>2, <2>4, <2>5, <2>6, <2>7 DEF AlarmInv, ReportHasEvidence
  <1>12. /\ IsFiniteSet(DOMAIN Kept(r)) /\ IsFiniteSet(DOMAIN seen)
         /\ \A m \in DOMAIN seen : seen[m] \in Nat
         /\ \A m \in DOMAIN Kept(r) : Kept(r)[m] \in 0..Oldest
         /\ \E m \in DOMAIN Kept(r) : Kept(r)[m] = reporter[r].late
         /\ \A m \in DOMAIN policy.occurrences :
              policy.occurrences[m] <= ObservationWindow
                => \E k \in DOMAIN Kept(r) : Kept(r)[k] = policy.occurrences[m]
    BY <1>0, <1>2, <1>4, KeptIsSeen
  <1>13. PICK g \in [DOMAIN Kept(r) -> DOMAIN seen] :
           /\ \A m \in DOMAIN Kept(r) :
                seen[g[m]] = Kept(r)[m] /\ Kept(r)[m] <= ObservationWindow + reporter[r].late
           /\ \A m, n \in DOMAIN Kept(r) : g[m] = g[n] => m = n
    BY <1>0, <1>2, <1>4, KeptIsSeen
  <1>14. CASE /\ ~Suppressed(r)
              /\ Cardinality(DOMAIN Kept(r)) >= ReportThresh
              /\ LetsThrough(r)
              /\ reporter' = [reporter EXCEPT ![r].pc = "write"]
              /\ record' = [record EXCEPT
                     !.seen = NoAges,
                     !.apart = policy.last - reporter[r].late,
                     !.evidence = InWindow(r, seen)]
    <2>1. /\ policy'.last = l /\ policy'.occurrences = NoAges
          /\ policy' = [consecutive |-> policy'.consecutive, last |-> policy'.last,
                        occurrences |-> policy'.occurrences]
      BY <1>0, <1>3, <1>14 DEF AlarmTypes, LetsThrough
    <2>2. /\ record'.seen = NoAges /\ record'.quiet = record.quiet
          /\ record'.evidence = InWindow(r, seen) /\ record'.apart = policy.last - l
          /\ record' = [seen |-> record'.seen, quiet |-> record'.quiet,
                        apart |-> record'.apart, evidence |-> record'.evidence]
      BY <1>0, <1>3, <1>14 DEF AlarmTypes
    <2>3. l \in 0..Oldest
      BY <1>3, AlarmBounds
    <2>a. DOMAIN NoAges = {} /\ IsFiniteSet({}) /\ Cardinality({}) = 0
      BY FS_EmptySet DEF NoAges
    <2>b. Cardinality(DOMAIN policy'.occurrences) < ReportThresh
      BY <2>1, <2>a, AlarmBounds
    <2>4. AlarmTypes'
      BY <1>0, <1>1, <1>6, <2>1, <2>2, <2>3, <2>a, <2>b DEF AlarmTypes
    <2>5. Searched'
      BY <1>7, <1>9, <1>14, <2>2
    <2>6. (\E k : SeenAs(k))'
      <3>1. Recent' = {}
        BY <2>1, <2>a DEF Recent
      <3>2. SeenAs([m \in {} |-> 0])'
        BY <3>1 DEF SeenAs
      <3> QED
        BY <3>2
    <2>7. ReportsApart'
      BY <1>0, <1>3, <1>14, <2>2, AlarmBounds DEF ReportsApart, Suppressed, AlarmTypes
    <2>8. ReportHasEvidence'
      <3>1. PICK limit : limit = ObservationWindow + reporter[r].late
        OBVIOUS
      <3>2. PICK T : T = DOMAIN NoOlder(seen, limit)
        OBVIOUS
      <3>3. T = {m \in DOMAIN seen : seen[m] <= limit} /\ IsFiniteSet(T)
        BY <1>12, <3>2, NoOlderAges
      <3>4. PICK S : S = DOMAIN Kept(r)
        OBVIOUS
      <3>5. g \in Injection(S, T)
        <4>1. \A m \in S : g[m] \in T
          BY <1>13, <3>1, <3>3, <3>4
        <4>2. g \in [S -> T]
          BY <1>13, <3>4, <4>1
        <4>3. \A m, n \in S : g[m] = g[n] => m = n
          BY <1>13, <3>4
        <4> QED
          BY <4>2, <4>3 DEF Injection, IsInjective
      <3>6. Cardinality(S) <= Cardinality(T)
        BY <3>3, <3>5, FS_Injection
      <3>7. Cardinality(S) \in Nat /\ Cardinality(T) \in Nat
        BY <1>12, <3>3, <3>4, FS_CardinalityType
      <3>8. InWindow(r, seen) = Cardinality(T)
        BY <3>1, <3>2 DEF InWindow
      <3> QED
        BY <1>14, <2>2, <3>4, <3>6, <3>7, <3>8, AlarmBounds DEF ReportHasEvidence
    <2> QED
      BY <2>4, <2>5, <2>6, <2>7, <2>8 DEF AlarmInv
  <1>15. CASE /\ ~Suppressed(r)
              /\ Cardinality(DOMAIN Kept(r)) < ReportThresh
              /\ policy' = [policy EXCEPT !.occurrences = Kept(r)]
              /\ reporter' = [reporter EXCEPT ![r] = Asleep]
              /\ record' = [record EXCEPT !.seen = seen]
    <2>1. /\ policy'.last = policy.last /\ policy'.occurrences = Kept(r)
          /\ policy' = [consecutive |-> policy'.consecutive, last |-> policy'.last,
                        occurrences |-> policy'.occurrences]
      BY <1>0, <1>15 DEF AlarmTypes
    <2>2. /\ record'.seen = seen /\ record'.quiet = record.quiet
          /\ record'.evidence = record.evidence /\ record'.apart = record.apart
          /\ record' = [seen |-> record'.seen, quiet |-> record'.quiet,
                        apart |-> record'.apart, evidence |-> record'.evidence]
      BY <1>0, <1>15 DEF AlarmTypes
    <2>3. AlarmTypes'
      BY <1>0, <1>1, <1>6, <1>12, <1>15, <2>1, <2>2 DEF AlarmTypes
    <2>4. Lasting' = Lasting
      BY <1>7, <2>2
    <2>5. ASSUME NEW w \in Nat, Counted(w)
          PROVE  Counted(w)'
      BY <1>0, <1>1, <1>6, <1>12, <2>1, <2>4, <2>5, CountedOn
    <2>6. Searched'
      BY <1>8, <2>4, <2>5 DEF AlarmInv, Searched
    <2>7. (\E k : SeenAs(k))'
      <3>1. Recent' \subseteq DOMAIN Kept(r)
        BY <2>1 DEF Recent
      <3>2. PICK k : k = [m \in Recent' |-> g[m]]
        OBVIOUS
      <3>3. k \in [Recent' -> DOMAIN seen] /\ \A m \in Recent' : k[m] = g[m]
        BY <1>13, <3>1, <3>2
      <3>4. SeenAs(k)'
        BY <1>13, <2>1, <2>2, <3>1, <3>3 DEF SeenAs
      <3> QED
        BY <3>4
    <2> QED
      BY <2>2, <2>3, <2>6, <2>7 DEF AlarmInv, ReportsApart, ReportHasEvidence
  <1> QED
    BY <1>4, <1>10, <1>11, <1>14, <1>15 DEF ShouldReport, HoldsBack

\* A breach that lasts is written within Patience, reports let through are a
\* suppression window apart, and each consecutive one rests on ReportThresh
\* occurrences in its window, whatever the windows, the reporters and the order
\* in which they reach the lock (ShouldReport, CheckAndReport).
THEOREM AlarmsAreReported == AlarmSpec => []AlarmSafety
  <1>1. AlarmInit => AlarmInv
    <2> SUFFICES ASSUME AlarmInit
                 PROVE  AlarmInv
      OBVIOUS
    <2>1. /\ policy.last = Oldest /\ policy.occurrences = NoAges
          /\ policy = [consecutive |-> policy.consecutive, last |-> policy.last,
                       occurrences |-> policy.occurrences]
      BY DEF AlarmInit
    <2>2. DOMAIN NoAges = {} /\ IsFiniteSet({}) /\ Cardinality({}) = 0
      BY FS_EmptySet DEF NoAges
    <2>3. /\ breach = [on |-> FALSE, found |-> 0, lasts |-> 0]
          /\ record = [seen |-> NoAges, quiet |-> 0, apart |-> Oldest, evidence |-> ReportThresh]
          /\ alarmFile = TRUE
      BY DEF AlarmInit
    <2>4. reporter \in [Reporter -> [pc : {"idle", "decide", "write"}, late : 0..MaxLate]]
      BY AlarmBounds DEF AlarmInit, Asleep
    <2>5. AlarmTypes
      <3>1. policy.last \in 0..Oldest /\ 0 < ReportThresh /\ Patience \in Nat /\ CycleGap \in Nat
        BY <2>1, AlarmBounds
      <3>2. breach \in [on : BOOLEAN, found : 0..CycleGap, lasts : 0..(Patience + 1)]
        BY <2>3, <3>1
      <3>3. /\ record = [seen |-> record.seen, quiet |-> record.quiet,
                         apart |-> record.apart, evidence |-> record.evidence]
            /\ record.quiet = 0 /\ record.seen = NoAges
        BY <2>3
      <3>4. breach.lasts = 0 /\ alarmFile \in BOOLEAN
        BY <2>3
      <3>5. IsFiniteSet(DOMAIN record.seen) /\ DOMAIN record.seen = {}
        BY <2>2, <3>3
      <3>6. /\ IsFiniteSet(DOMAIN policy.occurrences) /\ DOMAIN policy.occurrences = {}
            /\ Cardinality(DOMAIN policy.occurrences) = 0
        BY <2>1, <2>2
      <3>7. record.quiet \in 0..(Patience + 1)
        BY <3>1, <3>3
      <3> QED
        BY <2>1, <2>4, <3>1, <3>2, <3>3, <3>4, <3>5, <3>6, <3>7 DEF AlarmTypes
    <2>6. Lasting = 0
      BY <2>3 DEF Lasting, MinOf
    <2>7. Dense(0)
      BY <2>3, NotBegun DEF Dense
    <2>8. Counted(0)
      BY <2>1, <2>6, <2>7, AlarmBounds DEF Counted
    <2>9. Recent = {}
      BY <2>1, <2>2 DEF Recent
    <2>10. SeenAs([m \in {} |-> 0])
      BY <2>9 DEF SeenAs
    <2>11. ReportsApart /\ ReportHasEvidence
      BY <2>3, AlarmBounds DEF ReportsApart, ReportHasEvidence
    <2> QED
      BY <2>5, <2>8, <2>10, <2>11 DEF AlarmInv, Searched
  <1>2. AlarmInv /\ [AlarmNext]_alarmVars => AlarmInv'
    <2> SUFFICES ASSUME AlarmInv, [AlarmNext]_alarmVars
                 PROVE  AlarmInv'
      OBVIOUS
    <2>1. CASE AlarmNext
      BY <2>1, TimeKeepsAlarm, OutsideKeepsAlarm, FoundKeepsAlarm, DecideKeepsAlarm,
         WriteKeepsAlarm DEF AlarmNext
    <2>2. CASE UNCHANGED alarmVars
      <3>1. UNCHANGED <<policy, reporter, alarmFile, breach, record>>
        BY <2>2 DEF alarmVars
      <3>2. AlarmTypes' /\ Lasting' = Lasting
        BY <3>1 DEF AlarmInv, AlarmTypes, Lasting
      <3>3. Searched'
        BY <3>1, <3>2 DEF AlarmInv, Searched, Written, Counted, Dense, Looked
      <3>4. (\E h : SeenAs(h))'
        BY <3>1 DEF AlarmInv, SeenAs, Recent
      <3> QED
        BY <3>1, <3>2, <3>3, <3>4 DEF AlarmInv, ReportsApart, ReportHasEvidence
    <2> QED
      BY <2>1, <2>2
  <1>3. AlarmInv => AlarmSafety
    <2> SUFFICES ASSUME AlarmInv
                 PROVE  AlarmSafety
      OBVIOUS
    <2>1. AlarmTypes
      BY DEF AlarmInv
    <2>2. AlarmTypeOK
      BY <2>1 DEF AlarmTypes, AlarmTypeOK
    <2>3. Lasting <= Patience
      <3>1. ASSUME NEW r \in Reporter, Written(r)
            PROVE  Lasting <= Patience
        <4>1. Lasting \in Nat /\ reporter[r].late \in 0..MaxLate
          BY <2>1, AlarmBounds DEF Lasting, MinOf, AlarmTypes
        <4> QED
          BY <3>1, <4>1, AlarmBounds DEF Written
      <3>2. ASSUME NEW w \in Nat, Counted(w)
            PROVE  Lasting <= Patience
        <4>1. w <= MaxLate + ReportThresh * CycleGap
          BY <2>1, <3>2, SearchEnds DEF Counted
        <4>2. Lasting \in Nat /\ Lasting <= w + SuppressionWindow
          BY <2>1, <3>2, AlarmBounds DEF Counted, Lasting, MinOf, AlarmTypes
        <4> QED
          BY <4>1, <4>2, AlarmBounds
      <3> QED
        BY <3>1, <3>2 DEF AlarmInv, Searched
    <2>4. LastingBreachIsWritten
      BY <2>1, <2>3, AlarmBounds DEF LastingBreachIsWritten, Lasting, MinOf, AlarmTypes
    <2> QED
      BY <2>2, <2>4 DEF AlarmSafety, AlarmInv
  <1> QED
    BY <1>1, <1>2, <1>3, PTL DEF AlarmSpec

-----------------------------------------------------------------------------
(* The plan changes (PlanChange).                                            *)

\* The least of a set of numbers.
LEMMA MinIsLeast ==
  ASSUME NEW T \in SUBSET Nat, T # {}
  PROVE  Min(T) \in T /\ \A y \in T : Min(T) <= y
  BY LeastExists DEF Min

\* Room is made at the cost of the oldest only, and only when it is needed.
LEMMA EvictedIsOld ==
  ASSUME NEW id \in Nat, NEW ids \in SUBSET (1..id)
  PROVE  /\ Evicted(ids) \subseteq ids
         /\ \A k \in ids \ Evicted(ids) :
              /\ Cardinality(ids) >= MaxSnap
              /\ \A y \in ids : k <= y
              /\ \A y \in Evicted(ids) : k < y
         /\ Cardinality(ids) >= MaxSnap - 1 =>
              Cardinality(Evicted(ids) \cup {id}) >= MaxSnap - 1
  <1>0. IsFiniteSet(ids) /\ Cardinality(ids) \in Nat
    <2>1. IsFiniteSet(1..id)
      BY FS_Interval
    <2> QED
      BY <2>1, FS_Subset, FS_CardinalityType
  <1>c. MaxSnap \in Nat /\ MaxSnap > 0
    BY HistoryAssumption
  <1>w. Evicted(ids) \subseteq ids =>
          Cardinality(Evicted(ids) \cup {id}) >= Cardinality(Evicted(ids))
    <2> SUFFICES ASSUME Evicted(ids) \subseteq ids
                 PROVE  Cardinality(Evicted(ids) \cup {id}) >= Cardinality(Evicted(ids))
      OBVIOUS
    <2>1. IsFiniteSet(Evicted(ids))
      BY <1>0, FS_Subset
    <2>2. IsFiniteSet(Evicted(ids) \cup {id})
      BY <2>1, FS_AddElement
    <2> QED
      BY <2>2, FS_Subset
  <1>1. CASE Cardinality(ids) < MaxSnap
    <2>1. Evicted(ids) = ids
      BY <1>1 DEF Evicted
    <2>2. Cardinality(ids \cup {id}) >= Cardinality(ids)
      BY <1>w, <2>1
    <2>3. IsFiniteSet(ids \cup {id}) /\ Cardinality(ids \cup {id}) \in Nat
      BY <1>0, FS_AddElement, FS_CardinalityType
    <2> QED
      BY <1>0, <1>c, <2>1, <2>2, <2>3
  <1>2. CASE ~(Cardinality(ids) < MaxSnap)
    <2>1. Evicted(ids) = ids \ {Min(ids)}
      BY <1>2 DEF Evicted
    <2>4. ids # {} /\ ids \in SUBSET Nat
      <3>1. Cardinality({}) = 0 /\ 1..id \subseteq Nat
        BY FS_EmptySet
      <3> QED
        BY <1>2, <1>c, <3>1
    <2>5. PICK m : m = Min(ids)
      OBVIOUS
    <2>6. m \in ids /\ \A y \in ids : m <= y
      BY <2>4, <2>5, MinIsLeast
    <2>7. \A y \in ids \ {m} : m < y
      BY <2>4, <2>6
    <2>8. Cardinality(ids) >= MaxSnap
      BY <1>0, <1>2, <1>c
    <2>9. Cardinality(ids \ {m}) = Cardinality(ids) - 1
      BY <1>0, <2>6, FS_RemoveElement
    <2>10. Evicted(ids) = ids \ {m} /\ Evicted(ids) \subseteq ids
      BY <2>1, <2>5
    <2>11. Cardinality(Evicted(ids) \cup {id}) \in Nat
      BY <1>0, <2>10, FS_Subset, FS_AddElement, FS_CardinalityType
    <2>12. Cardinality(Evicted(ids) \cup {id}) >= MaxSnap - 1
      BY <1>0, <1>c, <1>w, <2>8, <2>9, <2>10, <2>11
    <2> QED
      BY <2>6, <2>7, <2>8, <2>10, <2>12
  <1> QED
    BY <1>1, <1>2

\* Of the snapshots ids, what is not in S is older than all that is, and S is
\* almost full.
LostOldest(ids, S) ==
  \A k \in ids \ S : Cardinality(S) >= MaxSnap - 1 /\ \A y \in S : k < y

\* However many samples a refresh brings.
LEMMA KeysStay ==
  ASSUME NEW id \in Nat \ {0}, NEW ids \in SUBSET (1..(id - 1)), NEW n \in Nat
  PROVE  /\ KeysAfter(ids, id, n) \in SUBSET (ids \cup {id})
         /\ LostOldest(ids, KeysAfter(ids, id, n))
         /\ n # 0 => id \in KeysAfter(ids, id, n)
  <1> DEFINE Step(i, s) == IF i = 0 THEN ids ELSE Evicted(s[i - 1]) \cup {id}
             Steps(m, s) == s[0] = ids /\ \A i \in 1..m : s[i] = Evicted(s[i - 1]) \cup {id}
             Keeps(S) == S \in SUBSET (ids \cup {id}) /\ LostOldest(ids, S)
             T == {m \in 0..n : ~ \E s \in [0..m -> SUBSET (1..id)] : Steps(m, s)}
  <1>0. ids \in SUBSET (1..id) /\ \A k \in ids : k \in Nat /\ k < id
    OBVIOUS
  <1>1. T = {}
    <2> SUFFICES ASSUME T # {} PROVE FALSE
      OBVIOUS
    <2>1. PICK m \in T : \A k \in T : m <= k
      <3>1. T \in SUBSET Nat
        OBVIOUS
      <3> QED
        BY <3>1, LeastExists
    <2>2. m \in 0..n /\ ~ \E s \in [0..m -> SUBSET (1..id)] : Steps(m, s)
      OBVIOUS
    <2>3. CASE m = 0
      <3> DEFINE s == [i \in 0..0 |-> ids]
      <3>1. s \in [0..0 -> SUBSET (1..id)] /\ s[0] = ids
        <4>1. 0 \in 0..0
          OBVIOUS
        <4> QED
          BY <1>0, <4>1, Zenon
      <3> HIDE DEF s
      <3>2. Steps(0, s)
        <4>1. 1..0 = {}
          OBVIOUS
        <4> QED
          BY <3>1, <4>1, Zenon
      <3> QED
        BY <2>2, <2>3, <3>1, <3>2
    <2>4. CASE m # 0
      <3>1. m - 1 \in 0..n /\ m \in 1..n /\ m - 1 \notin T
        <4>1. m \in Nat /\ m - 1 \in 0..n /\ m \in 1..n /\ ~(m <= m - 1)
          BY <2>2, <2>4
        <4> HIDE DEF T
        <4> QED
          BY <2>1, <4>1
      <3>2. PICK s \in [0..(m - 1) -> SUBSET (1..id)] : Steps(m - 1, s)
        BY <3>1
      <3>3. PICK z \in SUBSET (1..id) : z = Evicted(s[m - 1]) \cup {id}
        <4>1. PICK S \in SUBSET (1..id) : S = s[m - 1]
          BY <3>1
        <4>2. Evicted(S) \subseteq S
          BY EvictedIsOld
        <4>3. id \in 1..id
          OBVIOUS
        <4>4. Evicted(S) \cup {id} \in SUBSET (1..id)
          BY <4>2, <4>3, Zenon
        <4> QED
          BY <4>1, <4>4, Zenon
      <3> DEFINE u == [i \in 0..m |-> IF i = m THEN z ELSE s[i]]
      <3>4. u \in [0..m -> SUBSET (1..id)]
        BY <3>1, <3>3
      <3>5. u[0] = ids /\ u[m] = Evicted(u[m - 1]) \cup {id}
        BY <3>1, <3>2, <3>3
      <3>6. \A i \in 1..(m - 1) : u[i] = Evicted(u[i - 1]) \cup {id}
        BY <3>1, <3>2
      <3>7. Steps(m, u)
        <4>1. \A i \in 1..m : i = m \/ i \in 1..(m - 1)
          BY <3>1
        <4> HIDE DEF u
        <4>2. \A i \in 1..m : u[i] = Evicted(u[i - 1]) \cup {id}
          BY <3>5, <3>6, <4>1, Zenon
        <4> QED
          BY <3>5, <4>2
      <3> QED
        BY <2>2, <3>4, <3>7
    <2> QED
      BY <2>3, <2>4
  <1>2. PICK s \in [0..n -> SUBSET (1..id)] : Steps(n, s)
    <2>1. n \in 0..n /\ n \notin T
      <3> HIDE DEF T
      <3> QED
        BY <1>1
    <2> QED
      BY <2>1
  <1>3. s = [i \in 0..n |-> Step(i, s)]
    BY <1>2
  <1> DEFINE u == CHOOSE u : u = [i \in 0..n |-> Step(i, u)]
  <1>4. u = [i \in 0..n |-> Step(i, u)]
    <2> HIDE DEF Step
    <2> QED
      BY <1>3
  <1>5. KeysAfter(ids, id, n) = u[n]
    BY DEF KeysAfter
  <1> HIDE DEF u
  <1>6. u[0] = ids /\ \A i \in 1..n : u[i] = Evicted(u[i - 1]) \cup {id}
    <2>1. \A i \in 0..n : u[i] = Step(i, u)
      <3> HIDE DEF Step
      <3> QED
        BY <1>4, Zenon
    <2>2. 0 \in 0..n /\ \A i \in 1..n : i \in 0..n /\ i # 0
      OBVIOUS
    <2> QED
      BY <2>1, <2>2
  <1>7. \A i \in 0..n : Keeps(u[i])
    <2> DEFINE B == {i \in 0..n : ~Keeps(u[i])}
    <2> SUFFICES ASSUME B # {} PROVE FALSE
      OBVIOUS
    <2>1. PICK i \in B : \A j \in B : i <= j
      <3>1. B \in SUBSET Nat
        OBVIOUS
      <3> QED
        BY <3>1, LeastExists
    <2>2. i \in 0..n /\ ~Keeps(u[i])
      OBVIOUS
    <2>3. i # 0
      <3>1. Keeps(ids)
        BY DEF LostOldest
      <3> QED
        BY <1>6, <2>2, <3>1
    <2>4. i \in 1..n /\ i - 1 \in 0..n /\ ~(i <= i - 1)
      BY <2>2, <2>3
    <2>5. Keeps(u[i - 1])
      BY <2>1, <2>4
    <2>6. PICK S : S = u[i - 1]
      OBVIOUS
    <2>7. u[i] = Evicted(S) \cup {id}
      BY <1>6, <2>4, <2>6
    <2>8. S \in SUBSET (1..id) /\ S \in SUBSET (ids \cup {id})
      <3>1. S \in SUBSET (ids \cup {id}) /\ id \in 1..id
        BY <2>5, <2>6
      <3> QED
        BY <1>0, <3>1, Zenon
    <2>9. /\ Evicted(S) \subseteq S
          /\ \A k \in S \ Evicted(S) : Cardinality(S) >= MaxSnap /\ \A y \in Evicted(S) : k < y
          /\ Cardinality(S) >= MaxSnap - 1 => Cardinality(Evicted(S) \cup {id}) >= MaxSnap - 1
      BY <2>8, EvictedIsOld
    <2>10. Cardinality(S) \in Nat /\ MaxSnap \in Nat
      <3>1. IsFiniteSet(1..id)
        BY FS_Interval
      <3> QED
        BY <2>8, <3>1, FS_Subset, FS_CardinalityType, HistoryAssumption
    <2>11. ASSUME NEW k \in ids \ (Evicted(S) \cup {id})
           PROVE  /\ Cardinality(Evicted(S) \cup {id}) >= MaxSnap - 1
                  /\ \A y \in Evicted(S) \cup {id} : k < y
      <3>1. k < id
        BY <1>0
      <3>2. CASE k \in S
        BY <2>9, <2>10, <3>1, <3>2
      <3>3. CASE k \notin S
        <4>1. Cardinality(S) >= MaxSnap - 1 /\ \A y \in S : k < y
          BY <2>5, <2>6, <3>3 DEF LostOldest
        <4> QED
          BY <2>9, <3>1, <4>1
      <3> QED
        BY <3>2, <3>3
    <2>12. LostOldest(ids, Evicted(S) \cup {id})
      BY <2>11 DEF LostOldest
    <2>13. Evicted(S) \cup {id} \in SUBSET (ids \cup {id})
      BY <2>8, <2>9
    <2> QED
      BY <2>2, <2>7, <2>12, <2>13
  <1>8. n # 0 => id \in u[n]
    BY <1>6
  <1> QED
    BY <1>5, <1>7, <1>8

-----------------------------------------------------------------------------
(* The invariant: the events and the baselines match, and what fired is      *)
(* worse than the baseline it has.                                           *)

Baseline == [sql : Sql, snap : 1..MaxCycle, is : Sample, since : 0..MaxCycle]

Event == [sql : Sql, recovered : BOOLEAN, last : 0..MaxCycle]

\* A statement has one baseline, and with it an open event.
Matched(B, ev) ==
  /\ ev = [kept |-> ev.kept, open |-> ev.open]
  /\ ev.kept \in Seq(Event) /\ ev.open \in [Sql -> 0..Len(ev.kept)]
  /\ \A b \in B : ev.open[b.sql] # 0
  /\ \A b, c \in B : b.sql = c.sql => b = c
  /\ \A q \in Sql : ev.open[q] # 0 => ev.kept[ev.open[q]].sql = q
  /\ \A i \in 1..Len(ev.kept) : ev.kept[i].recovered <=> \A q \in Sql : ev.open[q] # i

\* With room for as many snapshots as there are statements, every open event has
\* its baseline.
Judgeable(B, ev) ==
  Cardinality(Sql) <= MaxSnap =>
     \A q \in Sql : ev.open[q] # 0 => \E b \in B : b.sql = q

\* What fired in this analysis, or in the one before when it has not been
\* evaluated in this one, is worse than the baseline it has.
Remembered(r, v, B) ==
  \A b \in B :
     /\ b.sql \in r.fired => Regressed(r.sample[b.sql], b.is, TRUE)
     /\ (b.sql \in v.fired /\ (~r.open \/ b.sql \in r.todo)) =>
           Regressed(v.sample[b.sql], b.is, TRUE)

RoundType(r) ==
  /\ r = [open |-> r.open, todo |-> r.todo, fired |-> r.fired, sample |-> r.sample]
  /\ r.open \in BOOLEAN /\ r.todo \in SUBSET Sql /\ r.fired \in SUBSET Sql
  /\ \A q \in r.todo : r.open /\ q \notin r.fired

HistoryType(h, id) ==
  /\ h = [sql |-> h.sql, baseline |-> h.baseline]
  /\ DOMAIN h.sql \in SUBSET (1..id)
  /\ \A k \in DOMAIN h.sql : h.sql[k] \in [Sql -> Sample \cup {None}]
  /\ h.baseline \in SUBSET Baseline

PlanTypes ==
  /\ snap \in [id : 0..MaxCycle, at : 0..MaxCycle, last : -1..MaxCycle]
  /\ snap.at <= snap.id
  /\ HistoryType(history, snap.id)
  /\ RoundType(round)
  /\ verdict.fired \in SUBSET Sql

PlanInv ==
  /\ PlanTypes
  /\ Matched(history.baseline, events)
  /\ Judgeable(history.baseline, events)
  /\ Remembered(round, verdict, history.baseline)

\* Baselines may be lost: the events still match those that are left.
LEMMA FewerMatch ==
  ASSUME NEW B, NEW C \in SUBSET B, NEW ev, Matched(B, ev)
  PROVE  Matched(C, ev)
  BY DEF Matched

\* The event of a statement that fires.
LEMMA OpenedMatches ==
  ASSUME NEW B, NEW C, Matched(B, events), snap.at \in 0..MaxCycle, NEW q \in Sql,
         \A c \in C : c \in B \/ c.sql = q,
         \A b, c \in C : b.sql = c.sql => b = c,
         \A b \in B : b.sql \in Sql
  PROVE  /\ Matched(C, Opened(q))
         /\ Opened(q).open[q] # 0
         /\ \A p \in Sql \ {q} : Opened(q).open[p] = events.open[p]
  <1>1. PICK at \in 0..MaxCycle : at = snap.at
    OBVIOUS
  <1>2. PICK event : event = [sql |-> q, recovered |-> FALSE, last |-> at]
    OBVIOUS
  <1>3. event \in Event /\ event.sql = q /\ event.recovered = FALSE
    BY <1>2 DEF Event
  <1>4. PICK was, old : was = events.kept /\ old = events.open
    OBVIOUS
  <1>5. PICK n \in Nat : n = Len(was)
    BY <1>4 DEF Matched
  <1>6. /\ was \in Seq(Event) /\ old \in [Sql -> 0..n]
        /\ \A b \in B : old[b.sql] # 0
        /\ \A p \in Sql : old[p] # 0 => was[old[p]].sql = p
        /\ \A i \in 1..n : was[i].recovered <=> \A p \in Sql : old[p] # i
        /\ events = [kept |-> was, open |-> old]
    BY <1>4, <1>5 DEF Matched
  <1>7. \A i \in 1..n : was[i] \in Event
    BY <1>5, <1>6
  <1>8. CASE old[q] = 0
    <2>1. PICK kept : kept = Append(was, event)
      OBVIOUS
    <2>2. PICK open : open = [old EXCEPT ![q] = n + 1]
      OBVIOUS
    <2>3. /\ kept \in Seq(Event) /\ Len(kept) = n + 1 /\ kept[n + 1] = event
          /\ \A i \in 1..n : kept[i] = was[i]
      BY <1>3, <1>5, <1>6, <2>1
    <2>4. /\ open \in [Sql -> 0..(n + 1)] /\ open[q] = n + 1
          /\ \A p \in Sql \ {q} : open[p] = old[p] /\ old[p] \in 0..n
      BY <1>6, <2>2
    <2>5. Opened(q) = [kept |-> kept, open |-> open]
      BY <1>1, <1>2, <1>4, <1>5, <1>8, <2>1, <2>2 DEF Opened
    <2>6. \A c \in C : open[c.sql] # 0
      <3> SUFFICES ASSUME NEW c \in C PROVE open[c.sql] # 0
        OBVIOUS
      <3>1. CASE c.sql = q
        BY <2>4, <3>1
      <3>2. CASE c.sql # q
        <4>1. c \in B
          BY <3>2
        <4>2. PICK p \in Sql \ {q} : p = c.sql
          BY <3>2, <4>1
        <4>3. old[p] # 0
          BY <1>6, <4>1, <4>2
        <4> QED
          BY <2>4, <4>2, <4>3
      <3> QED
        BY <3>1, <3>2
    <2>7. \A p \in Sql : open[p] # 0 => kept[open[p]].sql = p
      <3> SUFFICES ASSUME NEW p \in Sql, open[p] # 0 PROVE kept[open[p]].sql = p
        OBVIOUS
      <3>1. CASE p = q
        BY <1>3, <2>3, <2>4, <3>1
      <3>2. CASE p # q
        <4>1. open[p] = old[p] /\ old[p] \in 1..n
          BY <2>4, <3>2
        <4> QED
          BY <1>6, <2>3, <4>1
      <3> QED
        BY <3>1, <3>2
    <2>8. \A i \in 1..(n + 1) : kept[i].recovered <=> \A p \in Sql : open[p] # i
      <3> SUFFICES ASSUME NEW i \in 1..(n + 1)
                   PROVE  kept[i].recovered <=> \A p \in Sql : open[p] # i
        OBVIOUS
      <3>1. CASE i = n + 1
        BY <1>3, <2>3, <2>4, <3>1
      <3>2. CASE i # n + 1
        <4>1. i \in 1..n /\ kept[i] = was[i]
          BY <2>3, <3>2
        <4>2. \A p \in Sql : open[p] # i <=> old[p] # i
          BY <1>8, <2>4, <3>2, <4>1
        <4> QED
          BY <1>6, <4>1, <4>2
      <3> QED
        BY <3>1, <3>2
    <2>9. PICK ev : ev = Opened(q)
      OBVIOUS
    <2>10. ev.kept = kept /\ ev.open = open /\ ev = [kept |-> ev.kept, open |-> ev.open]
      BY <2>5, <2>9
    <2>11. Matched(C, ev)
      BY <2>3, <2>4, <2>6, <2>7, <2>8, <2>10 DEF Matched
    <2> QED
      BY <1>4, <2>4, <2>9, <2>10, <2>11
  <1>9. CASE old[q] # 0
    <2>1. PICK m \in 1..n : m = old[q]
      BY <1>6, <1>9
    <2>2. PICK kept : kept = [was EXCEPT ![m] = event]
      OBVIOUS
    <2>3. /\ kept \in Seq(Event) /\ Len(kept) = n /\ kept[m] = event
          /\ \A i \in 1..n : i # m => kept[i] = was[i]
      BY <1>3, <1>5, <1>6, <2>2
    <2>4. Opened(q) = [kept |-> kept, open |-> old]
      <3>1. Opened(q) = [events EXCEPT !.kept[m] = event]
        BY <1>1, <1>2, <1>4, <1>9, <2>1 DEF Opened
      <3> QED
        BY <1>6, <2>2, <3>1
    <2>5. \A c \in C : old[c.sql] # 0
      BY <1>6, <1>9
    <2>6. \A p \in Sql : old[p] # 0 => kept[old[p]].sql = p
      <3> SUFFICES ASSUME NEW p \in Sql, old[p] # 0 PROVE kept[old[p]].sql = p
        OBVIOUS
      <3>1. old[p] \in 1..n /\ was[old[p]].sql = p
        BY <1>6
      <3>2. old[p] = m => p = q
        BY <1>6, <2>1, <3>1
      <3> QED
        BY <1>3, <2>3, <3>1, <3>2
    <2>7. \A i \in 1..n : kept[i].recovered <=> \A p \in Sql : old[p] # i
      BY <1>3, <1>6, <2>1, <2>3
    <2>8. PICK ev : ev = Opened(q)
      OBVIOUS
    <2>9. ev.kept = kept /\ ev.open = old /\ ev = [kept |-> ev.kept, open |-> ev.open]
      BY <2>4, <2>8
    <2>10. Matched(C, ev)
      BY <1>6, <2>3, <2>5, <2>6, <2>7, <2>9 DEF Matched
    <2> QED
      BY <1>4, <1>9, <2>8, <2>9, <2>10
  <1> QED
    BY <1>8, <1>9

\* A baseline that goes closes the event of its statement.
LEMMA ClosedMatches ==
  ASSUME NEW B, Matched(B, events), NEW over \in SUBSET B, \A b \in B : b.sql \in Sql
  PROVE  /\ Matched(B \ over, Closed({b.sql : b \in over}))
         /\ \A b \in over : Closed({c.sql : c \in over}).open[b.sql] = 0
         /\ \A q \in Sql : Closed({c.sql : c \in over}).open[q] # 0 =>
              events.open[q] # 0 /\ \A b \in over : b.sql # q
  <1>0. PICK gone : gone = {b.sql : b \in over}
    OBVIOUS
  <1>a. PICK was, old : was = events.kept /\ old = events.open
    OBVIOUS
  <1>b. PICK n \in Nat : n = Len(was)
    BY <1>a DEF Matched
  <1>1. /\ was \in Seq(Event) /\ old \in [Sql -> 0..n]
        /\ \A b \in B : old[b.sql] # 0
        /\ \A b, c \in B : b.sql = c.sql => b = c
        /\ \A q \in Sql : old[q] # 0 => was[old[q]].sql = q
        /\ \A i \in 1..n : was[i].recovered <=> \A q \in Sql : old[q] # i
    BY <1>a, <1>b DEF Matched
  <1>2. PICK kept : kept = [i \in DOMAIN was |->
                             [was[i] EXCEPT !.recovered = @ \/ \E q \in gone : old[q] = i]]
    OBVIOUS
  <1>3. PICK open : open = [q \in Sql |-> IF q \in gone THEN 0 ELSE old[q]]
    OBVIOUS
  <1>4. Closed(gone) = [kept |-> kept, open |-> open]
    BY <1>a, <1>2, <1>3 DEF Closed
  <1>5. DOMAIN was = 1..n /\ \A i \in 1..n : was[i] \in Event
    BY <1>b, <1>1
  <1>6. \A i \in 1..n :
          /\ kept[i].sql = was[i].sql /\ kept[i] \in Event
          /\ kept[i].recovered <=> was[i].recovered \/ \E q \in gone : old[q] = i
    <2> SUFFICES ASSUME NEW i \in 1..n
                 PROVE  /\ kept[i].sql = was[i].sql /\ kept[i] \in Event
                        /\ kept[i].recovered <=> was[i].recovered \/ \E q \in gone : old[q] = i
      OBVIOUS
    <2>1. PICK r \in BOOLEAN : r <=> \E q \in gone : old[q] = i
      BY Zenon
    <2>2. PICK e \in Event : e = was[i]
      BY <1>5
    <2>3. kept[i] = [e EXCEPT !.recovered = @ \/ r]
      BY <1>2, <1>5, <2>1, <2>2, Zenon
    <2>4. kept[i].sql = e.sql /\ kept[i] \in Event /\ (kept[i].recovered <=> e.recovered \/ r)
      BY <2>3 DEF Event
    <2> QED
      BY <2>1, <2>2, <2>4
  <1>7. kept \in Seq(Event) /\ Len(kept) = n
    <2>2. DOMAIN kept = 1..n /\ kept = [i \in 1..n |-> kept[i]]
      BY <1>2, <1>5, Zenon
    <2>3. kept \in [1..n -> Event]
      BY <1>6, <2>2
    <2> QED
      BY <2>3
  <1>8. gone \in SUBSET Sql
    BY <1>0
  <1>9. /\ open \in [Sql -> 0..n]
        /\ \A q \in gone : open[q] = 0
        /\ \A q \in Sql \ gone : open[q] = old[q]
    BY <1>1, <1>3, <1>8
  <1>10. \A b \in B \ over : b.sql \in Sql \ gone
    <2> SUFFICES ASSUME NEW b \in B \ over, b.sql \in gone PROVE FALSE
      OBVIOUS
    <2>1. PICK c \in over : c.sql = b.sql
      BY <1>0
    <2> QED
      BY <1>1, <2>1
  <1>11. \A b \in B \ over : open[b.sql] # 0
    BY <1>1, <1>9, <1>10
  <1>12. \A q \in Sql : open[q] # 0 => q \notin gone /\ open[q] = old[q] /\ open[q] \in 1..n
    BY <1>1, <1>9
  <1>13. \A q \in Sql : open[q] # 0 => kept[open[q]].sql = q
    BY <1>1, <1>6, <1>12
  <1>14. \A i \in 1..n : kept[i].recovered <=> \A q \in Sql : open[q] # i
    <2> SUFFICES ASSUME NEW i \in 1..n
                 PROVE  kept[i].recovered <=> \A q \in Sql : open[q] # i
      OBVIOUS
    <2>2. \A q \in Sql : old[q] = i => was[i].sql = q
      BY <1>1
    <2>3. CASE \E q \in gone : old[q] = i
      <3>1. \A q \in Sql \ gone : old[q] # i
        BY <1>8, <2>2, <2>3
      <3> QED
        BY <1>6, <1>8, <1>9, <2>3, <3>1
    <2>4. CASE ~ \E q \in gone : old[q] = i
      <3>1. \A q \in Sql : open[q] # i <=> old[q] # i
        BY <1>8, <1>9, <2>4
      <3> QED
        BY <1>1, <1>6, <2>4, <3>1
    <2> QED
      BY <2>3, <2>4
  <1>15. PICK ev : ev = Closed(gone)
    OBVIOUS
  <1>16. ev.kept = kept /\ ev.open = open /\ ev = [kept |-> ev.kept, open |-> ev.open]
    BY <1>4, <1>15
  <1>17. Matched(B \ over, ev)
    BY <1>1, <1>7, <1>9, <1>11, <1>13, <1>14, <1>16 DEF Matched
  <1> QED
    BY <1>0, <1>a, <1>9, <1>12, <1>15, <1>16, <1>17

\* With room for as many snapshots as there are statements, one statement without
\* a baseline leaves room for its own.
LEMMA RoomForAll ==
  ASSUME NEW B, \A b, c \in B : b.sql = c.sql => b = c, \A b \in B : b.sql \in Sql,
         NEW q \in Sql, \A b \in B : b.sql # q, Cardinality(Sql) <= MaxSnap
  PROVE  Cardinality({b.snap : b \in B}) < MaxSnap
  <1>1. PICK S : S = {b.sql : b \in B}
    OBVIOUS
  <1>2. PICK T : T = {b.snap : b \in B}
    OBVIOUS
  <1>3. /\ IsFiniteSet(Sql) /\ Cardinality(Sql) \in Nat /\ MaxSnap \in Nat
        /\ IsFiniteSet(Sql \ {q}) /\ Cardinality(Sql \ {q}) = Cardinality(Sql) - 1
    BY HistoryAssumption, FS_CardinalityType, FS_RemoveElement
  <1>4. IsFiniteSet(S) /\ Cardinality(S) <= Cardinality(Sql \ {q}) /\ Cardinality(S) \in Nat
    <2>1. S \subseteq Sql \ {q}
      BY <1>1
    <2> QED
      BY <1>3, <2>1, FS_Subset, FS_CardinalityType
  <1> DEFINE f == [s \in S |-> (CHOOSE b \in B : b.sql = s).snap]
  <1>5. \A b \in B : f[b.sql] = b.snap
    <2> SUFFICES ASSUME NEW b \in B PROVE f[b.sql] = b.snap
      OBVIOUS
    <2>1. PICK c : c = CHOOSE d \in B : d.sql = b.sql
      OBVIOUS
    <2>2. c = b
      BY <2>1
    <2>3. f[b.sql] = c.snap
      BY <1>1, <2>1
    <2> QED
      BY <2>2, <2>3
  <1>6. f \in Surjection(S, T)
    <2>1. \A s \in S : f[s] \in T
      BY <1>1, <1>2, <1>5
    <2>2. f \in [S -> T]
      <3>1. f = [s \in S |-> f[s]]
        OBVIOUS
      <3> HIDE DEF f
      <3> QED
        BY <2>1, <3>1
    <2> HIDE DEF f
    <2>3. \A t \in T : \E s \in S : f[s] = t
      BY <1>1, <1>2, <1>5
    <2> QED
      BY <2>2, <2>3 DEF Surjection
  <1> HIDE DEF f
  <1>7. IsFiniteSet(T) /\ Cardinality(T) <= Cardinality(S)
    BY <1>4, <1>6, FS_Surjection
  <1>8. Cardinality(T) \in Nat
    BY <1>7, FS_CardinalityType
  <1>9. Cardinality(T) < MaxSnap
    BY <1>3, <1>4, <1>7, <1>8
  <1> QED
    BY <1>2, <1>9

-----------------------------------------------------------------------------
(* The steps.                                                                *)

\* What a refresh does to the snapshot.
LEMMA SnapMoves ==
  ASSUME PlanTypes, NEW tick \in 0..1, snap.id < MaxCycle, NEW l \in {snap.last, snap.at + tick},
         snap' = [id |-> snap.id + 1, at |-> snap.at + tick, last |-> l]
  PROVE  /\ snap' \in [id : 0..MaxCycle, at : 0..MaxCycle, last : -1..MaxCycle]
         /\ snap'.id = snap.id + 1 /\ snap'.at <= snap'.id
         /\ snap'.id \in Nat \ {0} /\ snap.id \in Nat
  <1>1. MaxCycle \in Nat
    BY HistoryAssumption
  <1>2. /\ snap.id \in 0..MaxCycle /\ snap.at \in 0..MaxCycle /\ snap.last \in -1..MaxCycle
        /\ snap.at <= snap.id
    BY DEF PlanTypes
  <1>3. /\ snap.id + 1 \in 0..MaxCycle /\ snap.at + tick \in 0..MaxCycle
        /\ l \in -1..MaxCycle
    BY <1>1, <1>2
  <1> QED
    BY <1>1, <1>2, <1>3

\* The history is of the snapshots so far, whatever the next one is.
LEMMA HistoryStays ==
  ASSUME NEW h, NEW id \in Nat, HistoryType(h, id)
  PROVE  HistoryType(h, id + 1)
  <1>1. 1..id \subseteq 1..(id + 1)
    OBVIOUS
  <1> QED
    BY <1>1 DEF HistoryType

\* What is kept of the samples after those of this refresh.
LEMMA SamplesKept ==
  ASSUME PlanTypes, NEW id \in Nat \ {0}, id = snap.id + 1, snap.id \in Nat,
         NEW sample \in [Sql -> Sample \cup {None}]
  PROVE  /\ DOMAIN SqlAfter(id, sample) \in SUBSET (1..id)
         /\ \A k \in DOMAIN SqlAfter(id, sample) :
              SqlAfter(id, sample)[k] \in [Sql -> Sample \cup {None}]
         /\ LostOldest(DOMAIN history.sql, DOMAIN SqlAfter(id, sample))
  <1> DEFINE new == {q \in Sql : sample[q] # None}
  <1>1. PICK n \in Nat : n = Cardinality(new)
    <2>1. new \in SUBSET Sql
      OBVIOUS
    <2> QED
      BY <2>1, HistoryAssumption, FS_Subset, FS_CardinalityType
  <1>2. PICK ids \in SUBSET (1..(id - 1)) : ids = DOMAIN history.sql
    <2>1. snap.id = id - 1
      OBVIOUS
    <2> QED
      BY <2>1 DEF PlanTypes, HistoryType
  <1>3. PICK keep : keep = KeysAfter(ids, id, n)
    OBVIOUS
  <1>4. keep \in SUBSET (ids \cup {id}) /\ LostOldest(ids, keep)
    BY <1>3, KeysStay
  <1>5. SqlAfter(id, sample) = [k \in keep |-> IF k = id THEN sample ELSE history.sql[k]]
    BY <1>1, <1>2, <1>3 DEF SqlAfter
  <1>6. id \in 1..id /\ 1..(id - 1) \subseteq 1..id
    OBVIOUS
  <1>7. DOMAIN SqlAfter(id, sample) = keep
    BY <1>5
  <1>8. \A k \in keep : SqlAfter(id, sample)[k] = IF k = id THEN sample ELSE history.sql[k]
    BY <1>5
  <1>9. \A k \in keep : k = id \/ k \in DOMAIN history.sql
    BY <1>2, <1>4
  <1>10. \A k \in keep : SqlAfter(id, sample)[k] \in [Sql -> Sample \cup {None}]
    BY <1>8, <1>9 DEF PlanTypes, HistoryType
  <1> QED
    BY <1>2, <1>4, <1>6, <1>7, <1>10

\* What every step does beyond the invariant.
Again ==
  \A q \in round.todo \ round'.todo :
     (/\ q \in verdict.fired
      /\ round.sample[q] = verdict.sample[q]
      /\ BaselineOf(q) # {})
     => q \in round'.fired

Loses ==
  \A b \in history.baseline \ history'.baseline :
     \/ events'.open[b.sql] = 0 /\ b.sql \notin verdict'.fired
     \/ /\ Cardinality(BaselineSnaps) >= MaxSnap
        /\ \A c \in history.baseline : b.snap <= c.snap
        /\ \E q \in round'.fired \ round.fired : q # b.sql

StepKeeps == PlanInv' /\ Again /\ Loses /\ KeepsNewest

\* A refresh that cannot compare forgets what fired and changes nothing else.
LEMMA UnjudgedKeepsPlan ==
  ASSUME PlanInv, NEW tick \in 0..1, QueryFails(tick) \/ Replaces(tick)
  PROVE  StepKeeps
  <1>0. PlanTypes
    BY DEF PlanInv
  <1>1. /\ ~round.open /\ snap.id < MaxCycle /\ UNCHANGED <<history, events, round>>
        /\ verdict' = [fired |-> {}, sample |-> Unseen]
    BY DEF QueryFails, Replaces, Unjudged, NextRefresh
  <1>2. \E l \in {snap.last, snap.at + tick} :
          snap' = [id |-> snap.id + 1, at |-> snap.at + tick, last |-> l]
    <2>1. CASE QueryFails(tick)
      <3>1. snap = [id |-> snap.id, at |-> snap.at, last |-> snap.last]
        BY <1>0 DEF PlanTypes
      <3> QED
        BY <2>1, <3>1 DEF QueryFails
    <2>2. CASE Replaces(tick)
      BY <2>2 DEF Replaces
    <2> QED
      BY <2>1, <2>2
  <1>3. /\ snap' \in [id : 0..MaxCycle, at : 0..MaxCycle, last : -1..MaxCycle]
        /\ snap'.id = snap.id + 1 /\ snap'.at <= snap'.id /\ snap.id \in Nat
    BY <1>0, <1>1, <1>2, SnapMoves
  <1>4. verdict'.fired = {}
    BY <1>1
  <1>5. HistoryType(history, snap'.id)
    BY <1>0, <1>3, HistoryStays DEF PlanTypes
  <1>6. PlanTypes'
    BY <1>0, <1>1, <1>3, <1>4, <1>5 DEF PlanTypes
  <1>7. Matched(history.baseline, events)' /\ Judgeable(history.baseline, events)'
    BY <1>1, Zenon DEF PlanInv
  <1>8. Remembered(round, verdict, history.baseline)'
    <2>1. Remembered(round, verdict, history.baseline)
      BY DEF PlanInv
    <2>2. ASSUME NEW v, v.fired = {} PROVE Remembered(round, v, history.baseline)
      BY <2>1, <2>2 DEF Remembered
    <2> QED
      BY <1>1, <1>4, <2>2
  <1>9. Again /\ Loses /\ KeepsNewest
    BY <1>1 DEF Again, Loses, KeepsNewest
  <1> QED
    BY <1>6, <1>7, <1>8, <1>9 DEF StepKeeps, PlanInv

\* The samples of a refresh.
LEMMA AnalyzesKeepsPlan ==
  ASSUME PlanInv, NEW tick \in 0..1, Analyzes(tick)
  PROVE  StepKeeps
  <1>0. PlanTypes
    BY DEF PlanInv
  <1>1. /\ ~round.open /\ snap.id < MaxCycle /\ UNCHANGED <<events, verdict>>
        /\ snap' = [snap EXCEPT !.id = @ + 1, !.at = @ + tick]
    BY DEF Analyzes, NextRefresh
  <1>2. snap' = [id |-> snap.id + 1, at |-> snap.at + tick, last |-> snap.last]
    <2>1. snap = [id |-> snap.id, at |-> snap.at, last |-> snap.last]
      BY <1>0 DEF PlanTypes
    <2> QED
      BY <1>1, <2>1
  <1>3. /\ snap' \in [id : 0..MaxCycle, at : 0..MaxCycle, last : -1..MaxCycle]
        /\ snap'.id = snap.id + 1 /\ snap'.at <= snap'.id /\ snap.id \in Nat
        /\ snap'.id \in Nat \ {0}
    BY <1>0, <1>1, <1>2, SnapMoves
  <1>4. PICK sample \in [Sql -> Sample \cup {None}], hot \in SUBSET Sql :
          /\ history' = [history EXCEPT !.sql = SqlAfter(snap'.id, sample)]
          /\ round' = [open |-> TRUE, todo |-> hot, fired |-> {}, sample |-> sample]
    BY ZenonT(60) DEF Analyzes
  <1>5. PICK kept : kept = SqlAfter(snap'.id, sample)
    OBVIOUS
  <1>6. /\ DOMAIN kept \in SUBSET (1..snap'.id)
        /\ \A k \in DOMAIN kept : kept[k] \in [Sql -> Sample \cup {None}]
        /\ LostOldest(DOMAIN history.sql, DOMAIN kept)
    BY <1>0, <1>3, <1>5, SamplesKept
  <1>7. /\ history'.sql = kept /\ history'.baseline = history.baseline
        /\ history' = [sql |-> history'.sql, baseline |-> history'.baseline]
    <2>1. history = [sql |-> history.sql, baseline |-> history.baseline]
      BY <1>0 DEF PlanTypes, HistoryType
    <2>2. history' = [sql |-> kept, baseline |-> history.baseline]
      BY <1>4, <1>5, <2>1
    <2> QED
      BY <2>2
  <1>8. /\ round'.open = TRUE /\ round'.todo = hot /\ round'.fired = {}
        /\ RoundType(round')
    BY <1>4 DEF RoundType
  <1>9. HistoryType(history', snap'.id)
    <2>1. history.baseline \in SUBSET Baseline
      BY <1>0 DEF PlanTypes, HistoryType
    <2> QED
      BY <1>6, <1>7, <2>1 DEF HistoryType
  <1>10. PlanTypes'
    BY <1>0, <1>1, <1>3, <1>8, <1>9 DEF PlanTypes
  <1>11. Matched(history.baseline, events)' /\ Judgeable(history.baseline, events)'
    BY <1>1, <1>7, Zenon DEF PlanInv
  <1>12. Remembered(round, verdict, history.baseline)'
    <2>1. \A b \in history.baseline :
            b.sql \in verdict.fired => Regressed(verdict.sample[b.sql], b.is, TRUE)
      BY <1>1 DEF PlanInv, Remembered
    <2>2. Remembered(round', verdict, history.baseline)
      BY <1>8, <2>1 DEF Remembered
    <2> QED
      BY <1>1, <1>7, <2>2
  <1>13. Again /\ Loses /\ KeepsNewest
    <2>1. round.todo = {}
      BY <1>0, <1>1 DEF PlanTypes, RoundType
    <2>2. Again /\ Loses
      BY <1>7, <2>1 DEF Again, Loses
    <2>3. KeepsNewest
      BY <1>6, <1>7 DEF KeepsNewest, LostOldest
    <2> QED
      BY <2>2, <2>3
  <1> QED
    BY <1>10, <1>11, <1>12, <1>13 DEF StepKeeps, PlanInv

\* The window sample a statement without a baseline fires against.
LEMMA WindowSample ==
  ASSUME PlanTypes, NEW q \in Sql, WorseThanWindow(q) # {}
  PROVE  \E k \in 1..MaxCycle :
            /\ k = Min(WorseThanWindow(q))
            /\ history.sql[k][q] \in Sample
            /\ Regressed(round.sample[q], history.sql[k][q], TRUE)
  <1>1. PICK k : k = Min(WorseThanWindow(q))
    OBVIOUS
  <1>2. WorseThanWindow(q) \in SUBSET DOMAIN history.sql
    BY DEF WorseThanWindow, Window
  <1>3. DOMAIN history.sql \in SUBSET (1..snap.id) /\ snap.id \in 0..MaxCycle /\ MaxCycle \in Nat
    BY HistoryAssumption DEF PlanTypes, HistoryType
  <1>4. WorseThanWindow(q) \in SUBSET Nat
    BY <1>2, <1>3
  <1>5. k \in WorseThanWindow(q)
    BY <1>1, <1>4, MinIsLeast
  <1>6. k \in DOMAIN history.sql /\ history.sql[k][q] # None
        /\ Regressed(round.sample[q], history.sql[k][q], FALSE)
    BY <1>5 DEF WorseThanWindow, Window
  <1>7. history.sql[k] \in [Sql -> Sample \cup {None}]
    BY <1>6 DEF PlanTypes, HistoryType
  <1>8. history.sql[k][q] \in Sample
    BY <1>6, <1>7
  <1>9. Regressed(round.sample[q], history.sql[k][q], TRUE)
    BY <1>6 DEF Regressed
  <1>10. k \in 1..MaxCycle
    BY <1>3, <1>6
  <1> QED
    BY <1>1, <1>8, <1>9, <1>10

\* What a statement that fires leaves in the baselines: its own, worse than which
\* it is, and those of the others but for what room was made for.
LEMMA BaselinesOfFiring ==
  ASSUME PlanInv, NEW q \in Sql, FiresNow(q)
  PROVE  /\ BaselinesAfter(q) \in SUBSET Baseline
         /\ \A b, c \in BaselinesAfter(q) : b.sql = c.sql => b = c
         /\ \A b \in BaselinesAfter(q) : b \in history.baseline \/ b.sql = q
         /\ \A b \in BaselinesAfter(q) : b.sql = q => Regressed(round.sample[q], b.is, TRUE)
         /\ \E b \in BaselinesAfter(q) : b.sql = q
         /\ \A b \in history.baseline \ BaselinesAfter(q) :
              /\ Cardinality(BaselineSnaps) >= MaxSnap
              /\ \A c \in history.baseline : b.snap <= c.snap
              /\ b.sql # q
         /\ Cardinality(Sql) <= MaxSnap => history.baseline \in SUBSET BaselinesAfter(q)
  <1>1. /\ history.baseline \in SUBSET Baseline
        /\ \A b, c \in history.baseline : b.sql = c.sql => b = c
        /\ \A b \in history.baseline : b.sql \in Sql /\ b.snap \in 1..MaxCycle
    BY DEF PlanInv, PlanTypes, HistoryType, Matched, Baseline
  <1>2. CASE BaselineOf(q) # {}
    <2>1. BaselinesAfter(q) = history.baseline
      BY <1>2 DEF BaselinesAfter
    <2>2. PICK b \in history.baseline : b.sql = q /\ Regressed(round.sample[q], b.is, TRUE)
      BY <1>2 DEF FiresNow, WorseThanBaseline, BaselineOf
    <2>3. PICK B : B = history.baseline
      OBVIOUS
    <2>4. \A c \in B : c.sql = q => Regressed(round.sample[q], c.is, TRUE)
      BY <1>1, <2>2, <2>3
    <2>5. BaselinesAfter(q) = B /\ B \in SUBSET Baseline /\ B \ B = {}
      BY <1>1, <2>1, <2>3
    <2> QED
      BY <1>1, <2>2, <2>3, <2>4, <2>5
  <1>3. CASE BaselineOf(q) = {}
    <2>1. WorseThanWindow(q) # {}
      BY <1>3 DEF FiresNow
    <2>2. PICK k \in 1..MaxCycle :
            /\ k = Min(WorseThanWindow(q))
            /\ history.sql[k][q] \in Sample
            /\ Regressed(round.sample[q], history.sql[k][q], TRUE)
      BY <2>1, WindowSample DEF PlanInv
    <2>3. PICK is \in Sample : is = history.sql[k][q]
      BY <2>2
    <2>4. PICK new : new = [sql |-> q, snap |-> k, is |-> is, since |-> snap.at]
      OBVIOUS
    <2>5. BaselinesAfter(q) = BaselinesKept \cup {new}
      BY <1>3, <2>2, <2>3, <2>4 DEF BaselinesAfter
    <2>6. new \in Baseline /\ new.sql = q /\ Regressed(round.sample[q], new.is, TRUE)
      <3>1. snap.at \in 0..MaxCycle
        BY DEF PlanInv, PlanTypes
      <3> QED
        BY <2>2, <2>3, <2>4, <3>1 DEF Baseline
    <2>7. BaselinesKept \in SUBSET history.baseline
      BY DEF BaselinesKept
    <2>8. \A b \in history.baseline : b.sql # q
      BY <1>3 DEF BaselineOf
    <2>9. \A b \in history.baseline \ BaselinesKept :
            /\ Cardinality(BaselineSnaps) >= MaxSnap
            /\ \A c \in history.baseline : b.snap <= c.snap
      <3> SUFFICES ASSUME NEW b \in history.baseline \ BaselinesKept
                   PROVE  /\ Cardinality(BaselineSnaps) >= MaxSnap
                          /\ \A c \in history.baseline : b.snap <= c.snap
        OBVIOUS
      <3>1. PICK ids \in SUBSET (1..MaxCycle) : ids = BaselineSnaps
        BY <1>1 DEF BaselineSnaps
      <3>2. b.snap \in ids \ Evicted(ids)
        BY <3>1 DEF BaselinesKept, BaselineSnaps
      <3>3. MaxCycle \in Nat
        BY HistoryAssumption
      <3>4. Cardinality(ids) >= MaxSnap /\ \A y \in ids : b.snap <= y
        BY <3>2, <3>3, EvictedIsOld
      <3>5. \A c \in history.baseline : c.snap \in ids
        BY <3>1 DEF BaselineSnaps
      <3> QED
        BY <3>1, <3>4, <3>5
    <2>10. ASSUME Cardinality(Sql) <= MaxSnap PROVE BaselinesKept = history.baseline
      <3>1. Cardinality({b.snap : b \in history.baseline}) < MaxSnap
        BY <1>1, <2>8, <2>10, RoomForAll
      <3>2. Evicted(BaselineSnaps) = BaselineSnaps
        BY <3>1 DEF Evicted, BaselineSnaps
      <3> QED
        BY <3>2 DEF BaselinesKept, BaselineSnaps
    <2>11. \A b, c \in BaselinesAfter(q) : b.sql = c.sql => b = c
      BY <1>1, <2>5, <2>6, <2>7, <2>8
    <2>12. \A b \in BaselinesAfter(q) : b.sql = q => b = new
      BY <2>5, <2>7, <2>8
    <2> QED
      BY <1>1, <2>5, <2>6, <2>7, <2>8, <2>9, <2>10, <2>11, <2>12
  <1> QED
    BY <1>2, <1>3

\* A statement fires.
LEMMA FiresKeepsPlan ==
  ASSUME PlanInv, NEW q \in Sql, Regresses(q)
  PROVE  StepKeeps
  <1>0. PlanTypes
    BY DEF PlanInv
  <1>1. /\ q \in round.todo /\ FiresNow(q) /\ UNCHANGED <<snap, verdict>>
        /\ history' = [history EXCEPT !.baseline = BaselinesAfter(q)]
        /\ events' = Opened(q)
        /\ round' = [round EXCEPT !.todo = @ \ {q}, !.fired = @ \cup {q}]
    BY DEF Regresses
  <1>2. PICK B, C : B = history.baseline /\ C = BaselinesAfter(q)
    OBVIOUS
  <1>3. /\ C \in SUBSET Baseline
        /\ \A b, c \in C : b.sql = c.sql => b = c
        /\ \A b \in C : b \in B \/ b.sql = q
        /\ \A b \in C : b.sql = q => Regressed(round.sample[q], b.is, TRUE)
        /\ \E b \in C : b.sql = q
        /\ \A b \in B \ C : /\ Cardinality(BaselineSnaps) >= MaxSnap
                            /\ \A c \in B : b.snap <= c.snap
                            /\ b.sql # q
        /\ Cardinality(Sql) <= MaxSnap => B \in SUBSET C
    BY <1>1, <1>2, BaselinesOfFiring
  <1>4. /\ history'.sql = history.sql /\ history'.baseline = C
        /\ history' = [sql |-> history'.sql, baseline |-> history'.baseline]
    <2>1. history = [sql |-> history.sql, baseline |-> history.baseline]
      BY <1>0 DEF PlanTypes, HistoryType
    <2>2. history' = [sql |-> history.sql, baseline |-> C]
      BY <1>1, <1>2, <2>1
    <2> QED
      BY <2>2
  <1>5. /\ round'.open = round.open /\ round.open /\ q \notin round.fired
        /\ round'.todo = round.todo \ {q} /\ round'.fired = round.fired \cup {q}
        /\ round'.sample = round.sample
        /\ round' = [open |-> round'.open, todo |-> round'.todo, fired |-> round'.fired,
                     sample |-> round'.sample]
    <2>1. /\ round = [open |-> round.open, todo |-> round.todo, fired |-> round.fired,
                      sample |-> round.sample]
          /\ round.open /\ q \notin round.fired
      BY <1>0, <1>1 DEF PlanTypes, RoundType
    <2>2. round' = [open |-> round.open, todo |-> round.todo \ {q},
                    fired |-> round.fired \cup {q}, sample |-> round.sample]
      BY <1>1, <2>1
    <2> QED
      BY <2>1, <2>2
  <1>6. RoundType(round')
    <2>1. /\ round.open \in BOOLEAN /\ round.todo \in SUBSET Sql /\ round.fired \in SUBSET Sql
          /\ \A p \in round.todo : round.open /\ p \notin round.fired
      BY <1>0 DEF PlanTypes, RoundType
    <2> QED
      BY <1>5, <2>1 DEF RoundType
  <1>7. HistoryType(history', snap.id)
    BY <1>0, <1>3, <1>4 DEF PlanTypes, HistoryType
  <1>8. PlanTypes'
    BY <1>0, <1>1, <1>6, <1>7 DEF PlanTypes
  <1>9. /\ Matched(C, events')
        /\ events'.open[q] # 0
        /\ \A p \in Sql \ {q} : events'.open[p] = events.open[p]
    <2>1. Matched(B, events) /\ \A b \in B : b.sql \in Sql
      BY <1>2 DEF PlanInv, PlanTypes, HistoryType, Baseline
    <2>2. snap.at \in 0..MaxCycle
      BY <1>0 DEF PlanTypes
    <2>3. \A c \in C : c \in B \/ c.sql = q
      BY <1>3
    <2>4. /\ Matched(C, Opened(q)) /\ Opened(q).open[q] # 0
          /\ \A p \in Sql \ {q} : Opened(q).open[p] = events.open[p]
      BY <1>3, <2>1, <2>2, <2>3, OpenedMatches
    <2> QED
      BY <1>1, <2>4
  <1>10. Judgeable(C, events')
    BY <1>2, <1>3, <1>9 DEF PlanInv, Judgeable
  <1>11. Remembered(round', verdict, C)
    <2> SUFFICES ASSUME NEW b \in C
                 PROVE  /\ b.sql \in round'.fired => Regressed(round'.sample[b.sql], b.is, TRUE)
                        /\ (b.sql \in verdict.fired /\ (~round'.open \/ b.sql \in round'.todo)) =>
                              Regressed(verdict.sample[b.sql], b.is, TRUE)
      BY DEF Remembered
    <2>1. CASE b.sql = q
      BY <1>3, <1>5, <2>1
    <2>2. CASE b.sql # q
      <3>1. b \in history.baseline
        BY <1>2, <1>3, <2>2
      <3>2. /\ b.sql \in round.fired => Regressed(round.sample[b.sql], b.is, TRUE)
            /\ (b.sql \in verdict.fired /\ (~round.open \/ b.sql \in round.todo)) =>
                  Regressed(verdict.sample[b.sql], b.is, TRUE)
        BY <3>1 DEF PlanInv, Remembered
      <3> QED
        BY <1>5, <2>2, <3>2
    <2> QED
      BY <2>1, <2>2
  <1>12. PlanInv'
    BY <1>1, <1>4, <1>8, <1>9, <1>10, <1>11 DEF PlanInv
  <1>13. Again
    BY <1>5 DEF Again
  <1>14. Loses
    BY <1>2, <1>3, <1>4, <1>5 DEF Loses
  <1>15. KeepsNewest
    BY <1>4 DEF KeepsNewest
  <1> QED
    BY <1>12, <1>13, <1>14, <1>15 DEF StepKeeps

\* A statement does not fire: if it did last time and is sampled the same, it has
\* no baseline any more.
LEMMA QuietKeepsPlan ==
  ASSUME PlanInv, NEW q \in Sql, StaysQuiet(q)
  PROVE  StepKeeps
  <1>0. PlanTypes
    BY DEF PlanInv
  <1>1. /\ q \in round.todo /\ ~FiresNow(q) /\ UNCHANGED <<snap, history, events, verdict>>
        /\ round' = [round EXCEPT !.todo = @ \ {q}]
    BY DEF StaysQuiet
  <1>2. /\ round'.open = round.open /\ round.open
        /\ round'.todo = round.todo \ {q} /\ round'.fired = round.fired
        /\ round'.sample = round.sample
        /\ round' = [open |-> round'.open, todo |-> round'.todo, fired |-> round'.fired,
                     sample |-> round'.sample]
    <2>1. /\ round = [open |-> round.open, todo |-> round.todo, fired |-> round.fired,
                      sample |-> round.sample]
          /\ round.open
      BY <1>0, <1>1 DEF PlanTypes, RoundType
    <2>2. round' = [open |-> round.open, todo |-> round.todo \ {q},
                    fired |-> round.fired, sample |-> round.sample]
      BY <1>1, <2>1
    <2> QED
      BY <2>1, <2>2
  <1>3. RoundType(round')
    BY <1>0, <1>2 DEF PlanTypes, RoundType
  <1>4. PlanTypes'
    BY <1>0, <1>1, <1>3 DEF PlanTypes
  <1>5. Remembered(round', verdict, history.baseline)
    BY <1>2 DEF PlanInv, Remembered
  <1>6. PlanInv'
    BY <1>1, <1>4, <1>5 DEF PlanInv
  <1>7. Again
    <2> SUFFICES ASSUME q \in verdict.fired, round.sample[q] = verdict.sample[q],
                        BaselineOf(q) # {}
                 PROVE  FALSE
      BY <1>1, <1>2 DEF Again
    <2>1. PICK b \in history.baseline : b.sql = q
      BY DEF BaselineOf
    <2>2. Regressed(verdict.sample[q], b.is, TRUE)
      BY <1>1, <2>1 DEF PlanInv, Remembered
    <2>3. Regressed(round.sample[q], b.is, TRUE)
      BY <2>2
    <2>4. WorseThanBaseline(q)
      BY <2>1, <2>3 DEF WorseThanBaseline, BaselineOf
    <2> QED
      BY <1>1, <2>4 DEF FiresNow
  <1>8. Loses /\ KeepsNewest
    BY <1>1 DEF Loses, KeepsNewest
  <1> QED
    BY <1>6, <1>7, <1>8 DEF StepKeeps

\* The end of an analysis.
LEMMA JudgesKeepsPlan ==
  ASSUME PlanInv, Judges
  PROVE  StepKeeps
  <1>0. PlanTypes
    BY DEF PlanInv
  <1>1. /\ round.open /\ round.todo = {}
        /\ history' = [history EXCEPT !.baseline = @ \ Recovered]
        /\ events' = Closed({b.sql : b \in Recovered})
        /\ snap' = [snap EXCEPT !.last = snap.at]
        /\ verdict' = [fired |-> round.fired, sample |-> round.sample]
        /\ round' = NoRound
    BY DEF Judges
  <1>2. PICK B, over : B = history.baseline /\ over = Recovered
    OBVIOUS
  <1>3. over \in SUBSET B /\ \A b \in over : b.sql \notin round.fired
    BY <1>2 DEF Recovered
  <1>4. /\ history'.sql = history.sql /\ history'.baseline = B \ over
        /\ history' = [sql |-> history'.sql, baseline |-> history'.baseline]
    <2>1. history = [sql |-> history.sql, baseline |-> history.baseline]
      BY <1>0 DEF PlanTypes, HistoryType
    <2>2. history' = [sql |-> history.sql, baseline |-> B \ over]
      BY <1>1, <1>2, <2>1
    <2> QED
      BY <2>2
  <1>5. /\ snap' \in [id : 0..MaxCycle, at : 0..MaxCycle, last : -1..MaxCycle]
        /\ snap'.id = snap.id /\ snap'.at = snap.at
    <2>1. /\ snap.id \in 0..MaxCycle /\ snap.at \in 0..MaxCycle
          /\ snap = [id |-> snap.id, at |-> snap.at, last |-> snap.last] /\ MaxCycle \in Nat
      BY <1>0, HistoryAssumption DEF PlanTypes
    <2>2. snap' = [id |-> snap.id, at |-> snap.at, last |-> snap.at]
      BY <1>1, <2>1
    <2>3. snap.at \in -1..MaxCycle
      BY <2>1
    <2> QED
      BY <2>1, <2>2, <2>3
  <1>6. verdict'.fired = round.fired /\ verdict'.sample = round.sample
    BY <1>1
  <1>7. RoundType(round') /\ round'.open = FALSE /\ round'.todo = {} /\ round'.fired = {}
    BY <1>1 DEF RoundType, NoRound
  <1>8. HistoryType(history', snap.id) /\ \A b \in B : b.sql \in Sql
    <2>1. HistoryType(history, snap.id)
      BY <1>0 DEF PlanTypes
    <2>2. B \in SUBSET Baseline
      BY <1>2, <2>1 DEF HistoryType
    <2> QED
      BY <1>4, <2>1, <2>2 DEF HistoryType, Baseline
  <1>9. PlanTypes'
    BY <1>0, <1>5, <1>6, <1>7, <1>8 DEF PlanTypes, RoundType
  <1>10. /\ Matched(B \ over, events')
         /\ \A b \in over : events'.open[b.sql] = 0
         /\ \A q \in Sql : events'.open[q] # 0 => events.open[q] # 0 /\ \A b \in over : b.sql # q
    <2>1. Matched(B, events)
      BY <1>2 DEF PlanInv
    <2> QED
      BY <1>1, <1>2, <1>3, <1>8, <2>1, ClosedMatches
  <1>11. Judgeable(B \ over, events')
    BY <1>2, <1>10 DEF PlanInv, Judgeable
  <1>12. Remembered(round', verdict', B \ over)
    BY <1>2, <1>6, <1>7 DEF PlanInv, Remembered
  <1>13. PlanInv'
    BY <1>4, <1>9, <1>10, <1>11, <1>12 DEF PlanInv
  <1>14. Again /\ KeepsNewest
    BY <1>1, <1>4 DEF Again, KeepsNewest
  <1>15. Loses
    BY <1>2, <1>3, <1>4, <1>6, <1>10 DEF Loses
  <1> QED
    BY <1>13, <1>14, <1>15 DEF StepKeeps

\* Nothing fired, and there is nothing to match.
LEMMA PlanInvStarts ==
  ASSUME PlanInit
  PROVE  PlanInv
  <1>1. /\ snap \in [id : 0..MaxCycle, at : 0..MaxCycle, last : -1..MaxCycle]
        /\ snap.at <= snap.id
    BY HistoryAssumption DEF PlanInit
  <1>2. /\ history = [sql |-> << >>, baseline |-> {}]
        /\ events = [kept |-> << >>, open |-> [q \in Sql |-> 0]]
        /\ round = NoRound /\ verdict = [fired |-> {}, sample |-> Unseen]
    BY DEF PlanInit
  <1>3. history.sql = << >> /\ history.baseline = {} /\ verdict.fired = {}
        /\ history = [sql |-> history.sql, baseline |-> history.baseline]
    BY <1>2
  <1>4. HistoryType(history, snap.id)
    BY <1>3 DEF HistoryType
  <1>5. RoundType(round)
    BY <1>2 DEF RoundType, NoRound
  <1>6. /\ events = [kept |-> events.kept, open |-> events.open]
        /\ events.kept = << >> /\ events.open = [q \in Sql |-> 0]
    BY <1>2
  <1>7. << >> \in Seq(Event) /\ Len(<< >>) = 0 /\ 1..0 = {} /\ 0 \in 0..0
    OBVIOUS
  <1>8. events.open \in [Sql -> 0..Len(events.kept)] /\ \A q \in Sql : events.open[q] = 0
    BY <1>6, <1>7
  <1>9. Matched(history.baseline, events)
    BY <1>3, <1>6, <1>7, <1>8 DEF Matched
  <1>10. Judgeable(history.baseline, events) /\ Remembered(round, verdict, history.baseline)
    BY <1>3, <1>8 DEF Remembered, Judgeable
  <1> QED
    BY <1>1, <1>3, <1>4, <1>5, <1>9, <1>10 DEF PlanInv, PlanTypes

\* Every step keeps the invariant and what a step may never do.
LEMMA PlanInvStays ==
  ASSUME PlanInv, [PlanNext]_planVars
  PROVE  PlanInv' /\ [Again]_planVars /\ [Loses]_planVars /\ [KeepsNewest]_planVars
  <1>1. CASE PlanNext
    <2>1. ASSUME NEW tick \in 0..1, QueryFails(tick) \/ Replaces(tick) PROVE StepKeeps
      BY <2>1, UnjudgedKeepsPlan
    <2>2. ASSUME NEW tick \in 0..1, Analyzes(tick) PROVE StepKeeps
      BY <2>2, AnalyzesKeepsPlan
    <2>3. ASSUME NEW q \in Sql, Regresses(q) PROVE StepKeeps
      BY <2>3, FiresKeepsPlan
    <2>4. ASSUME NEW q \in Sql, StaysQuiet(q) PROVE StepKeeps
      BY <2>4, QuietKeepsPlan
    <2>5. ASSUME Judges PROVE StepKeeps
      BY <2>5, JudgesKeepsPlan
    <2>6. StepKeeps
      BY <1>1, <2>1, <2>2, <2>3, <2>4, <2>5, Zenon DEF PlanNext
    <2> QED
      BY <2>6 DEF StepKeeps
  <1>2. CASE UNCHANGED planVars
    <2>1. UNCHANGED <<snap, history, events, round, verdict>>
      BY <1>2 DEF planVars
    <2>2. PlanTypes'
      BY <2>1, Zenon DEF PlanInv, PlanTypes
    <2>3. Matched(history.baseline, events)' /\ Judgeable(history.baseline, events)'
          /\ Remembered(round, verdict, history.baseline)'
      BY <2>1, Zenon DEF PlanInv
    <2> QED
      BY <1>2, <2>2, <2>3 DEF PlanInv
  <1> QED
    BY <1>1, <1>2

\* A regression that lasts fires at every analysis unless its baseline went to
\* make room, a baseline goes with its event or as the oldest of a full history, and
\* room for samples costs the oldest only, for any statements, samples, room and
\* order of evaluation (analyzePlanChange, MemPersist).
THEOREM RegressionsStayFound == PlanSpec => PlanSafety
  <1>1. ASSUME PlanInv
        PROVE  PlanTypeOK /\ EventMatchesBaseline
    <2>1. PlanTypeOK
      <3>1. snap.id \in 0..MaxCycle /\ MaxCycle \in Nat
        BY <1>1, HistoryAssumption DEF PlanInv, PlanTypes
      <3>2. 1..snap.id \subseteq 1..MaxCycle
        BY <3>1
      <3>3. /\ snap \in [id : 0..MaxCycle, at : 0..MaxCycle, last : -1..MaxCycle]
            /\ DOMAIN history.sql \subseteq 1..MaxCycle
            /\ round.todo \subseteq Sql /\ round.fired \subseteq Sql
            /\ verdict.fired \subseteq Sql
        BY <1>1, <3>2 DEF PlanInv, PlanTypes, HistoryType, RoundType
      <3>4. \A b \in history.baseline :
              b \in [sql : Sql, snap : 1..MaxCycle, is : Sample, since : 0..MaxCycle]
        BY <1>1, Zenon DEF PlanInv, PlanTypes, HistoryType, Baseline
      <3>5. events.open \in [Sql -> 0..Len(events.kept)]
        BY <1>1 DEF PlanInv, Matched
      <3> QED
        BY <3>3, <3>4, <3>5, Zenon DEF PlanTypeOK
    <2>2. DOMAIN events.kept = 1..Len(events.kept)
      BY <1>1 DEF PlanInv, Matched
    <2>3. ASSUME NEW q \in Sql
          PROVE  Cardinality(BaselineOf(q)) <= IF events.open[q] = 0 THEN 0 ELSE 1
      <3>1. CASE BaselineOf(q) = {}
        <4>1. Cardinality(BaselineOf(q)) = 0
          BY <3>1, FS_EmptySet
        <4> QED
          BY <4>1
      <3>2. CASE BaselineOf(q) # {}
        <4>1. PICK b \in history.baseline : b.sql = q
          BY <3>2 DEF BaselineOf
        <4>2. BaselineOf(q) = {b}
          BY <1>1, <4>1 DEF BaselineOf, PlanInv, Matched
        <4>3. Cardinality(BaselineOf(q)) = 1 /\ events.open[q] # 0
          BY <1>1, <4>1, <4>2, FS_Singleton DEF PlanInv, Matched
        <4> QED
          BY <4>3
      <3> QED
        BY <3>1, <3>2
    <2> QED
      BY <1>1, <2>1, <2>2, <2>3 DEF PlanInv, Matched, EventMatchesBaseline
  <1> QED
    BY <1>1, PlanInvStarts, PlanInvStays, PTL DEF PlanSpec, PlanSafety, StillFires, BaselineStays,
       WindowHasHistory, Again, Loses, KeepsNewest

\* Every open event has the baseline that it will be judged by, and closed.
EveryEventIsJudged ==
  \A q \in Sql : events.open[q] # 0 => BaselineOf(q) # {}

\* With room for as many snapshots as there are statements no eviction of
\* PersistEmergencySQLInfo leaves an open event without its baseline, so that
\* judgeRecovered reaches every one of them.
THEOREM EventsAreJudged ==
  ASSUME Cardinality(Sql) <= MaxSnap
  PROVE  PlanSpec => []EveryEventIsJudged
  <1>1. ASSUME PlanInv PROVE EveryEventIsJudged
    BY <1>1 DEF PlanInv, Judgeable, EveryEventIsJudged, BaselineOf
  <1> QED
    BY <1>1, PlanInvStarts, PlanInvStays, PTL DEF PlanSpec
=============================================================================
