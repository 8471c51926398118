------------------------- MODULE WorkerGroupProofs -------------------------
(* Theorems about a group of load workers, for any maximum and any number of  *)
(* goroutines: its counters are exact, the peak loses no update, and nothing  *)
(* runs after a Stop that returned nil.                                       *)
EXTENDS WorkerGroup, FiniteSetTheorems, TLAPS

-----------------------------------------------------------------------------
(* The invariant.                                                             *)

\* Where a worker is counted as active, where as started, and where it has yet
\* to raise the peak to the value it counted.
ActivePoints == {"counted", "started", "swap", "notify", "gate", "loop", "cleared",
                 "work", "leave"}
BegunPoints == {"started", "swap", "notify", "gate", "loop", "cleared", "work", "leave",
                "retire", "hook", "done"}
PeakPoints == {"counted", "started", "swap"}
Points == {"off", "spawned", "counted", "done"} \cup ActivePoints \cup BegunPoints

At(points) == {w \in Worker : pc[w] \in points}

\* The flags, and what the owner of the group waits for.
FlagsOK ==
  /\ {stopped, groupDone, closed, timer, gate, token} \subseteq BOOLEAN
  /\ deadline \in {"none", "ahead", "past"}
  /\ owner \in {"free", "check", "blocked"}
  /\ wanted \in 0..Max

\* The goroutines that were started are those with an id below the next one.
IdsOK ==
  /\ nextID \in 0..MaxSpawned
  /\ slots \subseteq Spawned /\ Cardinality(slots) <= Max
  /\ retiring \subseteq Spawned
  /\ cancelled \subseteq Spawned
  /\ pc \in [Worker -> Points]
  /\ \A w \in Worker : pc[w] = "off" <=> w \notin Spawned

\* The atomic counters say how many workers are where.
CountersOK ==
  /\ active = Cardinality(At(ActivePoints))
  /\ started = Cardinality(At(BegunPoints))

\* The highest value of active is the peak, or it is still in the hands of a
\* worker that has not stored it.
PeakOK ==
  /\ highest \in 0..MaxSpawned /\ peak \in 0..highest
  /\ active <= highest
  /\ mine \in [Worker -> 0..highest]
  /\ read \in [Worker -> 0..MaxSpawned]
  /\ \A w \in Worker : pc[w] = "swap" => mine[w] > read[w]
  /\ highest = peak \/ \E w \in At(PeakPoints) : mine[w] = highest

\* A stopped group has no slots, and Stop returns once its workers are done.
StopOK ==
  /\ stopper \in {"off", "marked", "waiting", "returned", "gave_up"}
  /\ stopper # "off" => stopped /\ slots = {}
  /\ stopper = "returned" => \A w \in Spawned : pc[w] = "done"

\* The inductive invariant.
GroupInv == FlagsOK /\ IdsOK /\ CountersOK /\ PeakOK /\ StopOK

\* Workers are numbered below the bound, so any set of them is finite.
LEMMA WorkersFinite ==
  ASSUME NEW S \in SUBSET Worker
  PROVE  IsFiniteSet(S) /\ Cardinality(S) \in 0..MaxSpawned
  <1>1. IsFiniteSet(Worker) /\ Cardinality(Worker) = MaxSpawned
    BY FS_Interval, GroupConstants DEF Worker
  <1> QED
    BY <1>1, FS_Subset, FS_CardinalityType, GroupConstants

\* What the step of one worker does to the set of those at some points.
LEMMA AtAfter ==
  ASSUME IdsOK, NEW w \in Worker, NEW to, pc' = [pc EXCEPT ![w] = to], NEW points
  PROVE  /\ to \in points => At(points)' = At(points) \cup {w}
         /\ to \notin points => At(points)' = At(points) \ {w}
  <1>1. pc' = [v \in Worker |-> IF v = w THEN to ELSE pc[v]]
    BY DEF IdsOK
  <1> QED
    BY <1>1 DEF At

\* ... and to the number of them: one more, one less, or as many.
LEMMA CountAfter ==
  ASSUME IdsOK, NEW w \in Worker, NEW to, pc' = [pc EXCEPT ![w] = to], NEW points
  PROVE  Cardinality(At(points)') =
           Cardinality(At(points))
             + (IF to \in points /\ pc[w] \notin points THEN 1
                ELSE IF to \notin points /\ pc[w] \in points THEN 0 - 1 ELSE 0)
  <1>1. At(points) \in SUBSET Worker /\ (w \in At(points) <=> pc[w] \in points)
    BY DEF At
  <1>2. IsFiniteSet(At(points)) /\ Cardinality(At(points)) \in Nat
    BY <1>1, WorkersFinite
  <1>3. Cardinality(At(points) \cup {w}) =
          IF w \in At(points) THEN Cardinality(At(points)) ELSE Cardinality(At(points)) + 1
    BY <1>2, FS_AddElement
  <1>4. Cardinality(At(points) \ {w}) =
          IF w \in At(points) THEN Cardinality(At(points)) - 1 ELSE Cardinality(At(points))
    BY <1>2, FS_RemoveElement
  <1>5. CASE to \in points
    <2>1. At(points)' = At(points) \cup {w}
      BY <1>5, AtAfter
    <2> QED
      BY <1>1, <1>2, <1>3, <1>5, <2>1
  <1>6. CASE to \notin points
    <2>1. At(points)' = At(points) \ {w}
      BY <1>6, AtAfter
    <2> QED
      BY <1>1, <1>2, <1>4, <1>6, <2>1
  <1> QED
    BY <1>5, <1>6

\* A new group has no workers and counts none.
LEMMA GroupInvInit ==
  ASSUME Init
  PROVE  GroupInv
  <1>1. FlagsOK
    <2>1. {stopped, groupDone, closed, timer, gate, token} \subseteq BOOLEAN
      BY Zenon DEF Init
    <2>2. 0 \in 0..Max
      BY GroupConstants
    <2> QED
      BY <2>1, <2>2, Zenon DEF Init, FlagsOK
  <1>2. Spawned = {}
    BY DEF Init, Spawned
  <1>3. IdsOK
    BY <1>2, FS_EmptySet, GroupConstants DEF Init, IdsOK, Points
  <1>4. \A points : "off" \notin points => At(points) = {}
    BY DEF Init, At
  <1>5. CountersOK
    BY <1>4, FS_EmptySet DEF Init, CountersOK, ActivePoints, BegunPoints
  <1>6. PeakOK
    BY GroupConstants DEF Init, PeakOK
  <1>7. StopOK
    BY DEF Init, StopOK
  <1> QED
    BY <1>1, <1>3, <1>5, <1>6, <1>7 DEF GroupInv

\* Neither the wait for readiness nor the cutoff touches a worker or a counter.
LEMMA OwnerKeepsInv ==
  ASSUME GroupInv,
         \/ \E n \in 1..Max : WaitReady(n)
         \/ WaitReadyChecks \/ WaitReadyWakes \/ WaitReadyFails
         \/ SetRunDeadline \/ OpenGate \/ DeadlinePasses \/ TimerFires \/ ParentCancels
  PROVE  GroupInv'
  <1>1. UNCHANGED <<locked, counters, workers, stopper>>
    BY DEF WaitReady, WaitReadyChecks, WaitReadyWakes, WaitReadyFails, OwnerGoes,
      SetRunDeadline, OpenGate, DeadlinePasses, TimerFires, ParentCancels
  <1>2. IdsOK' /\ CountersOK' /\ PeakOK' /\ StopOK'
    BY <1>1 DEF GroupInv, locked, counters, workers, IdsOK, CountersOK, PeakOK, StopOK,
      At,
      Spawned
  <1>3. FlagsOK'
    <2>1. {stopped, groupDone, closed, timer, gate, token}' \subseteq BOOLEAN
      BY <1>1, Zenon DEF GroupInv, FlagsOK, WaitReady, WaitReadyChecks, WaitReadyWakes,
        WaitReadyFails, OwnerGoes, SetRunDeadline, OpenGate, DeadlinePasses, TimerFires,
        ParentCancels, CloseInjection, cutoff, locked
    <2>2. /\ deadline' \in {"none", "ahead", "past"}
          /\ owner' \in {"free", "check", "blocked"}
          /\ wanted' \in 0..Max
      BY GroupConstants DEF GroupInv, FlagsOK, WaitReady, WaitReadyChecks,
        WaitReadyWakes,
        WaitReadyFails, OwnerGoes, SetRunDeadline, OpenGate, DeadlinePasses, TimerFires,
        ParentCancels, cutoff, owners
    <2> QED
      BY <2>1, <2>2 DEF FlagsOK
  <1> QED
    BY <1>2, <1>3 DEF GroupInv

\* Stop takes every slot, cancels its worker, and leaves the counters to the
\* workers.
LEMMA StopKeepsInv ==
  ASSUME GroupInv, Stop
  PROVE  GroupInv'
  <1>1. UNCHANGED <<nextID, retiring, counters, workers, owners, deadline, gate>>
    BY DEF Stop, StopMarks, StopCloses, StopReturns, locked, cutoff
  <1>2. FlagsOK'
    <2>1. {stopped, groupDone, closed, timer, gate, token}' \subseteq BOOLEAN
      BY Zenon DEF GroupInv, FlagsOK, Stop, StopMarks, StopCloses, StopReturns,
        CloseInjection, cutoff, locked
    <2>2. /\ deadline' \in {"none", "ahead", "past"}
          /\ owner' \in {"free", "check", "blocked"}
          /\ wanted' \in 0..Max
      BY <1>1 DEF GroupInv, FlagsOK, owners
    <2> QED
      BY <2>1, <2>2 DEF FlagsOK
  <1>3. IdsOK'
    <2>1. slots' \in {slots, {}} /\ cancelled' \subseteq cancelled \cup slots
      BY DEF Stop, StopMarks, StopCloses, StopReturns, locked
    <2>2. Cardinality({}) <= Max
      BY FS_EmptySet, GroupConstants
    <2>3. Cardinality(slots') <= Max
      BY <2>1, <2>2 DEF GroupInv, IdsOK
    <2>4. UNCHANGED pc /\ Spawned' = Spawned
      BY <1>1 DEF workers, Spawned
    <2> QED
      BY <1>1, <2>1, <2>3, <2>4 DEF GroupInv, IdsOK
  <1>4. CountersOK' /\ PeakOK'
    BY <1>1 DEF GroupInv, CountersOK, PeakOK, counters, workers, At
  <1>5. StopOK'
    BY <1>1 DEF GroupInv, StopOK, Stop, StopMarks, StopCloses, StopReturns, locked,
      workers,
      Spawned
  <1> QED
    BY <1>2, <1>3, <1>4, <1>5 DEF GroupInv

\* The n highest of them are some of them.
LEMMA NewestOfThem ==
  ASSUME NEW S, NEW n
  PROVE  Newest(S, n) \subseteq S
  BY DEF Newest

\* SetTarget starts workers with fresh ids up to the target, or retires some.
LEMMA SetTargetKeepsInv ==
  ASSUME GroupInv, NEW n \in 0..Max, SetTarget(n)
  PROVE  GroupInv'
  <1>1. UNCHANGED <<stopped, cutoff, gate, token, counters, mine, read, owners, stopper>>
    BY DEF SetTarget
  <1>2. FlagsOK'
    BY <1>1 DEF GroupInv, FlagsOK, cutoff, owners
  <1>3. stopper = "off"
    BY DEF GroupInv, StopOK, SetTarget
  <1>4. StopOK'
    BY <1>1, <1>3 DEF StopOK
  <1>5. slots \in SUBSET Worker /\ IsFiniteSet(slots) /\ Cardinality(slots) \in Nat
    <2>1. slots \in SUBSET Worker
      BY GroupConstants DEF GroupInv, IdsOK, Spawned, Worker
    <2> QED
      BY <2>1, WorkersFinite
  <1>6. CASE Raise(n)
    <2> DEFINE fresh == nextID..(nextID + n - Cardinality(slots) - 1)
    <2>1. /\ n > Cardinality(slots) /\ fresh \subseteq Worker
          /\ nextID' = nextID + n - Cardinality(slots)
          /\ slots' = slots \cup fresh
          /\ pc' = [w \in Worker |-> IF w \in fresh THEN "spawned" ELSE pc[w]]
          /\ UNCHANGED <<retiring, cancelled>>
      BY <1>6 DEF Raise
    <2>2. nextID \in Nat /\ nextID' \in Nat /\ nextID + n - Cardinality(slots) - 1 \in fresh
      BY <1>5, <2>1, GroupConstants DEF GroupInv, IdsOK
    <2>3. nextID' \in 0..MaxSpawned
      BY <1>5, <2>1, <2>2, GroupConstants DEF Worker
    <2>4. IsFiniteSet(fresh) /\ Cardinality(fresh) = n - Cardinality(slots)
      <3>1. PICK last \in Int : last = nextID + n - Cardinality(slots) - 1
        BY <1>5, <2>1, <2>2
      <3>2. nextID \in Int /\ ~(nextID > last) /\ last - nextID + 1 = n - Cardinality(slots)
        BY <1>5, <2>1, <2>2, <3>1
      <3>3. IsFiniteSet(nextID..last) /\ Cardinality(nextID..last) = last - nextID + 1
        BY <3>2, FS_Interval
      <3> QED
        BY <3>1, <3>2, <3>3
    <2>5. slots \cap fresh = {}
      BY <1>5, <2>2 DEF GroupInv, IdsOK, Spawned
    <2>6. Cardinality(slots') = n
      <3>1. Cardinality(slots \cup fresh) =
              Cardinality(slots) + Cardinality(fresh) - Cardinality(slots \cap fresh)
        BY <1>5, <2>4, FS_Union
      <3>2. Cardinality(slots \cap fresh) = 0
        BY <2>5, FS_EmptySet
      <3>3. Cardinality(slots \cup fresh) = n
        BY <1>5, <2>4, <3>1, <3>2
      <3> QED
        BY <2>1, <3>3, Zenon
    <2>7. Spawned' = Spawned \cup fresh
      BY <1>5, <2>1, <2>2 DEF Spawned
    <2>8. IdsOK'
      BY <2>1, <2>3, <2>6, <2>7, GroupConstants DEF GroupInv, IdsOK, Points
    <2>9. \A w \in fresh : pc[w] = "off"
      BY <2>1, <2>2 DEF GroupInv, IdsOK, Spawned
    <2>10. At(ActivePoints)' = At(ActivePoints) /\ At(BegunPoints)' = At(BegunPoints)
           /\ At(PeakPoints)' = At(PeakPoints)
      BY <2>1, <2>9 DEF At, ActivePoints, BegunPoints, PeakPoints
    <2>11. CountersOK' /\ PeakOK'
      <3>1. \A w \in Worker : pc'[w] = "swap" => pc[w] = "swap"
        BY <2>1
      <3> QED
        BY <1>1, <2>10, <3>1 DEF GroupInv, CountersOK, PeakOK, counters
    <2> QED
      BY <1>2, <1>4, <2>8, <2>11 DEF GroupInv
  <1>7. CASE Lower(n)
    <2>1. PICK leaving : /\ leaving \subseteq slots
                         /\ retiring' = retiring \cup leaving
                         /\ cancelled' = cancelled \cup leaving
                         /\ slots' = slots \ leaving
                         /\ UNCHANGED <<nextID, pc>>
      BY <1>7, NewestOfThem DEF Lower
    <2>2. Cardinality(slots') <= Cardinality(slots) /\ Cardinality(slots') \in Nat
      BY <1>5, <2>1, FS_Subset, FS_CardinalityType
    <2>3. IdsOK'
      BY <1>5, <2>1, <2>2, GroupConstants DEF GroupInv, IdsOK, Spawned
    <2>4. CountersOK' /\ PeakOK'
      BY <1>1, <2>1 DEF GroupInv, CountersOK, PeakOK, counters, At
    <2> QED
      BY <1>2, <1>4, <2>3, <2>4 DEF GroupInv
  <1> QED
    BY <1>6, <1>7 DEF SetTarget

\* How the steps of a worker move it, and what they leave alone.
LEMMA WorkerSteps ==
  ASSUME GroupInv, NEW w \in Worker, Proceed(w) \/ EndOperation(w)
  PROVE  /\ UNCHANGED <<nextID, slots, stopped, cancelled, owners, stopper, gate>>
         /\ \E to \in Points : pc' = [pc EXCEPT ![w] = to]
         /\ pc[w] \notin {"off", "done"}
         /\ pc'[w] # "off"
  BY DEF GroupInv, IdsOK, Proceed, EndOperation, CountActive, CountStarted, LoadPeak,
    SwapPeak, Notify, PassGate, CheckLoop, StartOperation, LeaveGroup, Retire, CallHook,
    Step, Goto, Points, ActivePoints, BegunPoints, locked

\* A worker closes the group at most: it moves neither the deadline nor the owner.
LEMMA WorkerFlags ==
  ASSUME GroupInv, NEW w \in Worker, Proceed(w) \/ EndOperation(w)
  PROVE  FlagsOK'
  <1>1. UNCHANGED <<stopped, owners, gate, deadline, timer>>
    BY DEF Proceed, EndOperation, CountActive, CountStarted, LoadPeak,
      SwapPeak, Notify, PassGate, CheckLoop, StartOperation, LeaveGroup, Retire, CallHook,
      Step, Goto, locked, cutoff
  <1>2. {closed, groupDone, token}' \subseteq BOOLEAN
    BY Zenon DEF GroupInv, FlagsOK, Proceed, EndOperation, CountActive, CountStarted,
      LoadPeak, SwapPeak, Notify, PassGate, CheckLoop, StartOperation, LeaveGroup, Retire,
      CallHook, Step, CloseInjection, cutoff
  <1>3. {stopped, groupDone, closed, timer, gate, token}' \subseteq BOOLEAN
    BY <1>1, <1>2, Zenon DEF GroupInv, FlagsOK
  <1>4. /\ deadline' \in {"none", "ahead", "past"}
        /\ owner' \in {"free", "check", "blocked"}
        /\ wanted' \in 0..Max
    BY <1>1 DEF GroupInv, FlagsOK, owners
  <1> QED
    BY <1>3, <1>4 DEF FlagsOK

\* A worker neither starts nor frees another, and none is woken once it is done.
LEMMA WorkerIds ==
  ASSUME GroupInv, NEW w \in Worker, Proceed(w) \/ EndOperation(w)
  PROVE  IdsOK' /\ StopOK'
  <1>1. /\ UNCHANGED <<nextID, slots, stopped, cancelled, stopper>>
        /\ pc[w] \notin {"off", "done"} /\ pc'[w] # "off"
    BY WorkerSteps
  <1>2. PICK to \in Points : pc' = [pc EXCEPT ![w] = to]
    BY WorkerSteps
  <1>3. retiring' \subseteq retiring
    BY DEF Proceed, EndOperation, CountActive, CountStarted, LoadPeak,
      SwapPeak, Notify, PassGate, CheckLoop, StartOperation, LeaveGroup, Retire, CallHook,
      Step, locked
  <1>4. IdsOK'
    BY <1>1, <1>2, <1>3 DEF GroupInv, IdsOK, Spawned
  <1>5. StopOK'
    BY <1>1, <1>2 DEF GroupInv, StopOK, IdsOK, Spawned
  <1> QED
    BY <1>4, <1>5

\* A worker that counts itself in or out moves between points accordingly.
LEMMA WorkerCounters ==
  ASSUME GroupInv, NEW w \in Worker, Proceed(w) \/ EndOperation(w)
  PROVE  CountersOK'
  <1>1. PICK to \in Points : pc' = [pc EXCEPT ![w] = to]
    BY WorkerSteps
  <1>2. pc'[w] = to
    BY <1>1 DEF GroupInv, IdsOK
  <1>3. Cardinality(At(ActivePoints)) \in Nat /\ Cardinality(At(BegunPoints)) \in Nat
    <2>1. At(ActivePoints) \in SUBSET Worker /\ At(BegunPoints) \in SUBSET Worker
      BY DEF At
    <2> QED
      BY <2>1, WorkersFinite, GroupConstants
  <1> DEFINE change(points) == IF to \in points /\ pc[w] \notin points THEN 1
                               ELSE IF to \notin points /\ pc[w] \in points THEN 0 - 1 ELSE 0
  <1>4. active' = active + change(ActivePoints) /\ started' = started + change(BegunPoints)
    <2>1. active \in Nat /\ started \in Nat
      BY <1>3 DEF GroupInv, CountersOK
    <2>2. CASE CountActive(w) \/ CountStarted(w) \/ LeaveGroup(w)
      <3>1. \/ /\ pc[w] = "spawned" /\ to = "counted"
               /\ active' = active + 1 /\ started' = started
            \/ /\ pc[w] = "counted" /\ to = "started"
               /\ active' = active /\ started' = started + 1
            \/ /\ pc[w] = "leave" /\ to = "retire"
               /\ active' = active - 1 /\ started' = started
        BY <1>2, <2>2 DEF GroupInv, IdsOK, CountActive, CountStarted, LeaveGroup, Goto
      <3> QED
        BY <2>1, <3>1 DEF ActivePoints, BegunPoints
    <2>3. CASE ~(CountActive(w) \/ CountStarted(w) \/ LeaveGroup(w))
      <3>1. UNCHANGED <<active, started>>
        BY <2>3 DEF Proceed, EndOperation, LoadPeak, SwapPeak, Notify, PassGate,
          CheckLoop,
          StartOperation, Retire, CallHook, Step, counters
      <3>2. /\ to \in ActivePoints <=> pc[w] \in ActivePoints
            /\ to \in BegunPoints <=> pc[w] \in BegunPoints
        BY <1>2, <2>3 DEF GroupInv, IdsOK, Proceed, EndOperation, LoadPeak, SwapPeak,
          Notify,
          PassGate, CheckLoop, StartOperation, Retire, CallHook, Step, Goto, ActivePoints,
          BegunPoints
      <3> QED
        BY <2>1, <3>1, <3>2
    <2> QED
      BY <2>2, <2>3
  <1>5. /\ Cardinality(At(ActivePoints)') = Cardinality(At(ActivePoints)) + change(ActivePoints)
        /\ Cardinality(At(BegunPoints)') = Cardinality(At(BegunPoints)) + change(BegunPoints)
    BY <1>1, CountAfter DEF GroupInv
  <1>6. /\ Cardinality(At(ActivePoints)') = active'
        /\ Cardinality(At(BegunPoints)') = started'
    BY <1>4, <1>5 DEF GroupInv, CountersOK
  <1> QED
    BY <1>6 DEF CountersOK

\* No update of the peak is lost: a worker that swaps stores a higher value, and
\* one that leaves updatePeakActive has seen a peak as high as its own count.
LEMMA WorkerPeak ==
  ASSUME GroupInv, CountersOK', NEW w \in Worker, Proceed(w) \/ EndOperation(w)
  PROVE  PeakOK'
  <1>1. PICK to \in Points : pc' = [pc EXCEPT ![w] = to]
    BY WorkerSteps
  <1>2. /\ pc'[w] = to
        /\ \A v \in Worker \ {w} : pc'[v] = pc[v]
    BY <1>1 DEF GroupInv, IdsOK
  <1>3. active \in 0..MaxSpawned /\ active' \in 0..MaxSpawned
    <2>1. At(ActivePoints) \in SUBSET Worker /\ At(ActivePoints)' \in SUBSET Worker
      BY DEF At
    <2> QED
      BY <2>1, WorkersFinite DEF GroupInv, CountersOK
  <1>4. PeakOK
    BY DEF GroupInv
  <1> USE DEF PeakPoints, At
  <1>5. CASE CountActive(w)
    <2>0. pc[w] = "spawned" /\ to = "counted"
      BY <1>2, <1>5 DEF GroupInv, IdsOK, CountActive, Goto
    <2>1. /\ pc[w] = "spawned" /\ to = "counted" /\ active' = active + 1
          /\ highest' = IF active' > highest THEN active' ELSE highest
          /\ mine' = [mine EXCEPT ![w] = active']
          /\ UNCHANGED <<peak, read>>
      BY <1>5, <2>0 DEF CountActive
    <2>2. /\ highest' \in 0..MaxSpawned /\ highest <= highest' /\ active' <= highest'
      BY <1>3, <1>4, <2>1, GroupConstants DEF PeakOK
    <2>3. /\ mine' \in [Worker -> 0..highest'] /\ mine'[w] = active'
          /\ \A v \in Worker \ {w} : mine'[v] = mine[v]
      BY <1>3, <1>4, <2>1, <2>2, GroupConstants DEF PeakOK
    <2>4. highest' = peak \/ \E v \in At(PeakPoints)' : mine'[v] = highest'
      <3>1. CASE active' > highest
        BY <1>2, <2>1, <2>3, <3>1
      <3>2. CASE ~(active' > highest)
        BY <1>2, <1>4, <2>1, <2>3, <3>2 DEF PeakOK
      <3> QED
        BY <3>1, <3>2
    <2>5. peak \in 0..highest'
      BY <1>4, <2>2, GroupConstants DEF PeakOK
    <2>6. \A v \in Worker : pc'[v] = "swap" => mine'[v] > read[v]
      BY <1>2, <1>4, <2>1, <2>3 DEF PeakOK
    <2> QED
      BY <1>4, <2>1, <2>2, <2>3, <2>4, <2>5, <2>6 DEF PeakOK
  <1>6. CASE LoadPeak(w)
    <2>1. /\ pc[w] = "started" /\ UNCHANGED <<peak, mine, highest, active>>
          /\ \/ mine[w] <= peak /\ to = "notify" /\ read' = read
             \/ mine[w] > peak /\ to = "swap" /\ read' = [read EXCEPT ![w] = peak]
      BY <1>2, <1>6 DEF GroupInv, IdsOK, LoadPeak, Goto, counters
    <2>2. read' \in [Worker -> 0..MaxSpawned]
      BY <1>4, <2>1, GroupConstants DEF PeakOK
    <2>3. \A v \in Worker : pc'[v] = "swap" => mine[v] > read'[v]
      BY <1>2, <1>4, <2>1 DEF PeakOK
    <2>4. highest = peak \/ \E v \in At(PeakPoints)' : mine[v] = highest
      BY <1>2, <1>4, <2>1, GroupConstants DEF PeakOK
    <2> QED
      BY <1>4, <2>1, <2>2, <2>3, <2>4 DEF PeakOK
  <1>7. CASE SwapPeak(w)
    <2>1. /\ pc[w] = "swap" /\ UNCHANGED <<mine, highest, active>>
          /\ read' = [read EXCEPT ![w] = 0]
          /\ \/ peak = read[w] /\ peak' = mine[w] /\ to = "notify"
             \/ peak' = peak /\ to = "started"
      BY <1>2, <1>7 DEF GroupInv, IdsOK, SwapPeak, Goto
    <2>2. read' \in [Worker -> 0..MaxSpawned]
      BY <1>4, <2>1, GroupConstants DEF PeakOK
    <2>3. \A v \in Worker : pc'[v] = "swap" => mine[v] > read'[v]
      BY <1>2, <1>4, <2>1 DEF PeakOK
    <2>4. peak' \in 0..highest
      BY <1>4, <2>1 DEF PeakOK
    <2>5. mine[w] > read[w] /\ mine[w] <= highest
      BY <1>4, <2>1, GroupConstants DEF PeakOK
    <2>6. highest = peak' \/ \E v \in At(PeakPoints)' : mine[v] = highest
      BY <1>2, <1>4, <2>1, <2>5, GroupConstants DEF PeakOK
    <2> QED
      BY <1>4, <2>1, <2>2, <2>3, <2>4, <2>6 DEF PeakOK
  <1>8. CASE Notify(w)
    <2>1. /\ pc[w] = "notify" /\ to = "gate" /\ UNCHANGED <<peak, highest, active, read>>
          /\ mine' = [mine EXCEPT ![w] = 0]
      BY <1>2, <1>8 DEF GroupInv, IdsOK, Notify, Goto, counters
    <2>2. /\ mine' \in [Worker -> 0..highest]
          /\ \A v \in Worker \ {w} : mine'[v] = mine[v]
      BY <1>4, <2>1, GroupConstants DEF PeakOK
    <2>3. highest = peak \/ \E v \in At(PeakPoints)' : mine'[v] = highest
      BY <1>2, <1>4, <2>1, <2>2 DEF PeakOK
    <2>4. \A v \in Worker : pc'[v] = "swap" => mine'[v] > read[v]
      BY <1>2, <1>4, <2>1, <2>2 DEF PeakOK
    <2> QED
      BY <1>4, <2>1, <2>2, <2>3, <2>4 DEF PeakOK
  <1>9. CASE ~(CountActive(w) \/ LoadPeak(w) \/ SwapPeak(w) \/ Notify(w))
    <2>0. /\ UNCHANGED <<peak, highest, mine, read>>
          /\ active' = active \/ active' = active - 1
      BY <1>9 DEF Proceed, EndOperation, CountStarted, PassGate, CheckLoop,
        StartOperation, LeaveGroup, Retire, CallHook, Step, counters
    <2>1. \/ pc[w] = "counted" /\ to = "started"
          \/ pc[w] \notin PeakPoints /\ to \notin PeakPoints
      BY <1>2, <1>9 DEF GroupInv, IdsOK, Proceed, EndOperation, CountStarted, PassGate,
        CheckLoop, StartOperation, LeaveGroup, Retire, CallHook, Step, Goto
    <2>2. active' <= highest
      BY <1>3, <1>4, <2>0, <2>1, GroupConstants DEF PeakOK
    <2>3. highest = peak \/ \E v \in At(PeakPoints)' : mine[v] = highest
      BY <1>2, <1>4, <2>0, <2>1 DEF PeakOK
    <2>4. \A v \in Worker : pc'[v] = "swap" => mine[v] > read[v]
      BY <1>2, <1>4, <2>0, <2>1 DEF PeakOK
    <2> QED
      BY <1>4, <2>0, <2>1, <2>2, <2>3, <2>4 DEF PeakOK
  <1> QED
    BY <1>5, <1>6, <1>7, <1>8, <1>9

\* Every step of the owner, of time, of a worker or of Stop keeps the invariant.
LEMMA GroupInvNext ==
  ASSUME GroupInv, [Next]_vars
  PROVE  GroupInv'
  <1>1. ASSUME NEW w \in Worker, Proceed(w) \/ EndOperation(w)
        PROVE  GroupInv'
    <2>1. FlagsOK'
      BY <1>1, WorkerFlags
    <2>2. IdsOK' /\ StopOK'
      BY <1>1, WorkerIds
    <2>3. CountersOK'
      BY <1>1, WorkerCounters
    <2>4. PeakOK'
      BY <1>1, <2>3, WorkerPeak
    <2> QED
      BY <2>1, <2>2, <2>3, <2>4 DEF GroupInv
  <1>2. CASE Next
    BY <1>1, <1>2, OwnerKeepsInv, StopKeepsInv, SetTargetKeepsInv DEF Next
  <1>3. CASE UNCHANGED vars
    <2>1. UNCHANGED <<nextID, slots, retiring, stopped, cancelled, groupDone, closed,
                      deadline, timer, gate, token, active, started, peak, highest, pc,
                      mine, read, owner, wanted, stopper>>
      BY <1>3 DEF vars, locked, cutoff, counters, workers, owners
    <2>2. IdsOK' /\ CountersOK' /\ PeakOK' /\ StopOK'
      BY <2>1 DEF GroupInv, IdsOK, CountersOK, PeakOK, StopOK, At, Spawned
    <2>3. FlagsOK'
      BY <2>1, Zenon DEF GroupInv, FlagsOK
    <2> QED
      BY <2>2, <2>3 DEF GroupInv
  <1> QED
    BY <1>2, <1>3

\* The counters of a group of any size stay within its bounds, whatever its
\* owner, its workers and Stop do at the same time; the peak that
\* verifyFixedWorkerResult relies on is the highest number of workers that were
\* ever active at once; and after a Stop that returned nil no worker is left.
THEOREM WorkersAreSafe == Spec => []WorkersSafe
  <1>1. GroupInv => WorkersSafe
    <2> SUFFICES ASSUME GroupInv PROVE WorkersSafe
      OBVIOUS
    <2>1. active \in 0..MaxSpawned /\ started \in 0..MaxSpawned
      <3>1. At(ActivePoints) \in SUBSET Worker /\ At(BegunPoints) \in SUBSET Worker
        BY DEF At
      <3> QED
        BY <3>1, WorkersFinite DEF GroupInv, CountersOK
    <2>2. TypeOK
      <3>1. {stopped, groupDone, closed, timer, gate, token} \subseteq BOOLEAN
        BY DEF GroupInv, FlagsOK
      <3>2. {active, started, peak, highest} \subseteq 0..MaxSpawned
        BY <2>1, GroupConstants DEF GroupInv, PeakOK
      <3>3. mine \in [Worker -> 0..MaxSpawned]
        BY GroupConstants DEF GroupInv, PeakOK
      <3>4. pc \in [Worker -> {"off", "spawned", "counted", "started", "swap", "notify",
                               "gate", "loop", "cleared", "work", "leave", "retire",
                               "hook", "done"}]
        BY DEF GroupInv, IdsOK, Points, ActivePoints, BegunPoints
      <3> QED
        BY <3>1, <3>2, <3>3, <3>4 DEF GroupInv, FlagsOK, IdsOK, PeakOK, StopOK, TypeOK
    <2>3. PeakIsExact
      BY DEF GroupInv, PeakOK, At, PeakPoints, PeakIsExact
    <2>4. StoppedForGood
      <3>1. stopper = "returned" => At(ActivePoints) = {}
        BY DEF GroupInv, StopOK, IdsOK, At, ActivePoints
      <3> QED
        BY <3>1, FS_EmptySet DEF GroupInv, StopOK, CountersOK, StoppedForGood
    <2> QED
      BY <2>2, <2>3, <2>4 DEF WorkersSafe
  <1> QED
    BY <1>1, GroupInvInit, GroupInvNext, PTL DEF Spec

\* A worker that SetTarget retired while it lived leaves on no other way than
\* through the retire hook, which closes its session.
THEOREM RetiredGoThroughHook ==
  Spec => [][\A w \in retiring : w \notin retiring' => pc'[w] = "hook"]_vars
  <1>1. GroupInv /\ [Next]_vars
        => [\A w \in retiring : w \notin retiring' => pc'[w] = "hook"]_vars
    <2> SUFFICES ASSUME GroupInv, Next, NEW v \in retiring, v \notin retiring'
                 PROVE  pc'[v] = "hook"
      OBVIOUS
    <2>1. PICK w \in Worker : Retire(w)
      BY DEF Next, SetTarget, Raise, Lower, WaitReady, WaitReadyChecks, WaitReadyWakes,
        WaitReadyFails, OwnerGoes, SetRunDeadline, OpenGate, DeadlinePasses, TimerFires,
        ParentCancels, Stop, StopMarks, StopCloses, StopReturns, Proceed, EndOperation,
        CountActive, CountStarted, LoadPeak, SwapPeak, Notify, PassGate, CheckLoop,
        StartOperation, LeaveGroup, CallHook, Step, locked
    <2>2. v = w
      BY <2>1 DEF Retire
    <2> QED
      BY <2>1, <2>2 DEF Retire, Goto, GroupInv, IdsOK
  <1> QED
    BY <1>1, GroupInvInit, GroupInvNext, PTL DEF Spec

=============================================================================
