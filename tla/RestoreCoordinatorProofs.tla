---------------------- MODULE RestoreCoordinatorProofs ----------------------
(* Theorems about RestoreCoordinator, for any actions, runs and failures.     *)
EXTENDS RestoreCoordinator, TLAPS

-----------------------------------------------------------------------------
(* The inductive invariant.                                                   *)

\* Where an action is in hand, and where a plan is worked through.
InHandPoint == {"preflight", "claim_db", "claim_ledger", "precheck", "inverse",
                "verify_action", "set_db", "set_ledger"}
WorkPoint == InHandPoint \cup {"request", "pick", "repair", "reconcile"}

\* How the list was entered says where it leads to.
ModesOfPoints ==
  /\ pc \in {"pick", "preflight", "claim_db", "claim_ledger", "precheck", "inverse",
             "verify_action"} => mode \in {"online", "reconnect", "fail"}
  /\ pc \in {"request", "repair"} => mode = "online"
  /\ pc = "reconcile" => mode = "reconcile"
  /\ mode = "reconcile" => pc \in {"reconcile", "set_db", "set_ledger"}
  /\ mode = "unmark" => pc = "mark"

\* A target that nothing was recorded about was never touched.
UnrecordedIsClean ==
  \A a \in Action : db[a] = "none" /\ ledger[a] = "none" => target[a] = "clean"

\* What the plan knows of an action: which mirrors have it, that the ledger is one
\* of them unless it never had it, and that its run is not called successful.
Known(a) ==
  /\ source[a] # {}
  /\ source[a] = {"db"} => ledger[a] = "none"
  /\ "ledger" \in source[a] => a \notin Sql
  /\ row[RunOf[a]] # "success"

PlanSound ==
  pc \in WorkPoint =>
    /\ todo \subseteq Action
    /\ \A a \in todo : Known(a)
    /\ pc \in InHandPoint => cur \in Action /\ Known(cur)
    /\ mode \in {"online", "reconcile"} => \A a \in Planned : Known(a)

\* The claim of the action in hand is in a mirror, or another host has restored it.
Recorded == "restoring" \in {db[cur], ledger[cur]} \/ db[cur] = "restored"

ClaimRecorded ==
  /\ pc = "claim_ledger" /\ "ledger" \notin source[cur] =>
       db[cur] \in {"restoring", "restored"}
  /\ pc \in {"precheck", "inverse"} => Recorded

\* "restored" is written only of a clean target, and no write removes a record.
OutcomeSound ==
  pc \in {"set_db", "set_ledger"} =>
    /\ want \in {"restored", "restore_failed"}
    /\ want = "restored" => target[cur] = "clean"

\* Nothing of a run comes to be pending again after it was verified.
MarksVerified ==
  pc = "mark" => todo \subseteq cover /\ (~errs => Verified)

CoordinatorInv ==
  /\ TypeOK
  /\ ModesOfPoints
  /\ RestoredIsClean
  /\ UnrecordedIsClean
  /\ PlanSound
  /\ TombstoneIsFinal
  /\ ClaimRecorded
  /\ OutcomeSound
  /\ MarksVerified
  /\ SuccessIsComplete

\* The list of an offline restore: what the ledger calls pending.
LEMMA OfflineList ==
  ASSUME CoordinatorInv, DatabaseUnreachable \/ DiscoveryUnreachable
  PROVE  /\ scope' \subseteq Run /\ cover' \subseteq Run
         /\ source' \in [Action -> SUBSET {"db", "ledger"}]
         /\ asked' \in [Action -> State \cup {"none"}]
         /\ todo' \subseteq Action \cup Run
         /\ PlanSound'
  <1>a. TypeOK /\ SuccessIsComplete
    BY DEF CoordinatorInv
  <1>1. /\ scope' = scope /\ cover' = cover /\ asked' = asked
        /\ row' = row /\ ledger' = ledger
        /\ mode' \in {"reconnect", "fail"} /\ pc' = "pick"
        /\ todo' = {a \in Control : Open(ledger[a])}
        /\ source' = [a \in Action |-> {"ledger"}]
    BY DEF DatabaseUnreachable, DiscoveryUnreachable, Offline, GoesTo, mirrors
  <1>2. todo' \subseteq Action
    BY <1>1 DEF Action
  <1>3. \A a \in todo' : a \notin Sql /\ row[RunOf[a]] # "success"
    BY <1>a, <1>1, <1>2 DEF TypeOK, SuccessIsComplete, Open
  <1>4. \A a \in Action : source'[a] = {"ledger"}
    BY <1>1
  <1>5. source' \in [Action -> SUBSET {"db", "ledger"}]
    <2>1. {"ledger"} \in SUBSET {"db", "ledger"}
      OBVIOUS
    <2> QED
      BY <1>1, <2>1
  <1>6. \A a \in todo' : Known(a)'
    <2> SUFFICES ASSUME NEW a \in todo'
                 PROVE  Known(a)'
      OBVIOUS
    <2>1. source'[a] = {"ledger"} /\ row'[RunOf[a]] # "success" /\ a \notin Sql
      BY <1>1, <1>2, <1>3, <1>4
    <2>2. source'[a] # {} /\ source'[a] # {"db"}
      BY <2>1
    <2> QED
      BY <2>1, <2>2 DEF Known
  <1>7. PlanSound'
    BY <1>1, <1>2, <1>6 DEF PlanSound, InHandPoint
  <1> QED
    BY <1>a, <1>1, <1>2, <1>5, <1>7 DEF TypeOK

\* The session of the coordinator: locks, crashes, outages, its end.
LEMMA SessionsKeepInv ==
  ASSUME CoordinatorInv,
         Finish \/ Crash \/ BeginAll \/ (\E r \in Run : Begin({r})) \/ AcquireRestoreLock
           \/ LockRefused \/ DatabaseUnreachable \/ DatabaseAnswers \/ LoseLock
  PROVE  CoordinatorInv'
  <1> USE CoordinatorConstants
  <1>a. /\ TypeOK /\ ModesOfPoints /\ RestoredIsClean /\ UnrecordedIsClean
        /\ PlanSound /\ TombstoneIsFinal /\ ClaimRecorded /\ OutcomeSound
        /\ MarksVerified /\ SuccessIsComplete
    BY DEF CoordinatorInv
  <1>1. TypeOK'
    <2>1. /\ target' \in [Action -> {"faulty", "clean"}]
          /\ db' \in [Action -> State \cup {"none"}]
          /\ ledger' \in [Action -> State \cup {"none"}]
      BY <1>a
      DEF TypeOK, mirrors, Finish, Crash, BeginAll, Begin, AcquireRestoreLock,
          LockRefused, DatabaseUnreachable, DatabaseAnswers, LoseLock, Offline
    <2>2. \A a \in Sql : ledger'[a] = "none"
      BY <1>a
      DEF TypeOK, mirrors, Finish, Crash, BeginAll, Begin, AcquireRestoreLock,
          LockRefused, DatabaseUnreachable, DatabaseAnswers, LoseLock, Offline
    <2>3. /\ row' \in [Run -> {"running", "restore_requested", "success",
                               "restore_failed"}]
          /\ pc' \in Points
          /\ mode' \in {"online", "reconnect", "fail", "reconcile", "unmark"}
          /\ cur' \in Action \cup {0}
          /\ want' \in State \cup {"none"}
          /\ rival' \subseteq Action
          /\ faults' \in 0..MaxFaults
      <3>1. CASE Finish
        BY <3>1, <1>a
        DEF TypeOK, Points, Finish, Forget
      <3>2. CASE Crash
        BY <3>2, <1>a
        DEF TypeOK, Points, Crash, Forget, Fault
      <3>3. CASE BeginAll
        BY <3>3, <1>a
        DEF TypeOK, Points, work, outside, BeginAll, Begin, GoesTo
      <3>4. CASE \E r \in Run : Begin({r})
        BY <3>4, <1>a
        DEF TypeOK, Points, work, outside, Begin, GoesTo
      <3>5. CASE AcquireRestoreLock
        BY <3>5, <1>a
        DEF TypeOK, Points, work, AcquireRestoreLock, GoesTo
      <3>6. CASE LockRefused
        BY <3>6, <1>a
        DEF TypeOK, Points, work, outside, LockRefused, FaultUnless, NoFault, Fault,
            GoesTo
      <3>7. CASE DatabaseUnreachable
        BY <3>7, <1>a
        DEF TypeOK, Points, outside, DatabaseUnreachable, Offline, Fault, GoesTo
      <3>8. CASE DatabaseAnswers
        BY <3>8, <1>a
        DEF TypeOK, Points, work, outside, DatabaseAnswers, GoesTo
      <3>9. CASE LoseLock
        BY <3>9, <1>a
        DEF TypeOK, work, LoseLock, Fault
      <3> QED
        BY <3>1, <3>2, <3>3, <3>4, <3>5, <3>6, <3>7, <3>8, <3>9
    <2>4. /\ scope' \subseteq Run /\ cover' \subseteq Run
          /\ source' \in [Action -> SUBSET {"db", "ledger"}]
          /\ asked' \in [Action -> State \cup {"none"}]
          /\ todo' \subseteq Action \cup Run
      <3>1. CASE Finish
        BY <3>1, <1>a
        DEF Finish, Forget
      <3>2. CASE Crash
        BY <3>2, <1>a
        DEF Crash, Forget
      <3>3. CASE BeginAll
        BY <3>3, <1>a
        DEF TypeOK, work, BeginAll, Begin
      <3>4. CASE \E r \in Run : Begin({r})
        BY <3>4, <1>a
        DEF TypeOK, work, Begin
      <3>5. CASE AcquireRestoreLock
        BY <3>5, <1>a
        DEF TypeOK, plan, work, AcquireRestoreLock
      <3>6. CASE LockRefused
        BY <3>6, <1>a
        DEF TypeOK, plan, work, LockRefused
      <3>7. CASE DatabaseUnreachable
        BY <3>7, OfflineList
      <3>8. CASE DatabaseAnswers
        BY <3>8, <1>a
        DEF TypeOK, plan, work, DatabaseAnswers
      <3>9. CASE LoseLock
        BY <3>9, <1>a
        DEF TypeOK, plan, work, LoseLock
      <3> QED
        BY <3>1, <3>2, <3>3, <3>4, <3>5, <3>6, <3>7, <3>8, <3>9
    <2>5. {deferred, actionErrs, errs, exclusive}' \subseteq BOOLEAN
      BY <1>a, Zenon
      DEF TypeOK, work, report, outside, Finish, Crash, BeginAll, Begin,
          AcquireRestoreLock, LockRefused, DatabaseUnreachable, DatabaseAnswers,
          LoseLock, Forget, Offline
    <2> QED
      BY <2>1, <2>2, <2>3, <2>4, <2>5 DEF TypeOK
  <1>2. ModesOfPoints'
    BY <1>a
    DEF ModesOfPoints, Finish, Crash, BeginAll, Begin, AcquireRestoreLock,
        LockRefused, DatabaseUnreachable, DatabaseAnswers, LoseLock, Forget, Offline,
        GoesTo
  <1>3. RestoredIsClean'
    BY <1>a
    DEF RestoredIsClean, mirrors, Finish, Crash, BeginAll, Begin, AcquireRestoreLock,
        LockRefused, DatabaseUnreachable, DatabaseAnswers, LoseLock, Offline
  <1>4. UnrecordedIsClean'
    BY <1>a
    DEF UnrecordedIsClean, mirrors, Finish, Crash, BeginAll, Begin,
        AcquireRestoreLock, LockRefused, DatabaseUnreachable, DatabaseAnswers,
        LoseLock, Offline
  <1>5. PlanSound'
    <2>1. CASE Finish
      BY <2>1, <1>a
      DEF PlanSound, Planned, InHandPoint, Finish, Forget
    <2>2. CASE Crash
      BY <2>2, <1>a
      DEF PlanSound, Planned, InHandPoint, Crash, Forget
    <2>3. CASE BeginAll
      BY <2>3, <1>a
      DEF PlanSound, InHandPoint, WorkPoint, BeginAll, Begin, GoesTo
    <2>4. CASE \E r \in Run : Begin({r})
      BY <2>4, <1>a
      DEF PlanSound, InHandPoint, WorkPoint, Begin, GoesTo
    <2>5. CASE AcquireRestoreLock
      BY <2>5, <1>a
      DEF PlanSound, InHandPoint, WorkPoint, AcquireRestoreLock, GoesTo
    <2>6. CASE LockRefused
      BY <2>6, <1>a
      DEF PlanSound, InHandPoint, WorkPoint, LockRefused, GoesTo
    <2>7. CASE DatabaseUnreachable
      BY <2>7, OfflineList
    <2>8. CASE DatabaseAnswers
      BY <2>8, <1>a
      DEF PlanSound, InHandPoint, WorkPoint, DatabaseAnswers, GoesTo
    <2>9. CASE LoseLock
      BY <2>9, <1>a
      DEF PlanSound, Known, Planned, mirrors, plan, work, LoseLock
    <2> QED
      BY <2>1, <2>2, <2>3, <2>4, <2>5, <2>6, <2>7, <2>8, <2>9
  <1>6. TombstoneIsFinal'
    BY <1>a
    DEF TombstoneIsFinal, mirrors, work, Finish, Crash, BeginAll, Begin,
        AcquireRestoreLock, LockRefused, DatabaseUnreachable, DatabaseAnswers,
        LoseLock, Forget, Offline, GoesTo
  <1>7. ClaimRecorded'
    BY <1>a
    DEF ClaimRecorded, Recorded, mirrors, plan, work, Finish, Crash, BeginAll, Begin,
        AcquireRestoreLock, LockRefused, DatabaseUnreachable, DatabaseAnswers,
        LoseLock, Forget, Offline, GoesTo
  <1>8. OutcomeSound'
    BY <1>a
    DEF OutcomeSound, work, Finish, Crash, BeginAll, Begin, AcquireRestoreLock,
        LockRefused, DatabaseUnreachable, DatabaseAnswers, LoseLock, Forget, Offline,
        GoesTo
  <1>9. MarksVerified'
    BY <1>a
    DEF MarksVerified, Verified, DbPending, LedgerPending, mirrors, plan, work,
        report, Finish, Crash, BeginAll, Begin, AcquireRestoreLock, LockRefused,
        DatabaseUnreachable, DatabaseAnswers, LoseLock, Forget, Offline, GoesTo
  <1>10. SuccessIsComplete'
    BY <1>a
    DEF SuccessIsComplete, mirrors, Finish, Crash, BeginAll, Begin,
        AcquireRestoreLock, LockRefused, DatabaseUnreachable, DatabaseAnswers,
        LoseLock, Offline
  <1> QED
    BY <1>1, <1>2, <1>3, <1>4, <1>5, <1>6, <1>7, <1>8, <1>9, <1>10 DEF CoordinatorInv

\* Discovery, the plan and the requests.
LEMMA DiscoveryKeepInv ==
  ASSUME CoordinatorInv,
         DiscoverRestore \/ DiscoveryUnreachable \/ DiscoveryFails \/ RequestRestore
  PROVE  CoordinatorInv'
  <1> USE CoordinatorConstants
  <1>a. /\ TypeOK /\ ModesOfPoints /\ RestoredIsClean /\ UnrecordedIsClean
        /\ PlanSound /\ TombstoneIsFinal /\ ClaimRecorded /\ OutcomeSound
        /\ MarksVerified /\ SuccessIsComplete
    BY DEF CoordinatorInv
  <1>1. TypeOK'
    <2>1. /\ target' \in [Action -> {"faulty", "clean"}]
          /\ db' \in [Action -> State \cup {"none"}]
          /\ ledger' \in [Action -> State \cup {"none"}]
      BY <1>a
      DEF TypeOK, mirrors, DiscoverRestore, DiscoveryUnreachable, DiscoveryFails,
          RequestRestore, Tombstoned, Offline
    <2>2. \A a \in Sql : ledger'[a] = "none"
      BY <1>a
      DEF TypeOK, mirrors, DiscoverRestore, DiscoveryUnreachable, DiscoveryFails,
          RequestRestore, Offline
    <2>3. /\ row' \in [Run -> {"running", "restore_requested", "success",
                               "restore_failed"}]
          /\ pc' \in Points
          /\ mode' \in {"online", "reconnect", "fail", "reconcile", "unmark"}
          /\ cur' \in Action \cup {0}
          /\ want' \in State \cup {"none"}
          /\ rival' \subseteq Action
          /\ faults' \in 0..MaxFaults
      <3>1. CASE DiscoverRestore
        BY <3>1, <1>a
        DEF TypeOK, Points, outside, DiscoverRestore, GoesTo
      <3>2. CASE DiscoveryUnreachable
        BY <3>2, <1>a
        DEF TypeOK, Points, outside, DiscoveryUnreachable, Offline, Fault, GoesTo
      <3>3. CASE DiscoveryFails
        BY <3>3, <1>a
        DEF TypeOK, Points, work, outside, DiscoveryFails, Fault, GoesTo
      <3>4. CASE RequestRestore
        BY <3>4, <1>a
        DEF TypeOK, Points, work, outside, RequestRestore, NoFault, Fault, GoesTo
      <3> QED
        BY <3>1, <3>2, <3>3, <3>4
    <2>4. /\ scope' \subseteq Run /\ cover' \subseteq Run
          /\ source' \in [Action -> SUBSET {"db", "ledger"}]
          /\ asked' \in [Action -> State \cup {"none"}]
          /\ todo' \subseteq Action \cup Run
      <3>1. CASE DiscoverRestore
        BY <3>1, <1>a
        DEF TypeOK, DiscoverRestore, MakePlan, Tombstoned
      <3>2. CASE DiscoveryUnreachable
        BY <3>2, OfflineList
      <3>3. CASE DiscoveryFails
        BY <3>3, <1>a
        DEF TypeOK, plan, work, DiscoveryFails
      <3>4. CASE RequestRestore
        BY <3>4, <1>a
        DEF TypeOK, plan, work, RequestRestore
      <3> QED
        BY <3>1, <3>2, <3>3, <3>4
    <2>5. {deferred, actionErrs, errs, exclusive}' \subseteq BOOLEAN
      BY <1>a, Zenon
      DEF TypeOK, work, report, outside, DiscoverRestore, DiscoveryUnreachable,
          DiscoveryFails, RequestRestore, Offline
    <2> QED
      BY <2>1, <2>2, <2>3, <2>4, <2>5 DEF TypeOK
  <1>2. ModesOfPoints'
    BY <1>a
    DEF ModesOfPoints, DiscoverRestore, DiscoveryUnreachable, DiscoveryFails,
        RequestRestore, Offline, GoesTo
  <1>3. RestoredIsClean'
    BY <1>a
    DEF RestoredIsClean, mirrors, DiscoverRestore, DiscoveryUnreachable,
        DiscoveryFails, RequestRestore, Tombstoned, Offline
  <1>4. UnrecordedIsClean'
    BY <1>a
    DEF UnrecordedIsClean, mirrors, DiscoverRestore, DiscoveryUnreachable,
        DiscoveryFails, RequestRestore, Offline
  <1>5. PlanSound'
    <2>1. CASE DiscoverRestore
      BY <2>1, <1>a
      DEF PlanSound, Known, Planned, InHandPoint, SuccessIsComplete, Open, TypeOK,
          DiscoverRestore, MakePlan, Tombstoned, GoesTo
    <2>2. CASE DiscoveryUnreachable
      BY <2>2, OfflineList
    <2>3. CASE DiscoveryFails
      BY <2>3, <1>a
      DEF PlanSound, InHandPoint, WorkPoint, DiscoveryFails, GoesTo
    <2>4. CASE RequestRestore
      BY <2>4, <1>a
      DEF PlanSound, Known, Planned, InHandPoint, WorkPoint, mirrors, plan, work,
          RequestRestore, GoesTo
    <2> QED
      BY <2>1, <2>2, <2>3, <2>4
  <1>6. TombstoneIsFinal'
    BY <1>a
    DEF TombstoneIsFinal, DiscoverRestore, DiscoveryUnreachable, DiscoveryFails,
        RequestRestore, Offline, GoesTo
  <1>7. ClaimRecorded'
    BY <1>a
    DEF ClaimRecorded, DiscoverRestore, DiscoveryUnreachable, DiscoveryFails,
        RequestRestore, Offline, GoesTo
  <1>8. OutcomeSound'
    BY <1>a
    DEF OutcomeSound, DiscoverRestore, DiscoveryUnreachable, DiscoveryFails,
        RequestRestore, Offline, GoesTo
  <1>9. MarksVerified'
    BY <1>a
    DEF MarksVerified, DiscoverRestore, DiscoveryUnreachable, DiscoveryFails,
        RequestRestore, Offline, GoesTo
  <1>10. SuccessIsComplete'
    <2>1. CASE DiscoverRestore
      BY <2>1, <1>a
      DEF SuccessIsComplete, DiscoverRestore, Tombstoned
    <2>2. CASE DiscoveryUnreachable
      BY <2>2, <1>a
      DEF SuccessIsComplete, mirrors, DiscoveryUnreachable, Offline
    <2>3. CASE DiscoveryFails
      BY <2>3, <1>a
      DEF SuccessIsComplete, DiscoveryFails, Tombstoned
    <2>4. CASE RequestRestore
      BY <2>4, <1>a
      DEF SuccessIsComplete, mirrors, RequestRestore
    <2> QED
      BY <2>1, <2>2, <2>3, <2>4
  <1> QED
    BY <1>1, <1>2, <1>3, <1>4, <1>5, <1>6, <1>7, <1>8, <1>9, <1>10 DEF CoordinatorInv

\* The list, preflight and the claims in both mirrors.
LEMMA ClaimsKeepInv ==
  ASSUME CoordinatorInv,
         Pick \/ PickNone \/ Preflight \/ PreflightFails \/ ClaimDatabase \/ ClaimLost
         \/ ClaimDatabaseFails \/ ClaimLedger \/ ClaimLedgerFails
  PROVE  CoordinatorInv'
  <1> USE CoordinatorConstants
  <1>a. /\ TypeOK /\ ModesOfPoints /\ RestoredIsClean /\ UnrecordedIsClean
        /\ PlanSound /\ TombstoneIsFinal /\ ClaimRecorded /\ OutcomeSound
        /\ MarksVerified /\ SuccessIsComplete
    BY DEF CoordinatorInv
  <1>1. TypeOK'
    <2>1. /\ target' \in [Action -> {"faulty", "clean"}]
          /\ db' \in [Action -> State \cup {"none"}]
          /\ ledger' \in [Action -> State \cup {"none"}]
      BY <1>a
      DEF TypeOK, State, mirrors, Pick, PickNone, Preflight, PreflightFails,
          ClaimDatabase, ClaimLost, ClaimDatabaseFails, ClaimLedger, ClaimLedgerFails,
          GiveUp
    <2>2. \A a \in Sql : ledger'[a] = "none"
      BY <1>a
      DEF TypeOK, PlanSound, Known, WorkPoint, InHandPoint, Action, mirrors, Pick,
          PickNone, Preflight, PreflightFails, ClaimDatabase, ClaimLost,
          ClaimDatabaseFails, ClaimLedger, ClaimLedgerFails, GiveUp, Point
    <2>3. /\ row' \in [Run -> {"running", "restore_requested", "success",
                               "restore_failed"}]
          /\ pc' \in Points
          /\ mode' \in {"online", "reconnect", "fail", "reconcile", "unmark"}
          /\ cur' \in Action \cup {0}
          /\ want' \in State \cup {"none"}
          /\ rival' \subseteq Action
          /\ faults' \in 0..MaxFaults
      BY <1>a
      DEF TypeOK, Points, State, ModesOfPoints, PlanSound, WorkPoint, work, outside,
          Pick, PickNone, Preflight, PreflightFails, ClaimDatabase, ClaimLost,
          ClaimDatabaseFails, ClaimLedger, ClaimLedgerFails, GiveUp, Point, NoFault,
          Fault, GoesTo
    <2>4. /\ scope' \subseteq Run /\ cover' \subseteq Run
          /\ source' \in [Action -> SUBSET {"db", "ledger"}]
          /\ asked' \in [Action -> State \cup {"none"}]
          /\ todo' \subseteq Action \cup Run
      BY <1>a
      DEF TypeOK, plan, work, Pick, PickNone, Preflight, PreflightFails,
          ClaimDatabase, ClaimLost, ClaimDatabaseFails, ClaimLedger, ClaimLedgerFails,
          GiveUp, Point
    <2>5. {deferred, actionErrs, errs, exclusive}' \subseteq BOOLEAN
      BY <1>a, Zenon
      DEF TypeOK, work, report, outside, Pick, PickNone, Preflight, PreflightFails,
          ClaimDatabase, ClaimLost, ClaimDatabaseFails, ClaimLedger, ClaimLedgerFails,
          GiveUp, Point
    <2> QED
      BY <2>1, <2>2, <2>3, <2>4, <2>5 DEF TypeOK
  <1>2. ModesOfPoints'
    BY <1>a
    DEF ModesOfPoints, Pick, PickNone, Preflight, PreflightFails, ClaimDatabase,
        ClaimLost, ClaimDatabaseFails, ClaimLedger, ClaimLedgerFails, GiveUp, Point,
        GoesTo
  <1>3. RestoredIsClean'
    BY <1>a
    DEF RestoredIsClean, TypeOK, mirrors, Pick, PickNone, Preflight, PreflightFails,
        ClaimDatabase, ClaimLost, ClaimDatabaseFails, ClaimLedger, ClaimLedgerFails,
        GiveUp
  <1>4. UnrecordedIsClean'
    BY <1>a
    DEF UnrecordedIsClean, TypeOK, mirrors, Pick, PickNone, Preflight, PreflightFails,
        ClaimDatabase, ClaimLost, ClaimDatabaseFails, ClaimLedger, ClaimLedgerFails,
        GiveUp
  <1>5. PlanSound'
    BY <1>a
    DEF PlanSound, Known, Planned, InHandPoint, WorkPoint, ModesOfPoints, TypeOK,
        mirrors, plan, work, Pick, PickNone, Preflight, PreflightFails, ClaimDatabase,
        ClaimLost, ClaimDatabaseFails, ClaimLedger, ClaimLedgerFails, GiveUp, Point,
        GoesTo
  <1>6. TombstoneIsFinal'
    BY <1>a
    DEF TombstoneIsFinal, PlanSound, Known, InHandPoint, WorkPoint, ModesOfPoints,
        TypeOK, Pick, PickNone, Preflight, PreflightFails, ClaimDatabase, ClaimLost,
        ClaimDatabaseFails, ClaimLedger, ClaimLedgerFails, GiveUp, Point, GoesTo
  <1>7. ClaimRecorded'
    BY <1>a
    DEF ClaimRecorded, Recorded, PlanSound, Known, InHandPoint, WorkPoint,
        ModesOfPoints, TypeOK, plan, work, Pick, PickNone, Preflight, PreflightFails,
        ClaimDatabase, ClaimLost, ClaimDatabaseFails, ClaimLedger, ClaimLedgerFails,
        GiveUp, Point, GoesTo
  <1>8. OutcomeSound'
    BY <1>a
    DEF OutcomeSound, ModesOfPoints, Pick, PickNone, Preflight, PreflightFails,
        ClaimDatabase, ClaimLost, ClaimDatabaseFails, ClaimLedger, ClaimLedgerFails,
        GiveUp, Point, GoesTo
  <1>9. MarksVerified'
    BY <1>a
    DEF MarksVerified, ModesOfPoints, Pick, PickNone, Preflight, PreflightFails,
        ClaimDatabase, ClaimLost, ClaimDatabaseFails, ClaimLedger, ClaimLedgerFails,
        GiveUp, Point, GoesTo
  <1>10. SuccessIsComplete'
    BY <1>a
    DEF SuccessIsComplete, PlanSound, Known, InHandPoint, WorkPoint, TypeOK, mirrors,
        Pick, PickNone, Preflight, PreflightFails, ClaimDatabase, ClaimLost,
        ClaimDatabaseFails, ClaimLedger, ClaimLedgerFails, GiveUp, Point
  <1> QED
    BY <1>1, <1>2, <1>3, <1>4, <1>5, <1>6, <1>7, <1>8, <1>9, <1>10 DEF CoordinatorInv

\* The inverse and its verification.
LEMMA InversesKeepInv ==
  ASSUME CoordinatorInv,
         SkipInverse \/ DoNotSkip \/ RunInverse \/ InverseFails \/ VerifyAction
         \/ VerifyActionFails
  PROVE  CoordinatorInv'
  <1> USE CoordinatorConstants
  <1>a. /\ TypeOK /\ ModesOfPoints /\ RestoredIsClean /\ UnrecordedIsClean
        /\ PlanSound /\ TombstoneIsFinal /\ ClaimRecorded /\ OutcomeSound
        /\ MarksVerified /\ SuccessIsComplete
    BY DEF CoordinatorInv
  <1>1. TypeOK'
    <2>1. /\ target' \in [Action -> {"faulty", "clean"}]
          /\ db' \in [Action -> State \cup {"none"}]
          /\ ledger' \in [Action -> State \cup {"none"}]
      BY <1>a
      DEF TypeOK, mirrors, SkipInverse, DoNotSkip, RunInverse, InverseFails,
          VerifyAction, VerifyActionFails, GiveUp
    <2>2. \A a \in Sql : ledger'[a] = "none"
      BY <1>a
      DEF TypeOK, mirrors, SkipInverse, DoNotSkip, RunInverse, InverseFails,
          VerifyAction, VerifyActionFails, GiveUp
    <2>3. /\ row' \in [Run -> {"running", "restore_requested", "success",
                               "restore_failed"}]
          /\ pc' \in Points
          /\ mode' \in {"online", "reconnect", "fail", "reconcile", "unmark"}
          /\ cur' \in Action \cup {0}
          /\ want' \in State \cup {"none"}
          /\ rival' \subseteq Action
          /\ faults' \in 0..MaxFaults
      <3>1. CASE SkipInverse
        BY <3>1, <1>a
        DEF TypeOK, Points, State, outside, SkipInverse, Point, GoesTo
      <3>2. CASE DoNotSkip
        BY <3>2, <1>a
        DEF TypeOK, Points, work, outside, DoNotSkip, Point, FaultUnless, NoFault,
            Fault, GoesTo
      <3>3. CASE RunInverse
        BY <3>3, <1>a
        DEF TypeOK, Points, work, outside, RunInverse, Point, GoesTo
      <3>4. CASE InverseFails
        BY <3>4, <1>a
        DEF TypeOK, Points, State, outside, InverseFails, GiveUp, Point, FaultUnless,
            NoFault, Fault, GoesTo
      <3>5. CASE VerifyAction
        BY <3>5, <1>a
        DEF TypeOK, Points, State, outside, VerifyAction, Point, GoesTo
      <3>6. CASE VerifyActionFails
        BY <3>6, <1>a
        DEF TypeOK, Points, State, outside, VerifyActionFails, GiveUp, Point, Fault,
            GoesTo
      <3> QED
        BY <3>1, <3>2, <3>3, <3>4, <3>5, <3>6
    <2>4. /\ scope' \subseteq Run /\ cover' \subseteq Run
          /\ source' \in [Action -> SUBSET {"db", "ledger"}]
          /\ asked' \in [Action -> State \cup {"none"}]
          /\ todo' \subseteq Action \cup Run
      BY <1>a
      DEF TypeOK, plan, work, SkipInverse, DoNotSkip, RunInverse, InverseFails,
          VerifyAction, VerifyActionFails, GiveUp, Point
    <2>5. {deferred, actionErrs, errs, exclusive}' \subseteq BOOLEAN
      BY <1>a, Zenon
      DEF TypeOK, work, report, outside, SkipInverse, DoNotSkip, RunInverse,
          InverseFails, VerifyAction, VerifyActionFails, GiveUp, Point
    <2> QED
      BY <2>1, <2>2, <2>3, <2>4, <2>5 DEF TypeOK
  <1>2. ModesOfPoints'
    BY <1>a
    DEF ModesOfPoints, SkipInverse, DoNotSkip, RunInverse, InverseFails, VerifyAction,
        VerifyActionFails, GiveUp, Point, GoesTo
  <1>3. RestoredIsClean'
    BY <1>a
    DEF RestoredIsClean, TypeOK, mirrors, SkipInverse, DoNotSkip, RunInverse,
        InverseFails, VerifyAction, VerifyActionFails, GiveUp
  <1>4. UnrecordedIsClean'
    BY <1>a
    DEF UnrecordedIsClean, TypeOK, mirrors, SkipInverse, DoNotSkip, RunInverse,
        InverseFails, VerifyAction, VerifyActionFails, GiveUp
  <1>5. PlanSound'
    <2>1. CASE SkipInverse
      BY <2>1, <1>a
      DEF PlanSound, Known, Planned, InHandPoint, WorkPoint, mirrors, plan,
          SkipInverse, Point
    <2>2. CASE DoNotSkip
      BY <2>2, <1>a
      DEF PlanSound, Known, Planned, InHandPoint, WorkPoint, mirrors, plan, work,
          DoNotSkip, Point
    <2>3. CASE RunInverse
      BY <2>3, <1>a
      DEF PlanSound, Known, Planned, InHandPoint, WorkPoint, mirrors, plan, work,
          RunInverse, Point
    <2>4. CASE InverseFails
      BY <2>4, <1>a
      DEF PlanSound, Known, Planned, InHandPoint, WorkPoint, mirrors, plan,
          InverseFails, GiveUp, Point
    <2>5. CASE VerifyAction
      BY <2>5, <1>a
      DEF PlanSound, Known, Planned, InHandPoint, WorkPoint, mirrors, plan,
          VerifyAction, Point
    <2>6. CASE VerifyActionFails
      BY <2>6, <1>a
      DEF PlanSound, Known, Planned, InHandPoint, WorkPoint, mirrors, plan,
          VerifyActionFails, GiveUp, Point
    <2> QED
      BY <2>1, <2>2, <2>3, <2>4, <2>5, <2>6
  <1>6. TombstoneIsFinal'
    BY <1>a
    DEF TombstoneIsFinal, mirrors, work, SkipInverse, DoNotSkip, RunInverse,
        InverseFails, VerifyAction, VerifyActionFails, GiveUp, Point, GoesTo
  <1>7. ClaimRecorded'
    BY <1>a
    DEF ClaimRecorded, Recorded, mirrors, work, SkipInverse, DoNotSkip, RunInverse,
        InverseFails, VerifyAction, VerifyActionFails, GiveUp, Point, GoesTo
  <1>8. OutcomeSound'
    BY <1>a
    DEF OutcomeSound, SkipInverse, DoNotSkip, RunInverse, InverseFails, VerifyAction,
        VerifyActionFails, GiveUp, Point, GoesTo
  <1>9. MarksVerified'
    BY <1>a
    DEF MarksVerified, SkipInverse, DoNotSkip, RunInverse, InverseFails, VerifyAction,
        VerifyActionFails, GiveUp, Point, GoesTo
  <1>10. SuccessIsComplete'
    BY <1>a
    DEF SuccessIsComplete, LedgerPending, TypeOK, mirrors, SkipInverse, DoNotSkip,
        RunInverse, InverseFails, VerifyAction, VerifyActionFails, GiveUp, Point
  <1> QED
    BY <1>1, <1>2, <1>3, <1>4, <1>5, <1>6, <1>7, <1>8, <1>9, <1>10 DEF CoordinatorInv

\* The outcome, in both mirrors.
LEMMA OutcomesKeepInv ==
  ASSUME CoordinatorInv,
         SetDatabase \/ SetDatabaseFails \/ SetLedger \/ SetLedgerFails
  PROVE  CoordinatorInv'
  <1> USE CoordinatorConstants
  <1>a. /\ TypeOK /\ ModesOfPoints /\ RestoredIsClean /\ UnrecordedIsClean
        /\ PlanSound /\ TombstoneIsFinal /\ ClaimRecorded /\ OutcomeSound
        /\ MarksVerified /\ SuccessIsComplete
    BY DEF CoordinatorInv
  <1>1. TypeOK'
    <2>1. /\ target' \in [Action -> {"faulty", "clean"}]
          /\ db' \in [Action -> State \cup {"none"}]
          /\ ledger' \in [Action -> State \cup {"none"}]
      BY <1>a
      DEF TypeOK, SetDatabase, SetDatabaseFails, SetLedger, SetLedgerFails
    <2>2. \A a \in Sql : ledger'[a] = "none"
      BY <1>a
      DEF TypeOK, PlanSound, Known, WorkPoint, InHandPoint, Action, SetDatabase,
          SetDatabaseFails, SetLedger, SetLedgerFails, Point
    <2>3. /\ row' \in [Run -> {"running", "restore_requested", "success",
                               "restore_failed"}]
          /\ pc' \in Points
          /\ mode' \in {"online", "reconnect", "fail", "reconcile", "unmark"}
          /\ cur' \in Action \cup {0}
          /\ want' \in State \cup {"none"}
          /\ rival' \subseteq Action
          /\ faults' \in 0..MaxFaults
      <3>1. CASE SetDatabase
        BY <3>1, <1>a
        DEF TypeOK, Points, work, outside, SetDatabase, Point, GoesTo
      <3>2. CASE SetDatabaseFails
        BY <3>2, <1>a
        DEF TypeOK, Points, outside, SetDatabaseFails, Point, Fault, GoesTo
      <3>3. CASE SetLedger
        BY <3>3, <1>a
        DEF TypeOK, Points, outside, SetLedger, AfterState, Point, GoesTo
      <3>4. CASE SetLedgerFails
        BY <3>4, <1>a
        DEF TypeOK, Points, outside, SetLedgerFails, AfterState, Point, NoFault,
            Fault, GoesTo
      <3> QED
        BY <3>1, <3>2, <3>3, <3>4
    <2>4. /\ scope' \subseteq Run /\ cover' \subseteq Run
          /\ source' \in [Action -> SUBSET {"db", "ledger"}]
          /\ asked' \in [Action -> State \cup {"none"}]
          /\ todo' \subseteq Action \cup Run
      BY <1>a
      DEF TypeOK, plan, work, SetDatabase, SetDatabaseFails, SetLedger,
          SetLedgerFails, Point
    <2>5. {deferred, actionErrs, errs, exclusive}' \subseteq BOOLEAN
      BY <1>a, Zenon
      DEF TypeOK, work, report, outside, SetDatabase, SetDatabaseFails, SetLedger,
          SetLedgerFails, Failed, Point
    <2> QED
      BY <2>1, <2>2, <2>3, <2>4, <2>5 DEF TypeOK
  <1>2. ModesOfPoints'
    BY <1>a
    DEF ModesOfPoints, TypeOK, SetDatabase, SetDatabaseFails, SetLedger,
        SetLedgerFails, AfterState, Point, GoesTo
  <1>3. RestoredIsClean'
    BY <1>a
    DEF RestoredIsClean, OutcomeSound, TypeOK, SetDatabase, SetDatabaseFails,
        SetLedger, SetLedgerFails, Point
  <1>4. UnrecordedIsClean'
    BY <1>a
    DEF UnrecordedIsClean, OutcomeSound, TypeOK, SetDatabase, SetDatabaseFails,
        SetLedger, SetLedgerFails, Point
  <1>5. PlanSound'
    <2>1. CASE SetDatabase
      BY <2>1, <1>a
      DEF PlanSound, Known, Planned, InHandPoint, WorkPoint, plan, work, SetDatabase,
          Point
    <2>2. CASE SetDatabaseFails
      BY <2>2, <1>a
      DEF PlanSound, Known, Planned, InHandPoint, WorkPoint, plan, SetDatabaseFails,
          Point
    <2>3. CASE SetLedger
      BY <2>3, <1>a
      DEF PlanSound, Known, Planned, InHandPoint, WorkPoint, TypeOK, plan, SetLedger,
          Point
    <2>4. CASE SetLedgerFails
      BY <2>4, <1>a
      DEF PlanSound, Known, Planned, InHandPoint, WorkPoint, TypeOK, plan,
          SetLedgerFails, Point
    <2> QED
      BY <2>1, <2>2, <2>3, <2>4
  <1>6. TombstoneIsFinal'
    BY <1>a
    DEF TombstoneIsFinal, SetDatabase, SetDatabaseFails, SetLedger, SetLedgerFails,
        AfterState, Point, GoesTo
  <1>7. ClaimRecorded'
    BY <1>a
    DEF ClaimRecorded, SetDatabase, SetDatabaseFails, SetLedger, SetLedgerFails,
        AfterState, Point, GoesTo
  <1>8. OutcomeSound'
    BY <1>a
    DEF OutcomeSound, work, SetDatabase, SetDatabaseFails, SetLedger, SetLedgerFails,
        Point
  <1>9. MarksVerified'
    BY <1>a
    DEF MarksVerified, SetDatabase, SetDatabaseFails, SetLedger, SetLedgerFails,
        AfterState, Point, GoesTo
  <1>10. SuccessIsComplete'
    BY <1>a
    DEF SuccessIsComplete, PlanSound, Known, InHandPoint, WorkPoint, TypeOK,
        SetDatabase, SetDatabaseFails, SetLedger, SetLedgerFails, Point
  <1> QED
    BY <1>1, <1>2, <1>3, <1>4, <1>5, <1>6, <1>7, <1>8, <1>9, <1>10 DEF CoordinatorInv

\* Repair, reconciliation, verification and the outcomes of the runs.
LEMMA EndingsKeepInv ==
  ASSUME CoordinatorInv,
         RepairBaseline \/ Reconcile \/ Reconciled \/ VerifyRestore \/ MarkOutcome
         \/ MarksMade
  PROVE  CoordinatorInv'
  <1> USE CoordinatorConstants
  <1>a. /\ TypeOK /\ ModesOfPoints /\ RestoredIsClean /\ UnrecordedIsClean
        /\ PlanSound /\ TombstoneIsFinal /\ ClaimRecorded /\ OutcomeSound
        /\ MarksVerified /\ SuccessIsComplete
    BY DEF CoordinatorInv
  <1>1. TypeOK'
    <2>1. /\ target' \in [Action -> {"faulty", "clean"}]
          /\ db' \in [Action -> State \cup {"none"}]
          /\ ledger' \in [Action -> State \cup {"none"}]
      BY <1>a
      DEF TypeOK, mirrors, RepairBaseline, Reconcile, Reconciled, VerifyRestore,
          MarkOutcome, MarksMade
    <2>2. \A a \in Sql : ledger'[a] = "none"
      BY <1>a
      DEF TypeOK, mirrors, RepairBaseline, Reconcile, Reconciled, VerifyRestore,
          MarkOutcome, MarksMade
    <2>3. /\ row' \in [Run -> {"running", "restore_requested", "success",
                               "restore_failed"}]
          /\ pc' \in Points
          /\ mode' \in {"online", "reconnect", "fail", "reconcile", "unmark"}
          /\ cur' \in Action \cup {0}
          /\ want' \in State \cup {"none"}
          /\ rival' \subseteq Action
          /\ faults' \in 0..MaxFaults
      <3>1. CASE RepairBaseline
        BY <3>1, <1>a
        DEF TypeOK, Points, outside, RepairBaseline, NoFault, Fault, GoesTo
      <3>2. CASE Reconcile
        BY <3>2, <1>a
        DEF TypeOK, Points, State, PlanSound, WorkPoint, outside, Reconcile,
            FaultUnless, NoFault, Fault, GoesTo
      <3>3. CASE Reconciled
        BY <3>3, <1>a
        DEF TypeOK, Points, work, outside, Reconciled, GoesTo
      <3>4. CASE VerifyRestore
        BY <3>4, <1>a
        DEF TypeOK, Points, outside, VerifyRestore, NoFault, Fault, GoesTo
      <3>5. CASE MarkOutcome
        BY <3>5, <1>a
        DEF TypeOK, outside, MarkOutcome, RowOutcome, NoFault, Fault
      <3>6. CASE MarksMade
        BY <3>6, <1>a
        DEF TypeOK, Points, work, outside, MarksMade, FaultUnless, NoFault, Fault,
            GoesTo
      <3> QED
        BY <3>1, <3>2, <3>3, <3>4, <3>5, <3>6
    <2>4. /\ scope' \subseteq Run /\ cover' \subseteq Run
          /\ source' \in [Action -> SUBSET {"db", "ledger"}]
          /\ asked' \in [Action -> State \cup {"none"}]
          /\ todo' \subseteq Action \cup Run
      BY <1>a
      DEF TypeOK, Planned, plan, work, RepairBaseline, Reconcile, Reconciled,
          VerifyRestore, MarkOutcome, MarksMade
    <2>5. {deferred, actionErrs, errs, exclusive}' \subseteq BOOLEAN
      BY <1>a, Zenon
      DEF TypeOK, work, report, outside, RepairBaseline, Reconcile, Reconciled,
          VerifyRestore, MarkOutcome, MarksMade
    <2> QED
      BY <2>1, <2>2, <2>3, <2>4, <2>5 DEF TypeOK
  <1>2. ModesOfPoints'
    BY <1>a
    DEF ModesOfPoints, RepairBaseline, Reconcile, Reconciled, VerifyRestore,
        MarkOutcome, MarksMade, GoesTo
  <1>3. RestoredIsClean'
    BY <1>a
    DEF RestoredIsClean, mirrors, RepairBaseline, Reconcile, Reconciled,
        VerifyRestore, MarkOutcome, MarksMade
  <1>4. UnrecordedIsClean'
    BY <1>a
    DEF UnrecordedIsClean, mirrors, RepairBaseline, Reconcile, Reconciled,
        VerifyRestore, MarkOutcome, MarksMade
  <1>5. PlanSound'
    <2>1. CASE RepairBaseline
      <3>1. row' = row /\ ledger' = ledger /\ source' = source /\ cover' = cover
        BY <2>1 DEF RepairBaseline, mirrors, plan
      <3>2. \A a \in Planned : Known(a)
        BY <2>1, <1>a DEF RepairBaseline, PlanSound, ModesOfPoints, WorkPoint
      <3>3. Planned' = Planned /\ \A a \in Action : Known(a)' <=> Known(a)
        BY <3>1 DEF Planned, Known
      <3>4. pc' = "reconcile" => todo' \subseteq Planned
        BY <2>1 DEF RepairBaseline, GoesTo
      <3>5. pc' \in {"reconcile", "verify"}
        BY <2>1 DEF RepairBaseline, GoesTo
      <3> QED
        BY <3>2, <3>3, <3>4, <3>5 DEF PlanSound, WorkPoint, InHandPoint, Planned
    <2>2. CASE Reconcile
      BY <2>2, <1>a
      DEF PlanSound, Known, Planned, WorkPoint, mirrors, plan, Reconcile
    <2>3. CASE Reconciled
      BY <2>3, <1>a
      DEF PlanSound, InHandPoint, WorkPoint, Reconciled, GoesTo
    <2>4. CASE VerifyRestore
      BY <2>4, <1>a
      DEF PlanSound, InHandPoint, WorkPoint, VerifyRestore, GoesTo
    <2>5. CASE MarkOutcome
      BY <2>5, <1>a
      DEF PlanSound, InHandPoint, WorkPoint, MarkOutcome
    <2>6. CASE MarksMade
      BY <2>6, <1>a
      DEF PlanSound, InHandPoint, WorkPoint, MarksMade, GoesTo
    <2> QED
      BY <2>1, <2>2, <2>3, <2>4, <2>5, <2>6
  <1>6. TombstoneIsFinal'
    BY <1>a
    DEF TombstoneIsFinal, RepairBaseline, Reconcile, Reconciled, VerifyRestore,
        MarkOutcome, MarksMade, GoesTo
  <1>7. ClaimRecorded'
    BY <1>a
    DEF ClaimRecorded, RepairBaseline, Reconcile, Reconciled, VerifyRestore,
        MarkOutcome, MarksMade, GoesTo
  <1>8. OutcomeSound'
    BY <1>a
    DEF OutcomeSound, RepairBaseline, Reconcile, Reconciled, VerifyRestore,
        MarkOutcome, MarksMade, GoesTo
  <1>9. MarksVerified'
    BY <1>a
    DEF MarksVerified, Verified, DbPending, LedgerPending, mirrors, plan,
        RepairBaseline, Reconcile, Reconciled, VerifyRestore, MarkOutcome, MarksMade,
        GoesTo
  <1>10. SuccessIsComplete'
    <2>1. CASE RepairBaseline
      BY <2>1, <1>a
      DEF SuccessIsComplete, mirrors, RepairBaseline
    <2>2. CASE Reconcile
      BY <2>2, <1>a
      DEF SuccessIsComplete, mirrors, Reconcile
    <2>3. CASE Reconciled
      BY <2>3, <1>a
      DEF SuccessIsComplete, mirrors, Reconciled
    <2>4. CASE VerifyRestore
      BY <2>4, <1>a
      DEF SuccessIsComplete, mirrors, VerifyRestore
    <2>5. CASE MarkOutcome
      <3>1. UNCHANGED <<target, mirrors>> /\ pc = "mark"
        BY <2>5 DEF MarkOutcome
      <3>2. PICK r \in todo :
              \/ row' = [row EXCEPT ![r] = RowOutcome]
              \/ \E s \in {row[r], RowOutcome} : row' = [row EXCEPT ![r] = s]
        BY <2>5 DEF MarkOutcome
      <3>3. \A q \in Run : row'[q] = "success" => row[q] = "success" \/ (q = r /\ ~errs)
        BY <1>a, <3>2 DEF TypeOK, RowOutcome
      <3>4. ASSUME NEW a \in Action, RunOf[a] = r, ~errs
            PROVE  target[a] = "clean" /\ ~Open(db[a]) /\ ~Open(ledger[a])
        <4>1. ~Open(db[a]) /\ ~Open(ledger[a])
          BY <1>a, <3>1, <3>2, <3>4 DEF MarksVerified, Verified, DbPending,
                                        LedgerPending
        <4> QED
          BY <1>a, <4>1 DEF Open, RestoredIsClean, UnrecordedIsClean
      <3>5. \A a \in Action : RunOf[a] \in Run
        OBVIOUS
      <3> QED
        BY <1>a, <3>1, <3>3, <3>4, <3>5 DEF SuccessIsComplete, mirrors
    <2>6. CASE MarksMade
      <3>1. UNCHANGED <<target, mirrors>>
        BY <2>6 DEF MarksMade
      <3>2. \A q \in Run : row'[q] = "success" => row[q] = "success"
        BY <2>6 DEF MarksMade
      <3>3. \A a \in Action : RunOf[a] \in Run
        OBVIOUS
      <3> QED
        BY <1>a, <3>1, <3>2, <3>3 DEF SuccessIsComplete, mirrors
    <2> QED
      BY <2>1, <2>2, <2>3, <2>4, <2>5, <2>6
  <1> QED
    BY <1>1, <1>2, <1>3, <1>4, <1>5, <1>6, <1>7, <1>8, <1>9, <1>10 DEF CoordinatorInv

\* Another host, which has the table only.
LEMMA RivalsKeepInv ==
  ASSUME CoordinatorInv,
         NEW b \in Action, RivalClaims(b) \/ RivalRestores(b)
  PROVE  CoordinatorInv'
  <1> USE CoordinatorConstants
  <1>a. /\ TypeOK /\ ModesOfPoints /\ RestoredIsClean /\ UnrecordedIsClean
        /\ PlanSound /\ TombstoneIsFinal /\ ClaimRecorded /\ OutcomeSound
        /\ MarksVerified /\ SuccessIsComplete
    BY DEF CoordinatorInv
  <1>b. RivalClaims(b) \/ RivalRestores(b)
    OBVIOUS
  <1>1. TypeOK'
    <2>1. /\ target' \in [Action -> {"faulty", "clean"}]
          /\ db' \in [Action -> State \cup {"none"}]
          /\ ledger' \in [Action -> State \cup {"none"}]
      BY <1>a
      DEF TypeOK, State, RivalClaims, RivalRestores
    <2>2. \A a \in Sql : ledger'[a] = "none"
      BY <1>a
      DEF TypeOK, RivalClaims, RivalRestores
    <2>3. /\ row' \in [Run -> {"running", "restore_requested", "success",
                               "restore_failed"}]
          /\ pc' \in Points
          /\ mode' \in {"online", "reconnect", "fail", "reconcile", "unmark"}
          /\ cur' \in Action \cup {0}
          /\ want' \in State \cup {"none"}
          /\ rival' \subseteq Action
          /\ faults' \in 0..MaxFaults
      BY ZenonT(60), <1>a
      DEF TypeOK, Points, State, ModesOfPoints, PlanSound, WorkPoint, InHandPoint,
          Planned, mirrors, plan, work, report, outside, RivalClaims, RivalRestores
    <2>4. /\ scope' \subseteq Run /\ cover' \subseteq Run
          /\ source' \in [Action -> SUBSET {"db", "ledger"}]
          /\ asked' \in [Action -> State \cup {"none"}]
          /\ todo' \subseteq Action \cup Run
      BY <1>a
      DEF TypeOK, plan, work, RivalClaims, RivalRestores
    <2>5. {deferred, actionErrs, errs, exclusive}' \subseteq BOOLEAN
      BY <1>a, Zenon
      DEF TypeOK, work, report, RivalClaims, RivalRestores
    <2> QED
      BY <2>1, <2>2, <2>3, <2>4, <2>5 DEF TypeOK
  <1>2. ModesOfPoints'
    BY <1>a
    DEF ModesOfPoints, RivalClaims, RivalRestores
  <1>3. RestoredIsClean'
    BY <1>a
    DEF RestoredIsClean, TypeOK, RivalClaims, RivalRestores
  <1>4. UnrecordedIsClean'
    BY <1>a
    DEF UnrecordedIsClean, TypeOK, RivalClaims, RivalRestores
  <1>5. PlanSound'
    <2>1. CASE RivalClaims(b)
      BY <2>1, <1>a
      DEF PlanSound, Known, Planned, plan, work, RivalClaims
    <2>2. CASE RivalRestores(b)
      BY <2>2, <1>a
      DEF PlanSound, Known, Planned, plan, work, RivalRestores
    <2> QED
      BY <1>b, <2>1, <2>2
  <1>6. TombstoneIsFinal'
    BY <1>a
    DEF TombstoneIsFinal, work, RivalClaims, RivalRestores
  <1>7. ClaimRecorded'
    BY <1>a
    DEF ClaimRecorded, Recorded, PlanSound, InHandPoint, WorkPoint, TypeOK, plan,
        work, RivalClaims, RivalRestores
  <1>8. OutcomeSound'
    BY <1>a
    DEF OutcomeSound, PlanSound, WorkPoint, InHandPoint, TypeOK, work, RivalClaims,
        RivalRestores
  <1>9. MarksVerified'
    <2>1. CASE RivalClaims(b)
      BY <2>1, <1>a
      DEF MarksVerified, Verified, DbPending, LedgerPending, plan, work, report,
          RivalClaims
    <2>2. CASE RivalRestores(b)
      BY <2>2, <1>a
      DEF MarksVerified, Verified, DbPending, LedgerPending, Open, plan, work, report,
          RivalRestores
    <2> QED
      BY <1>b, <2>1, <2>2
  <1>10. SuccessIsComplete'
    BY <1>a
    DEF SuccessIsComplete, Open, TypeOK, RivalClaims, RivalRestores
  <1> QED
    BY <1>1, <1>2, <1>3, <1>4, <1>5, <1>6, <1>7, <1>8, <1>9, <1>10 DEF CoordinatorInv

-----------------------------------------------------------------------------
(* The theorems.                                                              *)

\* Nothing is restored at the start, and a target that has no record is clean.
LEMMA CoordinatorInvInit == Init => CoordinatorInv
  <1> SUFFICES ASSUME Init
               PROVE  CoordinatorInv
    OBVIOUS
  <1>1. TypeOK
    <2>1. {deferred, actionErrs, errs, exclusive} \subseteq BOOLEAN
      BY Zenon DEF Init
    <2>2. /\ db \in [Action -> State \cup {"none"}]
          /\ ledger \in [Action -> State \cup {"none"}]
      BY CoordinatorConstants DEF Init, State
    <2>3. source \in [Action -> SUBSET {"db", "ledger"}]
      BY DEF Init
    <2> QED
      BY <2>1, <2>2, <2>3, CoordinatorConstants DEF Init, TypeOK, Points, Action
  <1>2. \A a \in Action : db[a] # "restored" /\ ledger[a] # "restored"
    BY CoordinatorConstants DEF Init
  <1>3. RestoredIsClean /\ UnrecordedIsClean /\ SuccessIsComplete
    BY <1>2, CoordinatorConstants
    DEF Init, RestoredIsClean, UnrecordedIsClean, SuccessIsComplete
  <1> QED
    BY <1>1, <1>3
    DEF Init, CoordinatorInv, ModesOfPoints, PlanSound, WorkPoint, InHandPoint,
        TombstoneIsFinal, ClaimRecorded, OutcomeSound, MarksVerified

\* Every step of the coordinator, and of another host, preserves the invariant.
LEMMA CoordinatorInvNext == CoordinatorInv /\ [Next]_vars => CoordinatorInv'
  <1> SUFFICES ASSUME CoordinatorInv, [Next]_vars
               PROVE  CoordinatorInv'
    OBVIOUS
  <1>1. CASE Next
    <2>1. CASE BeginAll \/ \E r \in Run : Begin({r})
      BY <2>1, SessionsKeepInv
    <2>2. CASE Work
      BY <2>2, SessionsKeepInv, DiscoveryKeepInv, ClaimsKeepInv, InversesKeepInv,
         OutcomesKeepInv, EndingsKeepInv DEF Work
    <2>3. CASE Failures
      BY <2>3, SessionsKeepInv, DiscoveryKeepInv, ClaimsKeepInv, InversesKeepInv,
         OutcomesKeepInv DEF Failures
    <2>4. CASE \E a \in Action : RivalClaims(a) \/ RivalRestores(a)
      BY <2>4, RivalsKeepInv
    <2> QED
      BY <1>1, <2>1, <2>2, <2>3, <2>4 DEF Next
  <1>2. CASE UNCHANGED vars
    BY <1>2
    DEF vars, mirrors, plan, work, report, outside, CoordinatorInv, TypeOK,
        ModesOfPoints, RestoredIsClean, UnrecordedIsClean, PlanSound, Known, Planned,
        TombstoneIsFinal, ClaimRecorded, Recorded, OutcomeSound, MarksVerified,
        Verified, DbPending, LedgerPending, SuccessIsComplete
  <1> QED
    BY <1>1, <1>2

\* Whatever fails and whoever dies, for any actions and runs: mirrors that tell the
\* truth, inverses that are recorded and not repeated after a tombstone, and success
\* only for a run with nothing left.
THEOREM CoordinatorIsSafe == Spec => []CoordinatorSafety
  <1>1. CoordinatorInv => CoordinatorSafety
    BY DEF CoordinatorInv, CoordinatorSafety, ClaimRecorded, Recorded,
           InverseIsRecorded
  <1> QED
    BY <1>1, CoordinatorInvInit, CoordinatorInvNext, PTL DEF Spec
=============================================================================
