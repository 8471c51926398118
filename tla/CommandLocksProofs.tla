------------------------- MODULE CommandLocksProofs -------------------------
(* Theorems about CommandLocks, for any number of commands and processes.     *)
EXTENDS CommandLocks, TLAPS

-----------------------------------------------------------------------------
(* The inductive invariant.                                                   *)

\* A process is at a point of the command it was given.
PointsOfCommands ==
  \A p \in Process :
    /\ pc[p] = "off" => cmd[p] = "none"
    /\ pc[p] = "lease" => cmd[p] \in {"init", "run", "plan_init", "fault"}
    /\ pc[p] \in {"init_plan", "init_restore", "init_mutate"} => cmd[p] = "init"
    /\ pc[p] \in {"run_lock", "run_start", "run_work", "run_stop"} => cmd[p] = "run"
    /\ pc[p] \in {"pi_control", "pi_resolve", "pi_probe", "pi_probing", "pi_stale",
                  "pi_activity", "pi_start", "pi_release", "pi_warm", "pi_traffic",
                  "pi_finish", "pi_record"} => cmd[p] = "plan_init"
    /\ pc[p] \in {"f_control", "f_resolve", "f_probe", "f_probing", "f_record",
                  "f_apply", "f_finish"} => cmd[p] = "fault"
    /\ pc[p] \in {"exclude", "c_probe", "c_probing", "c_runs", "c_drop"}
         => cmd[p] = "cleanup"
    /\ pc[p] \in {"request", "terminate", "quiesce"} => cmd[p] \in {"stop", "cleanup"}

\* Two processes never hold locks that exclude each other.
LocksExclude ==
  \A p, q \in Process : p # q => \A k \in held[p] : held[q] \cap Conflicting(k) = {}

\* The locks under which a process is at its point.
Covered(p) ==
  /\ Inside(p) => "lease" \in held[p]
  /\ pc[p] \in {"init_restore", "init_mutate",
                "pi_resolve", "pi_probe", "pi_probing", "pi_stale", "pi_activity",
                "pi_start", "pi_release", "pi_record",
                "f_resolve", "f_probe", "f_probing", "f_record", "f_apply", "f_finish"}
     => "plan" \in held[p]
  /\ pc[p] \in {"pi_probing", "f_probing", "c_probing",
                "pi_start", "pi_release", "pi_warm", "pi_traffic", "pi_finish", "pi_record"}
     => "activity" \in held[p]
  /\ \/ pc[p] \in {"c_probe", "c_probing", "c_runs", "c_drop"}
     \/ pc[p] \in {"request", "terminate", "quiesce"} /\ cmd[p] = "cleanup"
     => "lifecycle" \in held[p]

LocksCover == \A p \in Process \ bereft : Covered(p)

\* A row says what the command of its process can have written, and nothing
\* before that command has reached its first record.
RowsOfCommands ==
  \A p \in Process :
    /\ row[p] \in {"preparing", "workload_running", "stale"} => cmd[p] = "plan_init"
    /\ row[p] \in {"running", "stop_requested"} => cmd[p] \in {"run", "fault"}
    /\ pc[p] \in {"off", "lease"} => row[p] = "none"

\* Between its probe and the update that marks rows stale a process is alone: no
\* workload holds the activity lock, and none can get it.
NobodyActiveWhileMarking ==
  \A p, q \in Process : pc[p] = "pi_stale" => "activity" \notin held[q]

CommandsInv ==
  /\ TypeOK
  /\ PointsOfCommands
  /\ LocksExclude
  /\ LocksCover
  /\ RowsOfCommands
  /\ bereft = {} => /\ NobodyActiveWhileMarking
                    /\ LiveWorkloadKeepsItsRow
                    /\ FaultKeepsItsWorkload

-----------------------------------------------------------------------------
(* One step of one process.                                                   *)

Act(p) ==
  \/ Invoke(p) \/ Proceed(p) \/ WorkEnds(p) \/ TrafficEnds(p)
  \/ GiveUp(p) \/ Dies(p) \/ LoseSession(p)

\* At the start every variable holds a value of its kind.
LEMMA TypeInit == Init => TypeOK
  BY CommandLocksConstants DEF Init, TypeOK, Point

\* Types: each action assigns values of the kinds TypeOK names.
LEMMA TypeStep ==
  ASSUME TypeOK, NEW p \in Process, Act(p)
  PROVE  TypeOK'
  <1>1. CASE Invoke(p)
    BY <1>1, CommandLocksConstants
    DEF Invoke, TypeOK, Point, Lock, Goto, meta
  <1>2. CASE Lease(p) \/ Leave(p) \/ Reap(p)
    BY <1>2, CommandLocksConstants
    DEF Lease, Leave, Reap, TypeOK, Point, Lock, AfterLease, Step, TryLock, Busy,
        Goto, args, meta
  <1>3. CASE GiveUp(p) \/ Dies(p) \/ LoseSession(p)
    BY <1>3, CommandLocksConstants
    DEF GiveUp, Dies, LoseSession, TypeOK, Point, Lock, Fallible, Goto, Fault, args,
        meta, Running
  <1>4. CASE WorkEnds(p) \/ TrafficEnds(p)
    BY <1>4, CommandLocksConstants
    DEF WorkEnds, TrafficEnds, TypeOK, Point, Lock, Step, Goto, args, meta
  <1>5. CASE InitCommand(p)
    <2>1. CASE InitMutate(p)
      <3>1. schema' \in BOOLEAN
        BY <2>1, Zenon DEF InitMutate, TypeOK
      <3> QED
        BY <2>1, <3>1, CommandLocksConstants
        DEF InitMutate, TypeOK, Point, Goto, Fault, NoFault, args
    <2>2. CASE InitPlan(p) \/ InitRestore(p)
      BY <2>2, CommandLocksConstants
      DEF InitPlan, InitRestore, TypeOK, Point, Lock, Step, TryLock, Busy, Goto, args,
          meta
    <2> QED
      BY <1>5, <2>1, <2>2 DEF InitCommand
  <1>6. CASE RunCommand(p)
    BY <1>6, CommandLocksConstants
    DEF RunCommand, RunLock, StartRun, WatchStop, RecordRunOutcome, TypeOK, Point,
        Lock, TryLock, Goto, args, meta, SetStatus, Fault, NoFault, Step
  <1>7. CASE PlanInitCommand(p)
    BY <1>7, CommandLocksConstants
    DEF PlanInitCommand, PlanControl, PlanResolve, PlanProbe, MarkWorkloadsStale,
        PlanActivity, StartWorkload, PlanRelease, MarkWorkloadRunning, Heartbeat,
        PlanFinish, FinishWorkload, TypeOK, Point, Lock, AwaitPlan, Step, TryLock, Busy,
        Goto, args, meta, Probe, Unlock, SetStatus, Fault, NoFault
  <1>8. CASE FaultCommand(p)
    BY <1>8, CommandLocksConstants
    DEF FaultCommand, FaultControl, FaultResolve, FaultProbe, RecordFaultStart,
        ApplyFault, RecordFaultFinish, TypeOK, Point, Lock, AwaitPlan, Step, TryLock,
        Busy, Goto, args, meta, Probe, Unlock, SetStatus, Fault, NoFault
  <1>9. CASE StopCommand(p)
    BY <1>9, CommandLocksConstants
    DEF StopCommand, RequestStop, Terminate, Quiesced, TypeOK, Point, Lock, SetStatus,
        Goto, Fault, NoFault, args, meta, Step
  <1>10. CASE CleanupCommand(p)
    <2>1. CASE DropSchema(p)
      <3>1. schema' \in BOOLEAN
        BY <2>1, Zenon DEF DropSchema, TypeOK
      <3>2. row' = row \/ row' = [q \in Process |-> "none"]
        BY <2>1, Zenon DEF DropSchema
      <3>3. /\ pc' \in [Process -> Point] /\ faults' \in 0..MaxFaults
           /\ UNCHANGED <<cmd, code, held, started, clock, lost, bereft>>
        <4>1. pc' = [pc EXCEPT ![p] = "leave"] /\ (NoFault \/ Fault)
             /\ UNCHANGED <<cmd, code, held, started, clock, lost, bereft>>
          BY <2>1, Zenon DEF DropSchema, Goto, args
        <4> QED
          BY <4>1, CommandLocksConstants DEF TypeOK, Point, Fault, NoFault
      <3> QED
        BY <3>1, <3>2, <3>3 DEF TypeOK
    <2>2. CASE Exclude(p) \/ CleanupProbe(p) \/ CleanupRuns(p)
      BY <2>2, CommandLocksConstants
      DEF Exclude, CleanupProbe, CleanupRuns, TypeOK, Point, Lock, Step, TryLock,
          Busy, Goto, args, meta, Probe, Unlock
    <2> QED
      BY <1>10, <2>1, <2>2 DEF CleanupCommand
  <1> QED
    BY <1>1, <1>2, <1>3, <1>4, <1>5, <1>6, <1>7, <1>8, <1>9, <1>10 DEF Act, Proceed

\* StopTaggedSessions ends lock sessions, and whose they were is remembered.
LEMMA TerminateEnds ==
  ASSUME TypeOK, NEW p \in Process, Terminate(p)
  PROVE  /\ \A q \in Process : held'[q] = held[q] \/ (held'[q] = {} /\ q \in bereft')
         /\ bereft \subseteq bereft' /\ pc[p] = "terminate" /\ pc' = [pc EXCEPT ![p] = "quiesce"]
         /\ UNCHANGED <<cmd, code, row, started, clock, schema, faults, lost>>
  BY DEF Terminate, Goto, args, meta, TypeOK

\* What was ended is never taken for living again.
LEMMA BereftGrows ==
  ASSUME TypeOK, NEW p \in Process, Act(p)
  PROVE  bereft \subseteq bereft'
  <1>1. CASE Invoke(p)
    BY <1>1 DEF Invoke
  <1>2. CASE Lease(p) \/ Leave(p) \/ Reap(p)
    BY <1>2 DEF Lease, Leave, Reap, Step, TryLock, Busy
  <1>3. CASE GiveUp(p) \/ Dies(p) \/ LoseSession(p)
    BY <1>3 DEF GiveUp, Dies, LoseSession
  <1>4. CASE WorkEnds(p) \/ TrafficEnds(p)
    BY <1>4 DEF WorkEnds, TrafficEnds, Step
  <1>5. CASE InitCommand(p)
    BY <1>5 DEF InitCommand, InitPlan, InitRestore, InitMutate, Step, TryLock, Busy
  <1>6. CASE RunCommand(p)
    BY <1>6 DEF RunCommand, RunLock, StartRun, WatchStop, RecordRunOutcome, TryLock, Step
  <1>7. CASE PlanInitCommand(p)
    BY <1>7
    DEF PlanInitCommand, PlanControl, PlanResolve, PlanProbe, MarkWorkloadsStale,
        PlanActivity, StartWorkload, PlanRelease, MarkWorkloadRunning, Heartbeat,
        PlanFinish, FinishWorkload, AwaitPlan, Step, TryLock, Busy, Probe, Unlock
  <1>8. CASE FaultCommand(p)
    BY <1>8
    DEF FaultCommand, FaultControl, FaultResolve, FaultProbe, RecordFaultStart,
        ApplyFault, RecordFaultFinish, AwaitPlan, Step, TryLock, Busy, Probe, Unlock
  <1>9. CASE StopCommand(p)
    BY <1>9, TerminateEnds DEF StopCommand, RequestStop, Quiesced, Step
  <1>10. CASE CleanupCommand(p)
    BY <1>10
    DEF CleanupCommand, Exclude, CleanupProbe, CleanupRuns, DropSchema, Step, TryLock,
        Busy, Probe, Unlock
  <1> QED
    BY <1>1, <1>2, <1>3, <1>4, <1>5, <1>6, <1>7, <1>8, <1>9, <1>10 DEF Act, Proceed

\* A step moves one process and changes nobody else's point, command and locks.
LEMMA OneProcessMoves ==
  ASSUME TypeOK, NEW p \in Process, Act(p)
  PROVE  \A q \in Process \ {p} :
           /\ pc'[q] = pc[q] /\ cmd'[q] = cmd[q]
           /\ held'[q] = held[q] \/ (held'[q] = {} /\ q \in bereft')
  <1>1. CASE Invoke(p)
    BY <1>1
    DEF Invoke, TypeOK, Goto, meta
  <1>2. CASE Lease(p) \/ Leave(p) \/ Reap(p)
    BY <1>2
    DEF Lease, Leave, Reap, TypeOK, AfterLease, Step, TryLock, Busy, Goto, args, meta
  <1>3. CASE GiveUp(p) \/ Dies(p) \/ LoseSession(p)
    BY <1>3
    DEF GiveUp, Dies, LoseSession, TypeOK, Fallible, Goto, Fault, args, meta, Running
  <1>4. CASE WorkEnds(p) \/ TrafficEnds(p)
    BY <1>4
    DEF WorkEnds, TrafficEnds, TypeOK, Step, Goto, args, meta
  <1>5. CASE InitCommand(p)
    BY <1>5
    DEF InitCommand, InitPlan, InitRestore, InitMutate, TypeOK, Step, TryLock, Busy,
        Goto, args, meta, Fault, NoFault
  <1>6. CASE RunCommand(p)
    BY <1>6
    DEF RunCommand, RunLock, StartRun, WatchStop, RecordRunOutcome, TypeOK, TryLock,
        Goto, args, meta, SetStatus, Fault, NoFault, Step
  <1>7. CASE PlanInitCommand(p)
    BY <1>7
    DEF PlanInitCommand, PlanControl, PlanResolve, PlanProbe, MarkWorkloadsStale,
        PlanActivity, StartWorkload, PlanRelease, MarkWorkloadRunning, Heartbeat,
        PlanFinish, FinishWorkload, TypeOK, AwaitPlan, Step, TryLock, Busy, Goto, args,
        meta, Probe, Unlock, SetStatus, Fault, NoFault
  <1>8. CASE FaultCommand(p)
    BY <1>8
    DEF FaultCommand, FaultControl, FaultResolve, FaultProbe, RecordFaultStart,
        ApplyFault, RecordFaultFinish, TypeOK, AwaitPlan, Step, TryLock, Busy, Goto, args,
        meta, Probe, Unlock, SetStatus, Fault, NoFault
  <1>9. CASE StopCommand(p)
    <2>1. CASE Terminate(p)
      BY <2>1, TerminateEnds DEF TypeOK
    <2>2. CASE RequestStop(p) \/ Quiesced(p)
      BY <2>2
      DEF RequestStop, Quiesced, TypeOK, SetStatus, Goto, Fault, NoFault, args, meta, Step
    <2> QED
      BY <1>9, <2>1, <2>2 DEF StopCommand
  <1>10. CASE CleanupCommand(p)
    BY <1>10
    DEF CleanupCommand, Exclude, CleanupProbe, CleanupRuns, DropSchema, TypeOK, Step,
        TryLock, Busy, Goto, args, meta, Probe, Unlock, Fault, NoFault
  <1> QED
    BY <1>1, <1>2, <1>3, <1>4, <1>5, <1>6, <1>7, <1>8, <1>9, <1>10 DEF Act, Proceed

\* It takes at most one lock, which is free.
LEMMA LocksChange ==
  ASSUME TypeOK, NEW p \in Process, Act(p)
  PROVE  \/ held'[p] \subseteq held[p]
         \/ \E k \in Lock : Free(k) /\ held'[p] = held[p] \cup {k}
  <1>1. CASE Invoke(p)
    BY <1>1
    DEF Invoke, TypeOK, Lock, Goto, meta
  <1>2. CASE Lease(p) \/ Leave(p) \/ Reap(p)
    BY <1>2
    DEF Lease, Leave, Reap, TypeOK, Lock, AfterLease, Step, TryLock, Busy, Goto, args,
        meta
  <1>3. CASE GiveUp(p) \/ Dies(p) \/ LoseSession(p)
    BY <1>3
    DEF GiveUp, Dies, LoseSession, TypeOK, Lock, Fallible, Goto, Fault, args, meta,
        Running
  <1>4. CASE WorkEnds(p) \/ TrafficEnds(p)
    BY <1>4
    DEF WorkEnds, TrafficEnds, TypeOK, Lock, Step, Goto, args, meta
  <1>5. CASE InitCommand(p)
    BY <1>5
    DEF InitCommand, InitPlan, InitRestore, InitMutate, TypeOK, Lock, Step, TryLock,
        Busy, Goto, args, meta, Fault, NoFault
  <1>6. CASE RunCommand(p)
    BY <1>6
    DEF RunCommand, RunLock, StartRun, WatchStop, RecordRunOutcome, TypeOK, Lock,
        TryLock, Goto, args, meta, SetStatus, Fault, NoFault, Step
  <1>7. CASE PlanInitCommand(p)
    BY <1>7
    DEF PlanInitCommand, PlanControl, PlanResolve, PlanProbe, MarkWorkloadsStale,
        PlanActivity, StartWorkload, PlanRelease, MarkWorkloadRunning, Heartbeat,
        PlanFinish, FinishWorkload, TypeOK, Lock, AwaitPlan, Step, TryLock, Busy, Goto,
        args, meta, Probe, Unlock, SetStatus, Fault, NoFault
  <1>8. CASE FaultCommand(p)
    BY <1>8
    DEF FaultCommand, FaultControl, FaultResolve, FaultProbe, RecordFaultStart,
        ApplyFault, RecordFaultFinish, TypeOK, Lock, AwaitPlan, Step, TryLock, Busy, Goto,
        args, meta, Probe, Unlock, SetStatus, Fault, NoFault
  <1>9. CASE StopCommand(p)
    <2>1. CASE Terminate(p)
      BY <2>1, TerminateEnds DEF TypeOK
    <2>2. CASE RequestStop(p) \/ Quiesced(p)
      BY <2>2
      DEF RequestStop, Quiesced, TypeOK, Lock, SetStatus, Goto, Fault, NoFault, args, meta, Step
    <2> QED
      BY <1>9, <2>1, <2>2 DEF StopCommand
  <1>10. CASE CleanupCommand(p)
    BY <1>10
    DEF CleanupCommand, Exclude, CleanupProbe, CleanupRuns, DropSchema, TypeOK, Lock,
        Step, TryLock, Busy, Goto, args, meta, Probe, Unlock, Fault, NoFault
  <1> QED
    BY <1>1, <1>2, <1>3, <1>4, <1>5, <1>6, <1>7, <1>8, <1>9, <1>10 DEF Act, Proceed

\* A process goes only to points of its command.
LEMMA PointsStep ==
  ASSUME TypeOK, PointsOfCommands, NEW p \in Process, Act(p)
  PROVE  PointsOfCommands'
  <1>1. CASE Invoke(p)
    BY <1>1, CommandLocksConstants
    DEF Invoke, TypeOK, PointsOfCommands, AllCommands, Goto, meta
  <1>2. CASE Lease(p) \/ Leave(p) \/ Reap(p)
    BY <1>2
    DEF Lease, Leave, Reap, TypeOK, PointsOfCommands, AfterLease, Step, TryLock, Busy,
        Goto, args, meta
  <1>3. CASE GiveUp(p) \/ Dies(p) \/ LoseSession(p)
    BY <1>3
    DEF GiveUp, Dies, LoseSession, TypeOK, PointsOfCommands, Fallible, Goto, Fault,
        args, meta, Running
  <1>4. CASE WorkEnds(p) \/ TrafficEnds(p)
    BY <1>4
    DEF WorkEnds, TrafficEnds, TypeOK, PointsOfCommands, Step, Goto, args, meta
  <1>5. CASE InitCommand(p)
    BY <1>5
    DEF InitCommand, InitPlan, InitRestore, InitMutate, TypeOK, PointsOfCommands,
        Step, TryLock, Busy, Goto, args, meta, Fault, NoFault
  <1>6. CASE RunCommand(p)
    BY <1>6
    DEF RunCommand, RunLock, StartRun, WatchStop, RecordRunOutcome, TypeOK,
        PointsOfCommands, TryLock, Goto, args, meta, SetStatus, Fault, NoFault, Step
  <1>7. CASE PlanInitCommand(p)
    BY <1>7
    DEF PlanInitCommand, PlanControl, PlanResolve, PlanProbe, MarkWorkloadsStale,
        PlanActivity, StartWorkload, PlanRelease, MarkWorkloadRunning, Heartbeat,
        PlanFinish, FinishWorkload, TypeOK, PointsOfCommands, AwaitPlan, Step, TryLock,
        Busy, Goto, args, meta, Probe, Unlock, SetStatus, Fault, NoFault
  <1>8. CASE FaultCommand(p)
    BY <1>8
    DEF FaultCommand, FaultControl, FaultResolve, FaultProbe, RecordFaultStart,
        ApplyFault, RecordFaultFinish, TypeOK, PointsOfCommands, AwaitPlan, Step, TryLock,
        Busy, Goto, args, meta, Probe, Unlock, SetStatus, Fault, NoFault
  <1>9. CASE StopCommand(p)
    BY <1>9
    DEF StopCommand, RequestStop, Terminate, Quiesced, TypeOK, PointsOfCommands,
        SetStatus, Goto, Fault, NoFault, args, meta, Step
  <1>10. CASE CleanupCommand(p)
    BY <1>10
    DEF CleanupCommand, Exclude, CleanupProbe, CleanupRuns, DropSchema, TypeOK,
        PointsOfCommands, Step, TryLock, Busy, Goto, args, meta, Probe, Unlock, Fault,
        NoFault
  <1> QED
    BY <1>1, <1>2, <1>3, <1>4, <1>5, <1>6, <1>7, <1>8, <1>9, <1>10 DEF Act, Proceed

-----------------------------------------------------------------------------
(* Locks.                                                                     *)

\* Of two locks that exclude each other, each excludes the other.
LEMMA ConflictIsSymmetric ==
  ASSUME NEW j \in Lock, NEW k \in Lock, j \in Conflicting(k)
  PROVE  k \in Conflicting(j)
  BY DEF Lock, Conflicting

\* A lock is only taken when nobody holds one that excludes it.
LEMMA LocksExcludeStep ==
  ASSUME TypeOK, LocksExclude, NEW p \in Process, Act(p)
  PROVE  LocksExclude'
  <1> SUFFICES ASSUME NEW q \in Process, NEW r \in Process, q # r,
                      NEW k \in held'[q], NEW j \in held'[r], j \in Conflicting(k)
               PROVE  FALSE
    BY DEF LocksExclude
  <1>1. \A u \in Process : held'[u] \subseteq Lock
    BY TypeStep DEF TypeOK
  <1>2. \A u \in Process \ {p} : held'[u] \subseteq held[u]
    BY OneProcessMoves
  <1>3. k \in Conflicting(j)
    BY <1>1, ConflictIsSymmetric
  <1>4. CASE held'[p] \subseteq held[p]
    BY <1>2, <1>4 DEF LocksExclude
  <1>5. ASSUME NEW l \in Lock, Free(l), held'[p] = held[p] \cup {l}
        PROVE  FALSE
    <2>1. CASE q = p
      BY <1>2, <1>3, <1>5, <2>1 DEF LocksExclude, Free
    <2>2. CASE r = p
      BY <1>2, <1>3, <1>5, <2>2 DEF LocksExclude, Free
    <2>3. CASE q # p /\ r # p
      BY <1>2, <2>3 DEF LocksExclude
    <2> QED
      BY <2>1, <2>2, <2>3
  <1> QED
    BY <1>4, <1>5, LocksChange

\* The process that moves takes the locks before the points they cover, and gives
\* them back behind those.
LEMMA CoverStep ==
  ASSUME TypeOK, PointsOfCommands, NEW p \in Process, Covered(p), Act(p), p \notin bereft'
  PROVE  Covered(p)'
  <1>1. CASE Invoke(p)
    <2>1. PICK c \in Command :
            /\ cmd' = [cmd EXCEPT ![p] = c]
            /\ Goto(p, CASE c = "stop" -> "request"
                         [] c = "cleanup" -> "exclude"
                         [] OTHER -> "lease")
      BY <1>1 DEF Invoke
    <2>2. cmd'[p] = c /\ pc'[p] \in {"lease", "exclude", "request"}
      BY <2>1 DEF TypeOK, Goto
    <2>3. (pc'[p] = "request" => c = "stop") /\ (pc'[p] = "exclude" => c = "cleanup")
      BY <2>1 DEF TypeOK, Goto
    <2> QED
      BY <2>2, <2>3 DEF Covered, Inside, AfterLease
  <1>2. CASE Lease(p) \/ Leave(p) \/ Reap(p)
    BY <1>2
    DEF Lease, Leave, Reap, TypeOK, PointsOfCommands, Covered, Inside,
        AfterLease, Step, TryLock, Busy, Goto, args, meta
  <1>3. CASE GiveUp(p) \/ Dies(p) \/ LoseSession(p)
    BY <1>3
    DEF GiveUp, Dies, LoseSession, TypeOK, PointsOfCommands, Covered,
        Inside, Fallible, Goto, Fault, args, meta, Running
  <1>4. CASE WorkEnds(p) \/ TrafficEnds(p)
    BY <1>4
    DEF WorkEnds, TrafficEnds, TypeOK, PointsOfCommands, Covered, Inside,
        Step, Goto, args, meta
  <1>5. CASE InitCommand(p)
    BY <1>5
    DEF InitCommand, InitPlan, InitRestore, InitMutate, TypeOK, PointsOfCommands,
        Covered, Inside, Step, TryLock, Busy, Goto, args, meta, Fault, NoFault
  <1>6. CASE RunCommand(p)
    BY <1>6
    DEF RunCommand, RunLock, StartRun, WatchStop, RecordRunOutcome, TypeOK,
        PointsOfCommands, Covered, Inside, TryLock, Goto, args, meta,
        SetStatus, Fault, NoFault, Step
  <1>7. CASE PlanInitCommand(p)
    BY <1>7
    DEF PlanInitCommand, PlanControl, PlanResolve, PlanProbe, MarkWorkloadsStale,
        PlanActivity, StartWorkload, PlanRelease, MarkWorkloadRunning, Heartbeat,
        PlanFinish, FinishWorkload, TypeOK, PointsOfCommands, Covered, Inside,
        AwaitPlan, Step, TryLock, Busy, Goto, args, meta, Probe, Unlock, SetStatus, Fault,
        NoFault
  <1>8. CASE FaultCommand(p)
    BY <1>8
    DEF FaultCommand, FaultControl, FaultResolve, FaultProbe, RecordFaultStart,
        ApplyFault, RecordFaultFinish, TypeOK, PointsOfCommands, Covered,
        Inside, AwaitPlan, Step, TryLock, Busy, Goto, args, meta, Probe, Unlock,
        SetStatus, Fault, NoFault
  <1>9. CASE StopCommand(p)
    <2>1. CASE Terminate(p)
      BY <2>1, TerminateEnds DEF TypeOK, PointsOfCommands, Covered, Inside
    <2>2. CASE RequestStop(p) \/ Quiesced(p)
      BY <2>2
      DEF RequestStop, Quiesced, TypeOK, PointsOfCommands, Covered, Inside, SetStatus, Goto, Fault, NoFault, args, meta, Step
    <2> QED
      BY <1>9, <2>1, <2>2 DEF StopCommand
  <1>10. CASE CleanupCommand(p)
    BY <1>10
    DEF CleanupCommand, Exclude, CleanupProbe, CleanupRuns, DropSchema, TypeOK,
        PointsOfCommands, Covered, Inside, Step, TryLock, Busy, Goto, args,
        meta, Probe, Unlock, Fault, NoFault
  <1> QED
    BY <1>1, <1>2, <1>3, <1>4, <1>5, <1>6, <1>7, <1>8, <1>9, <1>10 DEF Act, Proceed

\* The others keep their points and their locks, so every process stays covered.
LEMMA LocksCoverStep ==
  ASSUME TypeOK, PointsOfCommands, LocksCover, NEW p \in Process, Act(p)
  PROVE  LocksCover'
  <1>0. bereft \subseteq bereft'
    BY BereftGrows
  <1>1. ASSUME p \notin bereft'
        PROVE  Covered(p)'
    BY <1>0, <1>1, CoverStep DEF LocksCover
  <1>2. ASSUME NEW q \in Process, q # p, q \notin bereft'
        PROVE  Covered(q)'
    <2>1. pc'[q] = pc[q] /\ cmd'[q] = cmd[q] /\ held'[q] = held[q]
      BY <1>2, OneProcessMoves
    <2> QED
      BY <1>0, <1>2, <2>1 DEF LocksCover, Covered, Inside
  <1> QED
    BY <1>1, <1>2 DEF LocksCover, Covered

\* Two processes never both hold the plan lock or the activity lock, and nobody has
\* the shared lease while another has the lifecycle lock exclusively.
LEMMA Exclusion ==
  ASSUME TypeOK, LocksExclude, NEW p \in Process, NEW q \in Process, p # q
  PROVE  /\ "plan" \in held[p] => "plan" \notin held[q]
         /\ "activity" \in held[p] => "activity" \notin held[q]
         /\ "lifecycle" \in held[p] => "lease" \notin held[q]
  <1>1. /\ "plan" \in Conflicting("plan")
        /\ "activity" \in Conflicting("activity")
        /\ "lease" \in Conflicting("lifecycle")
    BY DEF Conflicting
  <1> QED
    BY <1>1 DEF LocksExclude

-----------------------------------------------------------------------------
(* Rows.                                                                      *)

\* Only the command of a row writes what makes it active or running.
LEMMA RowsStep ==
  ASSUME TypeOK, PointsOfCommands, RowsOfCommands, NEW p \in Process, Act(p)
  PROVE  RowsOfCommands'
  <1>1. CASE Invoke(p)
    BY <1>1
    DEF Invoke, TypeOK, PointsOfCommands, RowsOfCommands, Active, Goto, meta
  <1>2. CASE Lease(p) \/ Leave(p) \/ Reap(p)
    BY <1>2
    DEF Lease, Leave, Reap, TypeOK, PointsOfCommands, RowsOfCommands, Active,
        AfterLease, Step, TryLock, Busy, Goto, args, meta
  <1>3. CASE GiveUp(p) \/ Dies(p) \/ LoseSession(p)
    BY <1>3
    DEF GiveUp, Dies, LoseSession, TypeOK, PointsOfCommands, RowsOfCommands, Active,
        Fallible, Goto, Fault, args, meta, Running
  <1>4. CASE WorkEnds(p) \/ TrafficEnds(p)
    BY <1>4
    DEF WorkEnds, TrafficEnds, TypeOK, PointsOfCommands, RowsOfCommands, Active, Step,
        Goto, args, meta
  <1>5. CASE InitCommand(p)
    BY <1>5
    DEF InitCommand, InitPlan, InitRestore, InitMutate, TypeOK, PointsOfCommands,
        RowsOfCommands, Active, Step, TryLock, Busy, Goto, args, meta, Fault, NoFault
  <1>6. CASE RunCommand(p)
    BY <1>6
    DEF RunCommand, RunLock, StartRun, WatchStop, RecordRunOutcome, TypeOK,
        PointsOfCommands, RowsOfCommands, Active, TryLock, Goto, args, meta, SetStatus,
        Fault, NoFault, Step
  <1>7. CASE PlanInitCommand(p)
    BY <1>7
    DEF PlanInitCommand, PlanControl, PlanResolve, PlanProbe, MarkWorkloadsStale,
        PlanActivity, StartWorkload, PlanRelease, MarkWorkloadRunning, Heartbeat,
        PlanFinish, FinishWorkload, TypeOK, PointsOfCommands, RowsOfCommands, Active,
        AwaitPlan, Step, TryLock, Busy, Goto, args, meta, Probe, Unlock, SetStatus, Fault,
        NoFault
  <1>8. CASE FaultCommand(p)
    BY <1>8
    DEF FaultCommand, FaultControl, FaultResolve, FaultProbe, RecordFaultStart,
        ApplyFault, RecordFaultFinish, TypeOK, PointsOfCommands, RowsOfCommands, Active,
        AwaitPlan, Step, TryLock, Busy, Goto, args, meta, Probe, Unlock, SetStatus, Fault,
        NoFault
  <1>9. CASE StopCommand(p)
    BY <1>9
    DEF StopCommand, RequestStop, Terminate, Quiesced, TypeOK, PointsOfCommands,
        RowsOfCommands, Active, SetStatus, Goto, Fault, NoFault, args, meta, Step
  <1>10. CASE CleanupCommand(p)
    BY <1>10
    DEF CleanupCommand, Exclude, CleanupProbe, CleanupRuns, DropSchema, TypeOK,
        PointsOfCommands, RowsOfCommands, Active, Step, TryLock, Busy, Goto, args, meta,
        Probe, Unlock, Fault, NoFault
  <1> QED
    BY <1>1, <1>2, <1>3, <1>4, <1>5, <1>6, <1>7, <1>8, <1>9, <1>10 DEF Act, Proceed

\* The rows that a step may change belong to the process that moves, unless it
\* marks rows stale, asks runs to stop or drops the schema.
LEMMA RowsOfOthers ==
  ASSUME TypeOK, NEW p \in Process, Act(p), NEW q \in Process, q # p
  PROVE  \/ row'[q] = row[q] /\ started'[q] = started[q]
         \/ MarkWorkloadsStale(p) \/ RequestStop(p) \/ DropSchema(p)
  <1>1. CASE Invoke(p)
    BY <1>1
    DEF Invoke, TypeOK, Goto, meta
  <1>2. CASE Lease(p) \/ Leave(p) \/ Reap(p)
    BY <1>2
    DEF Lease, Leave, Reap, TypeOK, AfterLease, Step, TryLock, Busy, Goto, args, meta
  <1>3. CASE GiveUp(p) \/ Dies(p) \/ LoseSession(p)
    BY <1>3
    DEF GiveUp, Dies, LoseSession, TypeOK, Fallible, Goto, Fault, args, meta, Running
  <1>4. CASE WorkEnds(p) \/ TrafficEnds(p)
    BY <1>4
    DEF WorkEnds, TrafficEnds, TypeOK, Step, Goto, args, meta
  <1>5. CASE InitCommand(p)
    BY <1>5
    DEF InitCommand, InitPlan, InitRestore, InitMutate, TypeOK, Step, TryLock, Busy,
        Goto, args, meta, Fault, NoFault
  <1>6. CASE RunCommand(p)
    BY <1>6
    DEF RunCommand, RunLock, StartRun, WatchStop, RecordRunOutcome, TypeOK, TryLock,
        Goto, args, meta, SetStatus, Fault, NoFault, Step
  <1>7. CASE PlanInitCommand(p)
    <2>1. CASE MarkWorkloadsStale(p)
      BY <2>1
    <2>2. CASE PlanControl(p) \/ PlanResolve(p) \/ PlanProbe(p) \/ PlanActivity(p)
            \/ StartWorkload(p) \/ PlanRelease(p)
            \/ MarkWorkloadRunning(p) \/ Heartbeat(p) \/ PlanFinish(p)
            \/ FinishWorkload(p)
      BY <2>2
      DEF PlanControl, PlanResolve, PlanProbe, PlanActivity, StartWorkload,
          PlanRelease, MarkWorkloadRunning, Heartbeat, PlanFinish, FinishWorkload, TypeOK,
          AwaitPlan, Step, TryLock, Busy, Goto, args, meta, Probe, Unlock, Fault, NoFault,
          SetStatus
    <2> QED
      BY <1>7, <2>1, <2>2 DEF PlanInitCommand
  <1>8. CASE FaultCommand(p)
    BY <1>8
    DEF FaultCommand, FaultControl, FaultResolve, FaultProbe, RecordFaultStart,
        ApplyFault, RecordFaultFinish, TypeOK, AwaitPlan, Step, TryLock, Busy, Goto, args,
        meta, Probe, Unlock, SetStatus, Fault, NoFault
  <1>9. CASE StopCommand(p)
    <2>1. CASE RequestStop(p)
      BY <2>1
    <2>2. CASE Terminate(p) \/ Quiesced(p)
      BY <2>2
      DEF Terminate, Quiesced, TypeOK, Goto, args, meta, Step
    <2> QED
      BY <1>9, <2>1, <2>2 DEF StopCommand
  <1>10. CASE CleanupCommand(p)
    <2>1. CASE DropSchema(p)
      BY <2>1
    <2>2. CASE Exclude(p) \/ CleanupProbe(p) \/ CleanupRuns(p)
      BY <2>2
      DEF Exclude, CleanupProbe, CleanupRuns, TypeOK, Step, TryLock, Busy, Goto, args,
          meta, Probe, Unlock
    <2> QED
      BY <1>10, <2>1, <2>2 DEF CleanupCommand
  <1> QED
    BY <1>1, <1>2, <1>3, <1>4, <1>5, <1>6, <1>7, <1>8, <1>9, <1>10 DEF Act, Proceed

\* The activity lock is taken only by the probes and by the start of a workload
\* (ProbePlanActivity, AcquirePlanActivity).
LEMMA WhoTakesActivity ==
  ASSUME TypeOK, NEW p \in Process, Act(p),
         "activity" \in held'[p], "activity" \notin held[p]
  PROVE  pc[p] \in {"pi_probe", "pi_activity", "f_probe", "c_probe"}
  <1>1. CASE Invoke(p)
    BY <1>1
    DEF Invoke, TypeOK, Goto, meta
  <1>2. CASE Lease(p) \/ Leave(p) \/ Reap(p)
    BY <1>2
    DEF Lease, Leave, Reap, TypeOK, AfterLease, Step, TryLock, Busy, Goto, args, meta
  <1>3. CASE GiveUp(p) \/ Dies(p) \/ LoseSession(p)
    BY <1>3
    DEF GiveUp, Dies, LoseSession, TypeOK, Fallible, Goto, Fault, args, meta, Running
  <1>4. CASE WorkEnds(p) \/ TrafficEnds(p)
    BY <1>4
    DEF WorkEnds, TrafficEnds, TypeOK, Step, Goto, args, meta
  <1>5. CASE InitCommand(p)
    BY <1>5
    DEF InitCommand, InitPlan, InitRestore, InitMutate, TypeOK, Step, TryLock, Busy,
        Goto, args, meta, Fault, NoFault
  <1>6. CASE RunCommand(p)
    BY <1>6
    DEF RunCommand, RunLock, StartRun, WatchStop, RecordRunOutcome, TypeOK, TryLock,
        Goto, args, meta, SetStatus, Fault, NoFault, Step
  <1>7. CASE PlanInitCommand(p)
    BY <1>7
    DEF PlanInitCommand, PlanControl, PlanResolve, PlanProbe, MarkWorkloadsStale,
        PlanActivity, StartWorkload, PlanRelease, MarkWorkloadRunning, Heartbeat,
        PlanFinish, FinishWorkload, TypeOK, AwaitPlan, Step, TryLock, Busy, Goto, args,
        meta, Probe, Unlock, SetStatus, Fault, NoFault
  <1>8. CASE FaultCommand(p)
    BY <1>8
    DEF FaultCommand, FaultControl, FaultResolve, FaultProbe, RecordFaultStart,
        ApplyFault, RecordFaultFinish, TypeOK, AwaitPlan, Step, TryLock, Busy, Goto, args,
        meta, Probe, Unlock, SetStatus, Fault, NoFault
  <1>9. CASE StopCommand(p)
    <2>1. CASE Terminate(p)
      BY <2>1, TerminateEnds DEF TypeOK
    <2>2. CASE RequestStop(p) \/ Quiesced(p)
      BY <2>2
      DEF RequestStop, Quiesced, TypeOK, SetStatus, Goto, Fault, NoFault, args, meta, Step
    <2> QED
      BY <1>9, <2>1, <2>2 DEF StopCommand
  <1>10. CASE CleanupCommand(p)
    BY <1>10
    DEF CleanupCommand, Exclude, CleanupProbe, CleanupRuns, DropSchema, TypeOK, Step,
        TryLock, Busy, Goto, args, meta, Probe, Unlock, Fault, NoFault
  <1> QED
    BY <1>1, <1>2, <1>3, <1>4, <1>5, <1>6, <1>7, <1>8, <1>9, <1>10 DEF Act, Proceed

\* Rows come to be marked only after a probe that gives the activity lock back.
LEMMA WhoStartsMarking ==
  ASSUME TypeOK, NEW p \in Process, Act(p), pc'[p] = "pi_stale", pc[p] # "pi_stale"
  PROVE  /\ pc[p] = "pi_probing"
         /\ held'[p] = held[p] \ {"activity"}
  <1>1. CASE Invoke(p)
    BY <1>1
    DEF Invoke, TypeOK, Goto, meta
  <1>2. CASE Lease(p) \/ Leave(p) \/ Reap(p)
    BY <1>2
    DEF Lease, Leave, Reap, TypeOK, AfterLease, Step, TryLock, Busy, Goto, args, meta
  <1>3. CASE GiveUp(p) \/ Dies(p) \/ LoseSession(p)
    BY <1>3
    DEF GiveUp, Dies, LoseSession, TypeOK, Fallible, Goto, Fault, args, meta, Running
  <1>4. CASE WorkEnds(p) \/ TrafficEnds(p)
    BY <1>4
    DEF WorkEnds, TrafficEnds, TypeOK, Step, Goto, args, meta
  <1>5. CASE InitCommand(p)
    BY <1>5
    DEF InitCommand, InitPlan, InitRestore, InitMutate, TypeOK, Step, TryLock, Busy,
        Goto, args, meta, Fault, NoFault
  <1>6. CASE RunCommand(p)
    BY <1>6
    DEF RunCommand, RunLock, StartRun, WatchStop, RecordRunOutcome, TypeOK, TryLock,
        Goto, args, meta, SetStatus, Fault, NoFault, Step
  <1>7. CASE PlanInitCommand(p)
    BY <1>7
    DEF PlanInitCommand, PlanControl, PlanResolve, PlanProbe, MarkWorkloadsStale,
        PlanActivity, StartWorkload, PlanRelease, MarkWorkloadRunning, Heartbeat,
        PlanFinish, FinishWorkload, TypeOK, AwaitPlan, Step, TryLock, Busy, Goto, args,
        meta, Probe, Unlock, SetStatus, Fault, NoFault
  <1>8. CASE FaultCommand(p)
    BY <1>8
    DEF FaultCommand, FaultControl, FaultResolve, FaultProbe, RecordFaultStart,
        ApplyFault, RecordFaultFinish, TypeOK, AwaitPlan, Step, TryLock, Busy, Goto, args,
        meta, Probe, Unlock, SetStatus, Fault, NoFault
  <1>9. CASE StopCommand(p)
    BY <1>9
    DEF StopCommand, RequestStop, Terminate, Quiesced, TypeOK, SetStatus, Goto, Fault,
        NoFault, args, meta, Step
  <1>10. CASE CleanupCommand(p)
    BY <1>10
    DEF CleanupCommand, Exclude, CleanupProbe, CleanupRuns, DropSchema, TypeOK, Step,
        TryLock, Busy, Goto, args, meta, Probe, Unlock, Fault, NoFault
  <1> QED
    BY <1>1, <1>2, <1>3, <1>4, <1>5, <1>6, <1>7, <1>8, <1>9, <1>10 DEF Act, Proceed

\* A probe gives the activity lock back before the rows are marked, and the plan
\* lock keeps everybody else from taking it in between.
LEMMA NobodyActiveStep ==
  ASSUME TypeOK, PointsOfCommands, LocksExclude, LocksCover, NobodyActiveWhileMarking,
         NEW p \in Process, Act(p), bereft' = {}
  PROVE  NobodyActiveWhileMarking'
  <1> SUFFICES ASSUME NEW q \in Process, NEW r \in Process,
                      pc'[q] = "pi_stale", "activity" \in held'[r]
               PROVE  FALSE
    BY DEF NobodyActiveWhileMarking
  <1>0. bereft = {} /\ bereft' = {}
    BY BereftGrows
  <1>1. TypeOK' /\ LocksExclude' /\ LocksCover'
    BY TypeStep, LocksExcludeStep, LocksCoverStep
  <1>2. \A u \in Process \ {p} : pc'[u] = pc[u] /\ cmd'[u] = cmd[u] /\ held'[u] = held[u]
    BY <1>0, OneProcessMoves
  <1>3. CASE pc[q] # "pi_stale"
    <2>1. q = p
      BY <1>2, <1>3
    <2>2. pc[p] = "pi_probing" /\ held'[p] = held[p] \ {"activity"}
      BY <1>3, <2>1, WhoStartsMarking
    <2>3. "activity" \in held[p] /\ r # p
      BY <1>0, <2>2 DEF LocksCover, Covered
    <2> QED
      BY <1>2, <2>3, Exclusion
  <1>4. CASE pc[q] = "pi_stale"
    <2>1. "activity" \notin held[r]
      BY <1>4 DEF NobodyActiveWhileMarking
    <2>2. r = p
      BY <1>2, <2>1
    <2>3. pc[p] \in {"pi_probe", "pi_activity", "f_probe", "c_probe"} /\ q # p
      BY <1>4, <2>1, <2>2, WhoTakesActivity
    <2>4. "plan" \in held[q] /\ "lease" \in held[q]
      BY <1>0, <1>4 DEF LocksCover, Covered, PointsOfCommands, Inside, AfterLease
    <2>5. "plan" \in held[p] \/ "lifecycle" \in held[p]
      BY <1>0, <2>3 DEF LocksCover, Covered
    <2> QED
      BY <2>3, <2>4, <2>5, Exclusion
  <1> QED
    BY <1>3, <1>4

\* Of one process: while its workload lives its row says so.
RowKept(p) ==
  /\ pc[p] \in {"pi_release", "pi_warm"} => row[p] = "preparing"
  /\ pc[p] = "pi_traffic" => row[p] = "workload_running"

\* The command of a live workload keeps its own row active.
LEMMA OwnRowKept ==
  ASSUME TypeOK, PointsOfCommands, LiveWorkloadKeepsItsRow, NEW p \in Process, Act(p)
  PROVE  RowKept(p)'
  <1>1. CASE Invoke(p)
    BY <1>1
    DEF Invoke, TypeOK, PointsOfCommands, LiveWorkloadKeepsItsRow, RowKept, Active,
        Goto, meta
  <1>2. CASE Lease(p) \/ Leave(p) \/ Reap(p)
    BY <1>2
    DEF Lease, Leave, Reap, TypeOK, PointsOfCommands, LiveWorkloadKeepsItsRow,
        RowKept, Active, AfterLease, Step, TryLock, Busy, Goto, args, meta
  <1>3. CASE GiveUp(p) \/ Dies(p) \/ LoseSession(p)
    BY <1>3
    DEF GiveUp, Dies, LoseSession, TypeOK, PointsOfCommands, LiveWorkloadKeepsItsRow,
        RowKept, Active, Fallible, Goto, Fault, args, meta, Running
  <1>4. CASE WorkEnds(p) \/ TrafficEnds(p)
    BY <1>4
    DEF WorkEnds, TrafficEnds, TypeOK, PointsOfCommands, LiveWorkloadKeepsItsRow,
        RowKept, Active, Step, Goto, args, meta
  <1>5. CASE InitCommand(p)
    BY <1>5
    DEF InitCommand, InitPlan, InitRestore, InitMutate, TypeOK, PointsOfCommands,
        LiveWorkloadKeepsItsRow, RowKept, Active, Step, TryLock, Busy, Goto, args, meta,
        Fault, NoFault
  <1>6. CASE RunCommand(p)
    BY <1>6
    DEF RunCommand, RunLock, StartRun, WatchStop, RecordRunOutcome, TypeOK,
        PointsOfCommands, LiveWorkloadKeepsItsRow, RowKept, Active, TryLock, Goto, args,
        meta, SetStatus, Fault, NoFault, Step
  <1>7. CASE PlanInitCommand(p)
    BY <1>7
    DEF PlanInitCommand, PlanControl, PlanResolve, PlanProbe, MarkWorkloadsStale,
        PlanActivity, StartWorkload, PlanRelease, MarkWorkloadRunning, Heartbeat,
        PlanFinish, FinishWorkload, TypeOK, PointsOfCommands, LiveWorkloadKeepsItsRow,
        RowKept, Active, AwaitPlan, Step, TryLock, Busy, Goto, args, meta, Probe, Unlock,
        SetStatus, Fault, NoFault
  <1>8. CASE FaultCommand(p)
    BY <1>8
    DEF FaultCommand, FaultControl, FaultResolve, FaultProbe, RecordFaultStart,
        ApplyFault, RecordFaultFinish, TypeOK, PointsOfCommands, LiveWorkloadKeepsItsRow,
        RowKept, Active, AwaitPlan, Step, TryLock, Busy, Goto, args, meta, Probe, Unlock,
        SetStatus, Fault, NoFault
  <1>9. CASE StopCommand(p)
    BY <1>9
    DEF StopCommand, RequestStop, Terminate, Quiesced, TypeOK, PointsOfCommands,
        LiveWorkloadKeepsItsRow, RowKept, Active, SetStatus, Goto, Fault, NoFault, args,
        meta, Step
  <1>10. CASE CleanupCommand(p)
    BY <1>10
    DEF CleanupCommand, Exclude, CleanupProbe, CleanupRuns, DropSchema, TypeOK,
        PointsOfCommands, LiveWorkloadKeepsItsRow, RowKept, Active, Step, TryLock, Busy,
        Goto, args, meta, Probe, Unlock, Fault, NoFault
  <1> QED
    BY <1>1, <1>2, <1>3, <1>4, <1>5, <1>6, <1>7, <1>8, <1>9, <1>10 DEF Act, Proceed

\* Nobody else marks the row of a live workload either: marking needs the plan lock
\* and an activity lock that nobody holds.
LEMMA LiveWorkloadStep ==
  ASSUME TypeOK, PointsOfCommands, LocksExclude, LocksCover, NobodyActiveWhileMarking,
         LiveWorkloadKeepsItsRow, NEW p \in Process, Act(p), bereft' = {}
  PROVE  LiveWorkloadKeepsItsRow'
  <1> SUFFICES ASSUME NEW q \in Process
               PROVE  RowKept(q)'
    BY DEF LiveWorkloadKeepsItsRow, RowKept
  <1>0. bereft = {} /\ bereft' = {}
    BY BereftGrows
  <1>1. CASE q = p
    BY <1>1, OwnRowKept
  <1>2. CASE q # p /\ pc[q] \in {"pi_release", "pi_warm", "pi_traffic"}
    <2>1. pc'[q] = pc[q]
      BY <1>2, OneProcessMoves
    <2>2. row[q] \in {"preparing", "workload_running"} /\ RowKept(q)
      BY <1>2 DEF LiveWorkloadKeepsItsRow, RowKept
    <2>3. "activity" \in held[q] /\ "lease" \in held[q]
      BY <1>0, <1>2 DEF LocksCover, Covered, PointsOfCommands, Inside, AfterLease
    <2>4. ~MarkWorkloadsStale(p)
      BY <1>2, <2>3 DEF MarkWorkloadsStale, NobodyActiveWhileMarking
    <2>5. ~DropSchema(p)
      BY <1>0, <1>2, <2>3, Exclusion DEF DropSchema, LocksCover, Covered
    <2>6. row'[q] = row[q]
      <3>1. CASE RequestStop(p)
        BY <2>2, <3>1 DEF RequestStop, SetStatus, meta
      <3> QED
        BY <1>2, <2>4, <2>5, <3>1, RowsOfOthers
    <2> QED
      BY <2>1, <2>2, <2>6 DEF RowKept
  <1>3. CASE q # p /\ pc[q] \notin {"pi_release", "pi_warm", "pi_traffic"}
    BY <1>3, OneProcessMoves DEF RowKept
  <1> QED
    BY <1>1, <1>2, <1>3

-----------------------------------------------------------------------------
(* The workload of a fault.                                                   *)

\* The scenario of a plan workload or fault never changes.
LEMMA CodeStays ==
  ASSUME TypeOK, NEW p \in Process, Act(p)
  PROVE  code' = code
  <1>1. CASE Invoke(p)
    BY <1>1
    DEF Invoke, Goto, meta
  <1>2. CASE Lease(p) \/ Leave(p) \/ Reap(p)
    BY <1>2
    DEF Lease, Leave, Reap, AfterLease, Step, TryLock, Busy, Goto, args, meta
  <1>3. CASE GiveUp(p) \/ Dies(p) \/ LoseSession(p)
    BY <1>3
    DEF GiveUp, Dies, LoseSession, Fallible, Goto, Fault, args, meta, Running
  <1>4. CASE WorkEnds(p) \/ TrafficEnds(p)
    BY <1>4
    DEF WorkEnds, TrafficEnds, Step, Goto, args, meta
  <1>5. CASE InitCommand(p)
    BY <1>5
    DEF InitCommand, InitPlan, InitRestore, InitMutate, Step, TryLock, Busy, Goto,
        args, meta, Fault, NoFault
  <1>6. CASE RunCommand(p)
    BY <1>6
    DEF RunCommand, RunLock, StartRun, WatchStop, RecordRunOutcome, TryLock, Goto,
        args, meta, SetStatus, Fault, NoFault, Step
  <1>7. CASE PlanInitCommand(p)
    BY <1>7
    DEF PlanInitCommand, PlanControl, PlanResolve, PlanProbe, MarkWorkloadsStale,
        PlanActivity, StartWorkload, PlanRelease, MarkWorkloadRunning, Heartbeat,
        PlanFinish, FinishWorkload, AwaitPlan, Step, TryLock, Busy, Goto, args, meta,
        Probe, Unlock, SetStatus, Fault, NoFault
  <1>8. CASE FaultCommand(p)
    BY <1>8
    DEF FaultCommand, FaultControl, FaultResolve, FaultProbe, RecordFaultStart,
        ApplyFault, RecordFaultFinish, AwaitPlan, Step, TryLock, Busy, Goto, args, meta,
        Probe, Unlock, SetStatus, Fault, NoFault
  <1>9. CASE StopCommand(p)
    BY <1>9
    DEF StopCommand, RequestStop, Terminate, Quiesced, SetStatus, Goto, Fault,
        NoFault, args, meta, Step
  <1>10. CASE CleanupCommand(p)
    BY <1>10
    DEF CleanupCommand, Exclude, CleanupProbe, CleanupRuns, DropSchema, Step, TryLock,
        Busy, Goto, args, meta, Probe, Unlock, Fault, NoFault
  <1> QED
    BY <1>1, <1>2, <1>3, <1>4, <1>5, <1>6, <1>7, <1>8, <1>9, <1>10 DEF Act, Proceed

\* A fault is past its check only if it resolved a workload that ran then.
LEMMA WhoChecksWorkload ==
  ASSUME TypeOK, NEW p \in Process, Act(p),
         pc'[p] \in {"f_probe", "f_record", "f_apply", "f_finish"}
  PROVE  \/ /\ pc[p] = "f_resolve" /\ \E q \in Process : Resolved(p, q)
            /\ UNCHANGED <<row, started, code>>
         \/ pc[p] \in {"f_probe", "f_record", "f_apply", "f_finish"}
  <1>1. CASE Invoke(p)
    BY <1>1
    DEF Invoke, TypeOK, Goto, meta
  <1>2. CASE Lease(p) \/ Leave(p) \/ Reap(p)
    BY <1>2
    DEF Lease, Leave, Reap, TypeOK, AfterLease, Step, TryLock, Busy, Goto, args, meta
  <1>3. CASE GiveUp(p) \/ Dies(p) \/ LoseSession(p)
    BY <1>3
    DEF GiveUp, Dies, LoseSession, TypeOK, Fallible, Goto, Fault, args, meta, Running
  <1>4. CASE WorkEnds(p) \/ TrafficEnds(p)
    BY <1>4
    DEF WorkEnds, TrafficEnds, TypeOK, Step, Goto, args, meta
  <1>5. CASE InitCommand(p)
    BY <1>5
    DEF InitCommand, InitPlan, InitRestore, InitMutate, TypeOK, Step, TryLock, Busy,
        Goto, args, meta, Fault, NoFault
  <1>6. CASE RunCommand(p)
    BY <1>6
    DEF RunCommand, RunLock, StartRun, WatchStop, RecordRunOutcome, TypeOK, TryLock,
        Goto, args, meta, SetStatus, Fault, NoFault, Step
  <1>7. CASE PlanInitCommand(p)
    BY <1>7
    DEF PlanInitCommand, PlanControl, PlanResolve, PlanProbe, MarkWorkloadsStale,
        PlanActivity, StartWorkload, PlanRelease, MarkWorkloadRunning, Heartbeat,
        PlanFinish, FinishWorkload, TypeOK, AwaitPlan, Step, TryLock, Busy, Goto, args,
        meta, Probe, Unlock, SetStatus, Fault, NoFault
  <1>8. CASE FaultCommand(p)
    BY <1>8
    DEF FaultCommand, FaultControl, FaultResolve, FaultProbe, RecordFaultStart,
        ApplyFault, RecordFaultFinish, TypeOK, AwaitPlan, Step, TryLock, Busy, Goto, args,
        meta, Probe, Unlock, SetStatus, Fault, NoFault
  <1>9. CASE StopCommand(p)
    BY <1>9
    DEF StopCommand, RequestStop, Terminate, Quiesced, TypeOK, SetStatus, Goto, Fault,
        NoFault, args, meta, Step
  <1>10. CASE CleanupCommand(p)
    BY <1>10
    DEF CleanupCommand, Exclude, CleanupProbe, CleanupRuns, DropSchema, TypeOK, Step,
        TryLock, Busy, Goto, args, meta, Probe, Unlock, Fault, NoFault
  <1> QED
    BY <1>1, <1>2, <1>3, <1>4, <1>5, <1>6, <1>7, <1>8, <1>9, <1>10 DEF Act, Proceed

\* Rows become active, and a workload that runs stops doing so, only under the plan
\* lock or with the schema.
LEMMA WorkloadRowsStay ==
  ASSUME TypeOK, PointsOfCommands, RowsOfCommands, NEW p \in Process, Act(p),
         NEW q \in Process, row[q] = "workload_running"
  PROVE  \/ StartWorkload(p) \/ MarkWorkloadsStale(p)
         \/ FinishWorkload(p) \/ DropSchema(p)
         \/ /\ started' = started /\ row'[q] = "workload_running"
            /\ \A r \in Process : Active(r)' => Active(r)
  <1>1. CASE Invoke(p)
    BY <1>1
    DEF Invoke, TypeOK, PointsOfCommands, RowsOfCommands, Active, Goto, meta
  <1>2. CASE Lease(p) \/ Leave(p) \/ Reap(p)
    BY <1>2
    DEF Lease, Leave, Reap, TypeOK, PointsOfCommands, RowsOfCommands, Active,
        AfterLease, Step, TryLock, Busy, Goto, args, meta
  <1>3. CASE GiveUp(p) \/ Dies(p) \/ LoseSession(p)
    BY <1>3
    DEF GiveUp, Dies, LoseSession, TypeOK, PointsOfCommands, RowsOfCommands, Active,
        Fallible, Goto, Fault, args, meta, Running
  <1>4. CASE WorkEnds(p) \/ TrafficEnds(p)
    BY <1>4
    DEF WorkEnds, TrafficEnds, TypeOK, PointsOfCommands, RowsOfCommands, Active, Step,
        Goto, args, meta
  <1>5. CASE InitCommand(p)
    BY <1>5
    DEF InitCommand, InitPlan, InitRestore, InitMutate, TypeOK, PointsOfCommands,
        RowsOfCommands, Active, Step, TryLock, Busy, Goto, args, meta, Fault, NoFault
  <1>6. CASE RunCommand(p)
    BY <1>6
    DEF RunCommand, RunLock, StartRun, WatchStop, RecordRunOutcome, TypeOK,
        PointsOfCommands, RowsOfCommands, Active, TryLock, Goto, args, meta, SetStatus,
        Fault, NoFault, Step
  <1>7. CASE PlanInitCommand(p)
    <2>1. CASE MarkWorkloadsStale(p)
      BY <2>1
    <2>2. CASE StartWorkload(p)
      BY <2>2
    <2>3. CASE FinishWorkload(p)
      BY <2>3
    <2>4. CASE PlanControl(p) \/ PlanResolve(p) \/ PlanProbe(p) \/ PlanActivity(p)
            \/ PlanRelease(p) \/ MarkWorkloadRunning(p)
            \/ Heartbeat(p) \/ PlanFinish(p)
      BY <2>4
      DEF PlanControl, PlanResolve, PlanProbe, PlanActivity, PlanRelease,
          MarkWorkloadRunning, Heartbeat, PlanFinish, TypeOK, PointsOfCommands,
          RowsOfCommands, Active, AwaitPlan, Step, TryLock, Busy, Goto, args, meta, Probe,
          Unlock, SetStatus, Fault, NoFault
    <2> QED
      BY <1>7, <2>1, <2>2, <2>3, <2>4 DEF PlanInitCommand
  <1>8. CASE FaultCommand(p)
    BY <1>8
    DEF FaultCommand, FaultControl, FaultResolve, FaultProbe, RecordFaultStart,
        ApplyFault, RecordFaultFinish, TypeOK, PointsOfCommands, RowsOfCommands, Active,
        AwaitPlan, Step, TryLock, Busy, Goto, args, meta, Probe, Unlock, SetStatus, Fault,
        NoFault
  <1>9. CASE StopCommand(p)
    BY <1>9
    DEF StopCommand, RequestStop, Terminate, Quiesced, TypeOK, PointsOfCommands,
        RowsOfCommands, Active, SetStatus, Goto, Fault, NoFault, args, meta, Step
  <1>10. CASE CleanupCommand(p)
    <2>1. CASE DropSchema(p)
      BY <2>1
    <2>2. CASE Exclude(p) \/ CleanupProbe(p) \/ CleanupRuns(p)
      BY <2>2
      DEF Exclude, CleanupProbe, CleanupRuns, TypeOK, PointsOfCommands,
          RowsOfCommands, Active, Step, TryLock, Busy, Goto, args, meta, Probe, Unlock
    <2> QED
      BY <1>10, <2>1, <2>2 DEF CleanupCommand
  <1> QED
    BY <1>1, <1>2, <1>3, <1>4, <1>5, <1>6, <1>7, <1>8, <1>9, <1>10 DEF Act, Proceed

\* The plan lock, and the lease against the drop, keep the workload of a fault as
\* the fault found it.
LEMMA FaultWorkloadStep ==
  ASSUME TypeOK, PointsOfCommands, LocksExclude, LocksCover, RowsOfCommands,
         FaultKeepsItsWorkload, NEW p \in Process, Act(p), bereft' = {}
  PROVE  FaultKeepsItsWorkload'
  <1> SUFFICES ASSUME NEW f \in Process,
                      pc'[f] \in {"f_probe", "f_record", "f_apply", "f_finish"}
               PROVE  \E q \in Process : Resolved(f, q)'
    BY DEF FaultKeepsItsWorkload
  <1>0. bereft = {} /\ bereft' = {}
    BY BereftGrows
  <1>1. code' = code
    BY CodeStays
  <1>2. CASE f = p /\ pc[p] = "f_resolve"
    BY <1>1, <1>2, WhoChecksWorkload DEF Resolved, Newest, Active
  <1>3. CASE ~(f = p /\ pc[p] = "f_resolve")
    <2>1. pc[f] \in {"f_probe", "f_record", "f_apply", "f_finish"}
      BY <1>3, OneProcessMoves, WhoChecksWorkload
    <2>2. PICK q \in Process : Resolved(f, q)
      BY <2>1 DEF FaultKeepsItsWorkload
    <2>3. row[q] = "workload_running" /\ Newest(q) /\ code[q] = code[f]
      BY <2>2 DEF Resolved
    <2>4. "plan" \in held[f] /\ "lease" \in held[f]
      BY <1>0, <2>1 DEF LocksCover, Covered, PointsOfCommands, Inside, AfterLease
    <2>5. /\ ~StartWorkload(p) /\ ~MarkWorkloadsStale(p)
          /\ ~FinishWorkload(p) /\ ~DropSchema(p)
      <3>1. ASSUME pc[p] \in {"pi_start", "pi_stale", "pi_record", "c_drop"}
            PROVE  FALSE
        <4>1. p # f
          BY <2>1, <3>1
        <4>2. "plan" \in held[p] \/ "lifecycle" \in held[p]
          BY <1>0, <3>1 DEF LocksCover, Covered
        <4> QED
          BY <2>4, <4>1, <4>2, Exclusion
      <3> QED
        BY <3>1 DEF StartWorkload, MarkWorkloadsStale, FinishWorkload, DropSchema
    <2>6. /\ started' = started /\ row'[q] = "workload_running"
          /\ \A r \in Process : Active(r)' => Active(r)
      BY <2>3, <2>5, WorkloadRowsStay
    <2>7. Newest(q)'
      BY <2>3, <2>6 DEF Newest, Active
    <2> QED
      BY <1>1, <2>3, <2>6, <2>7 DEF Resolved
  <1> QED
    BY <1>2, <1>3

-----------------------------------------------------------------------------
(* The theorems.                                                              *)

\* The inductive invariant holds at the start.
LEMMA CommandsInvInit == Init => CommandsInv
  <1> SUFFICES ASSUME Init
               PROVE  CommandsInv
    OBVIOUS
  <1>1. TypeOK
    BY TypeInit
  <1> QED
    BY <1>1
    DEF CommandsInv, Init, PointsOfCommands, LocksExclude, LocksCover, Covered, Inside,
        AfterLease, RowsOfCommands, NobodyActiveWhileMarking, LiveWorkloadKeepsItsRow,
        FaultKeepsItsWorkload

\* Every step of every process preserves the inductive invariant.
LEMMA CommandsInvStep ==
  ASSUME CommandsInv, [Next]_vars
  PROVE  CommandsInv'
  <1>1. ASSUME NEW p \in Process, Act(p)
        PROVE  CommandsInv'
    <2>1. TypeOK' /\ PointsOfCommands' /\ LocksExclude' /\ LocksCover' /\ RowsOfCommands'
      BY <1>1, TypeStep, PointsStep, LocksExcludeStep, LocksCoverStep, RowsStep DEF CommandsInv
    <2>2. ASSUME bereft' = {}
          PROVE  NobodyActiveWhileMarking' /\ LiveWorkloadKeepsItsRow' /\ FaultKeepsItsWorkload'
      <3>1. bereft = {}
        BY <1>1, <2>2, BereftGrows DEF CommandsInv
      <3> QED
        BY <1>1, <2>2, <3>1, NobodyActiveStep, LiveWorkloadStep, FaultWorkloadStep DEF CommandsInv
    <2> QED
      BY <2>1, <2>2 DEF CommandsInv
  <1>2. CASE UNCHANGED vars
    BY <1>2
    DEF vars, CommandsInv, TypeOK, PointsOfCommands, LocksExclude, LocksCover, Covered,
        Inside, RowsOfCommands, NobodyActiveWhileMarking, LiveWorkloadKeepsItsRow,
        FaultKeepsItsWorkload, Resolved, Newest, Active
  <1>3. CASE Next
    BY <1>1, <1>3 DEF Next, Act
  <1> QED
    BY <1>2, <1>3

\* Types: whatever the server drops and whoever terminates whose sessions, every
\* variable holds a value of its kind.
THEOREM TypesHold == Spec => []TypeOK
  <1>1. TypeOK /\ [Next]_vars => TypeOK'
    <2> SUFFICES ASSUME TypeOK, [Next]_vars
                 PROVE  TypeOK'
      OBVIOUS
    <2>1. CASE UNCHANGED vars
      BY <2>1 DEF vars, TypeOK
    <2>2. CASE Next
      BY <2>2, TypeStep DEF Next, Act
    <2> QED
      BY <2>1, <2>2
  <1> QED
    BY TypeInit, <1>1, PTL DEF Spec

\* The inductive invariant, whatever the sessions are named and the server drops.
THEOREM CommandsInvHolds == Spec => []CommandsInv
  <1>1. CommandsInv /\ [Next]_vars => CommandsInv'
    BY CommandsInvStep
  <1> QED
    BY CommandsInvInit, <1>1, PTL DEF Spec

\* cleanup --data drops the schema while another command is between its lease and
\* its exit only if one of the two has lost a lock session, to the server or to the
\* termination of tagged sessions, however many commands run, fail and die.
THEOREM DropIsAlone == Spec => []DropMeetsOnlyBereft
  <1>1. CommandsInv => DropMeetsOnlyBereft
    <2> SUFFICES ASSUME CommandsInv, NEW p \in Process, NEW q \in Process,
                        pc[p] = "c_drop", Inside(q), p \notin bereft, q \notin bereft
                 PROVE  FALSE
      BY DEF DropMeetsOnlyBereft
    <2>1. "lifecycle" \in held[p] /\ "lease" \in held[q]
      BY DEF CommandsInv, LocksCover, Covered
    <2>2. p # q
      BY DEF CommandsInv, PointsOfCommands, Inside, AfterLease
    <2> QED
      BY <2>1, <2>2, Exclusion DEF CommandsInv
  <1> QED
    BY <1>1, CommandsInvHolds, PTL

\* Of commands that keep their lock sessions, initialization and faults do not change
\* the schema at once and no probe makes a workload be refused; and while all of them
\* do, a live workload keeps its row and a fault its workload.
THEOREM CommandsStayApart == Spec => []CommandsApart
  <1>1. CommandsInv => MutatorsApart
    <2> SUFFICES ASSUME CommandsInv, NEW p \in Process \ bereft, NEW q \in Process \ bereft,
                        pc[p] = "init_mutate",
                        pc[q] \in {"init_mutate", "f_apply", "pi_stale", "pi_start"}
                 PROVE  p = q
      BY DEF MutatorsApart
    <2>1. "plan" \in held[p] /\ "plan" \in held[q]
      BY DEF CommandsInv, LocksCover, Covered
    <2> QED
      BY <2>1, Exclusion DEF CommandsInv
  <1>2. CommandsInv => ProbeNeverRefuses
    <2> SUFFICES ASSUME CommandsInv, NEW p \in Process \ bereft, NEW q \in Process \ bereft,
                        pc[p] = "pi_activity",
                        pc[q] \in {"pi_probing", "f_probing", "c_probing"}
                 PROVE  FALSE
      BY DEF ProbeNeverRefuses
    <2>1. "plan" \in held[p] /\ "lease" \in held[p]
      BY DEF CommandsInv, LocksCover, Covered, PointsOfCommands, Inside, AfterLease
    <2>2. "plan" \in held[q] \/ "lifecycle" \in held[q]
      BY DEF CommandsInv, LocksCover, Covered
    <2> QED
      BY <2>1, <2>2, Exclusion DEF CommandsInv
  <1>3. CommandsInv => CommandsApart
    BY <1>1, <1>2 DEF CommandsInv, CommandsApart
  <1> QED
    BY <1>3, CommandsInvHolds, PTL
=============================================================================
