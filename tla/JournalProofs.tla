---------------------------- MODULE JournalProofs ----------------------------
(* Theorems about Journal, for any number of actions, restorers and faults.   *)
EXTENDS Journal, TLAPS

-----------------------------------------------------------------------------
(* The inductive invariant.  A row is planned before its statement can run,   *)
(* restorers work only while no forward statement can, and the one row they   *)
(* are about to call restored belongs to a target at baseline.                *)

RunRecorded == runPc \in {"apply", "failed", "applied"} => Pending(current)

RestoringDrained ==
  \A r \in Restorer :
    /\ pc[r] # "idle" => runPc = "over"
    /\ pc[r] \notin {"idle", "drain"} => Drained

MarkedAtBaseline ==
  \A r \in Restorer : \A a \in Action :
    pc[r] = "mark" /\ Turn(r, a) => world[a] = "baseline"

JournalInv ==
  TypeOK /\ WriteAhead /\ RunRecorded /\ RestoringDrained /\ MarkedAtBaseline

\* Before the run no row exists and nobody restores.
LEMMA JournalInvInit == Init => JournalInv
  <1> SUFFICES ASSUME Init PROVE JournalInv
    OBVIOUS
  <1>1. TypeOK
    BY JournalConstants DEF Init, TypeOK, Action, State, Direction, RestorePoint
  <1>2. WriteAhead /\ RunRecorded /\ RestoringDrained /\ MarkedAtBaseline
    BY DEF Init, WriteAhead, MayBeForward, RunRecorded, RestoringDrained,
           MarkedAtBaseline
  <1> QED
    BY <1>1, <1>2 DEF JournalInv

-----------------------------------------------------------------------------
(* Steps of the run: no restorer is at work.                                  *)

\* A fault is counted within its bound.
LEMMA FaultCounted ==
  ASSUME TypeOK, Fault
  PROVE  faults' \in 0..MaxFaults
  BY JournalConstants DEF TypeOK, Fault

\* The steps of the run and its faults give every variable a value of its kind.
LEMMA RunTypeOK ==
  ASSUME TypeOK, Run \/ RunFault
  PROVE  TypeOK'
  <1> USE JournalConstants DEF TypeOK, restorerVars, SetState, SetStateFails,
                               State, Direction
  <1>1. CASE Run
    <2>1. CASE InsertPlanned \/ Apply \/ RetainPlanned
      BY <2>1 DEF InsertPlanned, Apply, RetainPlanned
    <2>2. CASE MarkApplied
      <3>1. current < N => current + 1 \in Action
        BY <2>2 DEF MarkApplied, Action
      <3> QED
        BY <2>2, <3>1 DEF MarkApplied
    <2> QED
      BY <1>1, <2>1, <2>2 DEF Run
  <1>2. CASE RunFault
    BY <1>2, FaultCounted DEF RunFault, InsertFails, ApplyFails, MarkAppliedFails,
      RunEnds
  <1> QED
    BY <1>1, <1>2

\* The run records an action as planned before it sends the action's statement.
LEMMA RunKeepsJournalInv ==
  ASSUME JournalInv, Run \/ RunFault
  PROVE  JournalInv'
  <1>a. TypeOK /\ WriteAhead /\ RunRecorded /\ RestoringDrained /\ MarkedAtBaseline
    BY DEF JournalInv
  <1>1. TypeOK'
    BY <1>a, RunTypeOK
  <1>2. runPc # "over" /\ current \in Action
    BY <1>a DEF TypeOK, Run, RunFault, InsertPlanned, Apply, RetainPlanned,
                MarkApplied, InsertFails, ApplyFails, MarkAppliedFails, RunEnds
  <1>3. (\A r \in Restorer : pc[r] = "idle") /\ pc' = pc
    BY <1>2, <1>a DEF RestoringDrained, Drained, restorerVars, Run, RunFault,
         InsertPlanned, Apply, RetainPlanned, MarkApplied, InsertFails,
         ApplyFails, MarkAppliedFails, RunEnds
  <1>4. RestoringDrained' /\ MarkedAtBaseline'
    BY <1>3 DEF RestoringDrained, MarkedAtBaseline
  <1>5. WriteAhead' /\ RunRecorded'
    <2> USE <1>a, <1>2 DEF TypeOK, WriteAhead, MayBeForward, RunRecorded, Pending,
                           SetState, SetStateFails
    <2>1. CASE InsertPlanned \/ InsertFails
      BY <2>1 DEF InsertPlanned, InsertFails
    <2>2. CASE Apply \/ ApplyFails
      BY <2>2 DEF Apply, ApplyFails
    <2>3. CASE RetainPlanned \/ MarkApplied \/ MarkAppliedFails
      BY <2>3 DEF RetainPlanned, MarkApplied, MarkAppliedFails
    <2>4. CASE RunEnds
      BY <2>4 DEF RunEnds
    <2> QED
      BY <2>1, <2>2, <2>3, <2>4 DEF Run, RunFault
  <1> QED
    BY <1>1, <1>4, <1>5 DEF JournalInv

\* A statement without a client ends.
LEMMA LateKeepsJournalInv ==
  ASSUME JournalInv, LateStatement
  PROVE  JournalInv'
  <1>a. TypeOK /\ WriteAhead /\ RunRecorded /\ RestoringDrained /\ MarkedAtBaseline
    BY DEF JournalInv
  <1>1. PICK s \in late :
          /\ late' = late \ {s}
          /\ \/ world' = [world EXCEPT ![s[1]] =
                            IF s[2] = "forward" THEN "forward" ELSE "baseline"]
             \/ world' = world
          /\ UNCHANGED <<row, runVars, restorerVars, faults>>
    BY DEF LateStatement
  <1>2. /\ s[1] \in Action /\ s[2] \in Direction /\ s = <<s[1], s[2]>>
    BY <1>a DEF TypeOK
  <1>3. TypeOK'
    BY <1>a, <1>1, <1>2 DEF TypeOK, runVars, restorerVars
  <1>4. \A a \in Action : MayBeForward(a)' => MayBeForward(a)
    BY <1>a, <1>1, <1>2 DEF TypeOK, MayBeForward, Direction
  <1>5. WriteAhead' /\ RunRecorded' /\ RestoringDrained'
    BY <1>a, <1>1, <1>4 DEF WriteAhead, RunRecorded, RestoringDrained, Drained,
                            Pending, runVars, restorerVars
  <1>6. MarkedAtBaseline'
    <2> SUFFICES ASSUME NEW r \in Restorer, NEW a \in Action,
                        pc[r] = "mark", Turn(r, a)
                 PROVE  world'[a] = "baseline"
      BY <1>1 DEF MarkedAtBaseline, Turn, restorerVars
    <2>1. world[a] = "baseline" /\ <<a, "forward">> \notin late
      BY <1>a DEF MarkedAtBaseline, RestoringDrained, Drained
    <2> QED
      BY <2>1, <1>1, <1>2, <1>a DEF TypeOK, Direction
  <1> QED
    BY <1>3, <1>5, <1>6 DEF JournalInv

-----------------------------------------------------------------------------
(* Steps of a restorer at work on action a.                                   *)

\* What such a step may do to the row, the target and the statements of a, and
\* to the restorer itself: everything else is as it was.
RowEffect(r, a) ==
  \/ row' = row
  \/ row' = [row EXCEPT ![a] = "restoring"]
  \/ row' = [row EXCEPT ![a] = "restore_failed"]
  \/ pc[r] = "mark" /\ row' = [row EXCEPT ![a] = "restored"]

TargetEffect(a) ==
  /\ world' = world \/ world' = [world EXCEPT ![a] = "baseline"]
  /\ late' = late \/ late' = late \cup {<<a, "inverse">>}

ListEffect(r, a) ==
  \/ /\ \E p \in {"claimed", "inverse", "verify", "mark", "failed"} :
          pc' = [pc EXCEPT ![r] = p]
     /\ UNCHANGED <<snap, todo>>
     /\ pc'[r] = "mark" => world'[a] = "baseline"
  \/ /\ \E p \in {"idle", "claim"} : pc' = [pc EXCEPT ![r] = p]
     /\ todo' = [todo EXCEPT ![r] = @ \ {a}]
     /\ \/ snap' = snap
        \/ snap' = [snap EXCEPT ![r] = [b \in Action |-> "none"]]

\* What a step of a restorer may do to the row, the target and the lists.
LEMMA RestorerEffect ==
  ASSUME TypeOK, NEW r \in Restorer, NEW a \in Action, Turn(r, a),
         RestoreStep(r, a) \/ RestoreFault(r, a)
  PROVE  /\ pc[r] \notin {"idle", "drain"}
         /\ UNCHANGED runVars
         /\ RowEffect(r, a) /\ TargetEffect(a) /\ ListEffect(r, a)
         /\ row' = row \/ UNCHANGED <<world, late>>
         /\ faults' \in 0..MaxFaults
  <1> USE DEF TypeOK, SetState, SetStateFails, Goto, Advance, runVars,
          RowEffect, TargetEffect, ListEffect
  <1>1. CASE Claim(r, a) \/ ClaimLost(r, a)
    BY <1>1 DEF Claim, ClaimLost
  <1>2. CASE AlreadyRestored(r, a) \/ NeedsInverse(r, a)
    BY <1>2, FaultCounted DEF AlreadyRestored, NeedsInverse
  <1>3. CASE Inverse(r, a) \/ InverseRefused(r, a) \/ InverseFails(r, a)
    BY <1>3, FaultCounted DEF Inverse, InverseRefused, InverseFails
  <1>4. CASE Verify(r, a) \/ VerifyFails(r, a)
    <2>1. CASE Verify(r, a) /\ world[a] = "baseline"
      BY <2>1 DEF Verify
    <2>2. CASE Verify(r, a) /\ world[a] # "baseline"
      BY <2>2 DEF Verify
    <2>3. CASE VerifyFails(r, a)
      BY <2>3, FaultCounted DEF VerifyFails
    <2> QED
      BY <1>4, <2>1, <2>2, <2>3
  <1>5. CASE MarkRestored(r, a) \/ MarkRestoreFailed(r, a)
    BY <1>5 DEF MarkRestored, MarkRestoreFailed
  <1>6. CASE PreflightFails(r, a) \/ ClaimFails(r, a)
    BY <1>6, FaultCounted DEF PreflightFails, ClaimFails
  <1>7. CASE MarkRestoredFails(r, a) \/ MarkRestoreFailedFails(r, a)
    BY <1>7, FaultCounted DEF MarkRestoredFails, MarkRestoreFailedFails
  <1> QED
    BY <1>1, <1>2, <1>3, <1>4, <1>5, <1>6, <1>7 DEF RestoreStep, RestoreFault

\* A restorer marks a row restored only when its target is at baseline.
LEMMA RestorerKeepsJournalInv ==
  ASSUME JournalInv, NEW r \in Restorer, NEW a \in Action, Turn(r, a),
         RestoreStep(r, a) \/ RestoreFault(r, a)
  PROVE  JournalInv'
  <1>a. TypeOK /\ WriteAhead /\ RunRecorded /\ RestoringDrained /\ MarkedAtBaseline
    BY DEF JournalInv
  <1>b. /\ pc[r] \notin {"idle", "drain"}
        /\ UNCHANGED runVars
        /\ RowEffect(r, a) /\ TargetEffect(a) /\ ListEffect(r, a)
        /\ faults' \in 0..MaxFaults
    BY <1>a, RestorerEffect
  <1>1. Drained /\ Drained'
    <2>1. Drained
      BY <1>a, <1>b DEF RestoringDrained
    <2>2. late' \subseteq late \cup {<<a, "inverse">>}
      BY <1>b DEF TargetEffect
    <2>3. \A b \in Action : <<b, "forward">> # <<a, "inverse">>
      OBVIOUS
    <2>4. \A b \in Action : <<b, "forward">> \notin late'
      BY <2>1, <2>2, <2>3 DEF Drained
    <2> QED
      BY <2>1, <2>4, <1>b DEF Drained, runVars
  <1>2. TypeOK'
    <2>1. row' \in [Action -> State \cup {"none"}]
      BY <1>a, <1>b DEF RowEffect, TypeOK, State
    <2>2. world' \in [Action -> {"baseline", "forward"}]
      BY <1>a, <1>b DEF TargetEffect, TypeOK
    <2>3. late' \subseteq Action \X Direction
      BY <1>a, <1>b DEF TargetEffect, TypeOK, Direction
    <2>4. pc' \in [Restorer -> RestorePoint]
      BY <1>a, <1>b DEF ListEffect, TypeOK, RestorePoint
    <2>5. snap' \in [Restorer -> [Action -> State \cup {"none"}]]
      BY <1>a, <1>b DEF ListEffect, TypeOK
    <2>6. todo' \in [Restorer -> SUBSET Action]
      BY <1>a, <1>b DEF ListEffect, TypeOK
    <2> QED
      BY <2>1, <2>2, <2>3, <2>4, <2>5, <2>6, <1>a, <1>b DEF TypeOK, runVars
  <1>3. \A b \in Action : MayBeForward(b)' => world[b] = "forward" /\ world'[b] = world[b]
    BY <1>1, <1>a, <1>b DEF RowEffect, TargetEffect, ListEffect, MayBeForward, Drained,
      TypeOK
  <1>4. WriteAhead'
    <2> SUFFICES ASSUME NEW b \in Action, MayBeForward(b)' PROVE Pending(b)'
      BY DEF WriteAhead
    <2>1. Pending(b) /\ world[b] = "forward"
      BY <1>3, <1>a DEF WriteAhead, MayBeForward
    <2>2. a = b => pc[r] # "mark"
      BY <2>1, <1>a DEF MarkedAtBaseline
    <2> QED
      BY <2>1, <2>2, <1>a, <1>b DEF RowEffect, TargetEffect, ListEffect, Pending, TypeOK
  <1>5. RunRecorded' /\ RestoringDrained'
    BY <1>1 DEF RunRecorded, RestoringDrained, Drained
  <1>6. MarkedAtBaseline'
    <2> SUFFICES ASSUME NEW s \in Restorer, NEW b \in Action,
                        pc'[s] = "mark", Turn(s, b)'
                 PROVE  world'[b] = "baseline"
      BY DEF MarkedAtBaseline
    <2>1. CASE s # r
      <3>1. pc[s] = "mark" /\ Turn(s, b)
        BY <2>1, <1>a, <1>b DEF RowEffect, TargetEffect, ListEffect, TypeOK, Turn
      <3> QED
        BY <3>1, <1>a, <1>b DEF RowEffect, TargetEffect, ListEffect, MarkedAtBaseline,
          TypeOK
    <2>2. CASE s = r
      <3>1. todo' = todo /\ world'[a] = "baseline"
        BY <2>2, <1>a, <1>b DEF RowEffect, TargetEffect, ListEffect, TypeOK
      <3>2. a = b
        BY <2>2, <3>1 DEF Turn, Action
      <3> QED
        BY <3>1, <3>2
    <2> QED
      BY <2>1, <2>2
  <1> QED
    BY <1>2, <1>4, <1>5, <1>6 DEF JournalInv

\* A restorer reads its list, waits for the sessions, or dies.
LEMMA ListKeepsJournalInv ==
  ASSUME JournalInv, NEW r \in Restorer,
         Discover(r) \/ StopTaggedSessions(r) \/ RestorerDies(r)
  PROVE  JournalInv'
  <1>a. TypeOK /\ WriteAhead /\ RunRecorded /\ RestoringDrained /\ MarkedAtBaseline
    BY DEF JournalInv
  <1>1. /\ UNCHANGED <<row, world, runVars>>
        /\ late' = late \/ \E a \in todo[r] : late' = late \cup {<<a, "inverse">>}
        /\ \E p \in {"idle", "drain", "claim"} :
             /\ pc' = [pc EXCEPT ![r] = p]
             /\ p # "idle" => runPc = "over"
             /\ p = "claim" => Drained
        /\ \E t \in SUBSET Action : todo' = [todo EXCEPT ![r] = t]
        /\ \E n \in [Action -> State \cup {"none"}] : snap' = [snap EXCEPT ![r] = n]
        /\ faults' \in 0..MaxFaults
    <2>1. CASE Discover(r)
      BY <2>1, <1>a DEF Discover, TypeOK
    <2>2. CASE StopTaggedSessions(r)
      <3>1. /\ todo[r] \in SUBSET Action /\ todo' = [todo EXCEPT ![r] = todo[r]]
            /\ snap[r] \in [Action -> State \cup {"none"}]
            /\ snap' = [snap EXCEPT ![r] = snap[r]]
        BY <2>2, <1>a DEF StopTaggedSessions, TypeOK
      <3> QED
        BY <2>2, <3>1, <1>a DEF StopTaggedSessions, Drained, TypeOK
    <2>3. CASE RestorerDies(r)
      BY <2>3, <1>a, FaultCounted DEF RestorerDies, TypeOK
    <2> QED
      BY <2>1, <2>2, <2>3
  <1>2. todo[r] \subseteq Action
    BY <1>a DEF TypeOK
  <1>3. TypeOK'
    <2>1. late' \subseteq Action \X Direction
      BY <1>a, <1>1, <1>2 DEF TypeOK, Direction
    <2>2. /\ pc' \in [Restorer -> RestorePoint]
          /\ snap' \in [Restorer -> [Action -> State \cup {"none"}]]
          /\ todo' \in [Restorer -> SUBSET Action]
      BY <1>a, <1>1 DEF TypeOK, RestorePoint
    <2> QED
      BY <1>a, <1>1, <2>1, <2>2 DEF TypeOK, runVars
  <1>4. \A b \in Action : <<b, "forward">> \in late' <=> <<b, "forward">> \in late
    BY <1>1
  <1>5. Drained' <=> Drained
    BY <1>1, <1>4 DEF Drained, runVars
  <1>6. \A b \in Action : MayBeForward(b)' => MayBeForward(b)
    BY <1>1, <1>4 DEF MayBeForward
  <1>7. WriteAhead' /\ RunRecorded' /\ RestoringDrained'
    <2>1. WriteAhead' /\ RunRecorded'
      BY <1>a, <1>1, <1>6 DEF WriteAhead, RunRecorded, Pending, runVars
    <2>2. RestoringDrained'
      BY <1>a, <1>1, <1>5 DEF RestoringDrained, TypeOK, runVars
    <2> QED
      BY <2>1, <2>2
  <1>8. MarkedAtBaseline'
    <2> SUFFICES ASSUME NEW s \in Restorer, NEW b \in Action,
                        pc'[s] = "mark", Turn(s, b)'
                 PROVE  world[b] = "baseline"
      BY <1>1 DEF MarkedAtBaseline
    <2>1. s # r
      BY <1>1, <1>a DEF TypeOK
    <2>2. pc[s] = "mark" /\ Turn(s, b)
      BY <2>1, <1>1, <1>a DEF TypeOK, Turn
    <2> QED
      BY <2>2, <1>a DEF MarkedAtBaseline
  <1> QED
    BY <1>3, <1>7, <1>8 DEF JournalInv

-----------------------------------------------------------------------------

\* Every step, of the run, of a late statement or of a restorer, keeps the
\* invariant.
LEMMA JournalInvNext == JournalInv /\ [Next]_vars => JournalInv'
  <1> SUFFICES ASSUME JournalInv, [Next]_vars PROVE JournalInv'
    OBVIOUS
  <1>1. CASE Run \/ RunFault
    BY <1>1, RunKeepsJournalInv
  <1>2. CASE LateStatement
    BY <1>2, LateKeepsJournalInv
  <1>3. ASSUME NEW r \in Restorer,
               Discover(r) \/ StopTaggedSessions(r) \/ RestorerDies(r)
        PROVE  JournalInv'
    BY <1>3, ListKeepsJournalInv
  <1>4. ASSUME NEW r \in Restorer, NEW a \in Action, Turn(r, a),
               RestoreStep(r, a) \/ RestoreFault(r, a)
        PROVE  JournalInv'
    BY <1>4, RestorerKeepsJournalInv
  <1>5. CASE UNCHANGED vars
    BY <1>5 DEF vars, restorerVars, runVars, JournalInv, TypeOK, WriteAhead,
      MayBeForward,
                RunRecorded, RestoringDrained, Drained, MarkedAtBaseline, Pending, Turn
  <1> QED
    BY <1>1, <1>2, <1>3, <1>4, <1>5 DEF Next, RestoreActions

\* The types, and write-ahead: no changed target without an unrestored row, in
\* any run of the protocol, whatever fails.
THEOREM JournalSafety == Spec => []JournalSafe
  <1>1. JournalInv => JournalSafe
    BY DEF JournalInv, JournalSafe
  <1> QED
    BY <1>1, JournalInvInit, JournalInvNext, PTL DEF Spec

-----------------------------------------------------------------------------
(* The claim.                                                                 *)

\* Once a restorer has claimed an action no state of the run comes back to its row.
ClaimedRows ==
  \A r \in Restorer : \A a \in Action :
    Inverting(r, a) => row[a] \in {"restoring", "restore_failed", "restored"}

ClaimInv == JournalInv /\ ClaimedRows /\ ClaimExclusive

\* What other restorers have in hand is not touched, and where a restorer comes past
\* the claim it found the row as it had read it.
LEMMA ClaimEffect ==
  ASSUME TypeOK, NEW r \in Restorer, NEW a \in Action, Turn(r, a),
         RestoreStep(r, a) \/ RestoreFault(r, a)
  PROVE  /\ row' = row \/ \E s \in {"restoring", "restore_failed", "restored"} :
                            row' = [row EXCEPT ![a] = s]
         /\ \A s \in Restorer \ {r} :
              pc'[s] = pc[s] /\ snap'[s] = snap[s] /\ todo'[s] = todo[s]
         /\ pc'[r] \in {"claimed", "inverse"} =>
              /\ snap'[r] = snap[r] /\ todo'[r] = todo[r]
              /\ \/ pc[r] = "claimed" /\ row' = row
                 \/ row[a] = snap[r][a] /\ row'[a] = "restoring"
  <1> USE DEF TypeOK, Turn, Goto, Advance, SetState, SetStateFails
  <1>1. CASE RestoreStep(r, a)
    BY <1>1 DEF RestoreStep, Claim, ClaimLost, AlreadyRestored, NeedsInverse, Inverse,
       InverseRefused, Verify, MarkRestored, MarkRestoreFailed
  <1>2. CASE RestoreFault(r, a)
    BY <1>2 DEF RestoreFault, PreflightFails, ClaimFails, InverseFails, VerifyFails,
       MarkRestoredFails, MarkRestoreFailedFails
  <1> QED
    BY <1>1, <1>2

\* Two restorers that read an action before it was claimed do not both claim it: the
\* second one finds a row that is not what it read.
LEMMA RestorerKeepsClaims ==
  ASSUME ClaimInv, NEW r \in Restorer, NEW a \in Action, Turn(r, a),
         RestoreStep(r, a) \/ RestoreFault(r, a)
  PROVE  ClaimedRows' /\ ClaimExclusive'
  <1>a. TypeOK
    BY DEF ClaimInv, JournalInv
  <1>1. \A b \in Action : Turn(r, b) => b = a
    BY <1>a DEF Turn, TypeOK, Action
  <1>2. \A s \in Restorer \ {r} : \A b \in Action : Inverting(s, b)' <=> Inverting(s, b)
    BY <1>a, ClaimEffect DEF Inverting, Turn
  <1>3. \A b \in Action : Inverting(r, b)' =>
          /\ b = a
          /\ snap'[r] = snap[r]
          /\ \/ Inverting(r, a) /\ row' = row
             \/ row[a] = snap[r][a] /\ row'[a] = "restoring"
    BY <1>a, <1>1, ClaimEffect DEF Inverting, Turn
  <1>4. \A b \in Action : row[b] \in {"restoring", "restore_failed", "restored"}
                           => row'[b] \in {"restoring", "restore_failed", "restored"}
    BY <1>a, ClaimEffect DEF TypeOK
  <1>5. ClaimedRows'
    BY <1>2, <1>3, <1>4 DEF ClaimInv, ClaimedRows
  <1>6. ASSUME NEW s \in Restorer \ {r}, NEW b \in Action,
               Inverting(r, b)', Inverting(s, b)',
               {snap'[r][b], snap'[s][b]} \subseteq {"planned", "applied"}
        PROVE  FALSE
    <2>1. b = a /\ Inverting(s, a) /\ snap'[r] = snap[r] /\ snap'[s] = snap[s]
      BY <1>a, <1>2, <1>3, <1>6, ClaimEffect
    <2>2. ~Inverting(r, a)
      BY <1>6, <2>1 DEF ClaimInv, ClaimExclusive
    <2>3. row[a] \in {"planned", "applied"}
      BY <1>3, <1>6, <2>1, <2>2
    <2> QED
      BY <2>1, <2>3 DEF ClaimInv, ClaimedRows
  <1>7. ASSUME NEW s \in Restorer \ {r}, NEW q \in Restorer \ {r}, NEW b \in Action,
               Inverting(q, b)', Inverting(s, b)',
               {snap'[q][b], snap'[s][b]} \subseteq {"planned", "applied"}
        PROVE  q = s
    BY <1>a, <1>2, <1>7, ClaimEffect DEF ClaimInv, ClaimExclusive
  <1>8. ClaimExclusive'
    <2> SUFFICES ASSUME NEW s \in Restorer, NEW q \in Restorer, NEW b \in Action,
                        Inverting(q, b)', Inverting(s, b)',
                        {snap'[q][b], snap'[s][b]} \subseteq {"planned", "applied"}
                 PROVE  q = s
      BY DEF ClaimExclusive
    <2> QED
      BY <1>6, <1>7
  <1> QED
    BY <1>5, <1>8

\* Every step preserves what the claim relies on.
LEMMA ClaimInvNext == ClaimInv /\ [Next]_vars => ClaimInv'
  <1> SUFFICES ASSUME ClaimInv, [Next]_vars PROVE ClaimInv'
    OBVIOUS
  <1>a. JournalInv' /\ TypeOK /\ RestoringDrained
    BY JournalInvNext DEF ClaimInv, JournalInv
  <1> SUFFICES ClaimedRows' /\ ClaimExclusive'
    BY <1>a DEF ClaimInv
  <1>1. CASE Run \/ RunFault
    <2>1. runPc # "over" /\ UNCHANGED restorerVars
      BY <1>1 DEF Run, RunFault, InsertPlanned, Apply, RetainPlanned, MarkApplied,
                  InsertFails, ApplyFails, MarkAppliedFails, RunEnds, restorerVars
    <2>2. \A r \in Restorer : pc'[r] = "idle"
      BY <1>a, <2>1 DEF RestoringDrained, restorerVars
    <2> QED
      BY <2>2 DEF ClaimedRows, ClaimExclusive, Inverting
  <1>2. CASE LateStatement \/ UNCHANGED vars
    <2>1. UNCHANGED <<row, restorerVars>>
      BY <1>2 DEF LateStatement, vars, restorerVars
    <2> QED
      BY <2>1 DEF ClaimInv, ClaimedRows, ClaimExclusive, Inverting, Turn, restorerVars
  <1>3. ASSUME NEW r \in Restorer,
               Discover(r) \/ StopTaggedSessions(r) \/ RestorerDies(r)
        PROVE  ClaimedRows' /\ ClaimExclusive'
    <2>1. /\ row' = row
          /\ pc'[r] \in {"idle", "drain", "claim"}
          /\ \A s \in Restorer \ {r} :
               pc'[s] = pc[s] /\ snap'[s] = snap[s] /\ todo'[s] = todo[s]
      BY <1>a, <1>3 DEF TypeOK, Discover, StopTaggedSessions, RestorerDies
    <2>2. \A s \in Restorer : \A b \in Action :
            Inverting(s, b)' => Inverting(s, b) /\ s # r
      BY <2>1 DEF Inverting, Turn
    <2> QED
      BY <2>1, <2>2 DEF ClaimInv, ClaimedRows, ClaimExclusive
  <1>4. ASSUME NEW r \in Restorer, NEW a \in Action, Turn(r, a),
               RestoreStep(r, a) \/ RestoreFault(r, a)
        PROVE  ClaimedRows' /\ ClaimExclusive'
    BY <1>4, RestorerKeepsClaims
  <1> QED
    BY <1>1, <1>2, <1>3, <1>4 DEF Next, RestoreActions

\* With or without the restore lock, the compare-and-set of ClaimAction lets one of
\* the restorers that read an unclaimed action past it.
THEOREM OneClaimSucceeds == Spec => []ClaimExclusive
  <1>1. Init => ClaimInv
    BY JournalInvInit DEF Init, ClaimInv, ClaimedRows, ClaimExclusive, Inverting
  <1>2. ClaimInv => ClaimExclusive
    BY DEF ClaimInv
  <1> QED
    BY <1>1, <1>2, ClaimInvNext, PTL DEF Spec

-----------------------------------------------------------------------------
(* Refinement of the abstract promise.                                        *)

\* Two subsets that agree but for one element differ by that element at most.
LEMMA OneElementDifference ==
  ASSUME NEW S, NEW P \in SUBSET S, NEW Q \in SUBSET S, NEW a \in S,
         \A b \in S \ {a} : b \in Q <=> b \in P
  PROVE  /\ a \in Q => Q = P \cup {a}
         /\ a \notin Q => Q = P \ {a}
         /\ (a \in Q <=> a \in P) => Q = P
  OBVIOUS

\* A step that changes whether one action is pending, or whether its target
\* may be changed, and does not forget a faulty one, is a step of the abstract
\* specification.
LEMMA OneActionStep ==
  ASSUME NEW a \in Action,
         \A b \in Action \ {a} : /\ Pending(b)' <=> Pending(b)
                                 /\ MayBeForward(b)' <=> MayBeForward(b),
         \/ MayBeForward(a)' <=> MayBeForward(a)
         \/ /\ Pending(a)' <=> Pending(a)
            /\ MayBeForward(a)' => Pending(a),
         MayBeForward(a) => Pending(a)'
  PROVE  [Faults!Next]_(Faults!vars)
  <1> DEFINE P == {b \in Action : Pending(b)}
             F == {b \in Action : MayBeForward(b)}
  <1>1. /\ Pending(a)' => P' = P \cup {a}
        /\ ~Pending(a)' => P' = P \ {a}
        /\ (Pending(a)' <=> Pending(a)) => P' = P
    <2>1. /\ P' \in SUBSET Action
          /\ \A b \in Action : b \in P' <=> Pending(b)'
      BY DEF Pending
    <2>2. /\ P \in SUBSET Action
          /\ \A b \in Action : b \in P <=> Pending(b)
      OBVIOUS
    <2> HIDE DEF P
    <2>3. \A b \in Action \ {a} : b \in P' <=> b \in P
      BY <2>1, <2>2
    <2>4. /\ a \in P' => P' = P \cup {a}
          /\ a \notin P' => P' = P \ {a}
          /\ (a \in P' <=> a \in P) => P' = P
      BY <2>1, <2>2, <2>3, OneElementDifference
    <2> QED
      BY <2>1, <2>2, <2>4
  <1>2. /\ MayBeForward(a)' => F' = F \cup {a}
        /\ ~MayBeForward(a)' => F' = F \ {a}
        /\ (MayBeForward(a)' <=> MayBeForward(a)) => F' = F
    <2>1. /\ F' \in SUBSET Action
          /\ \A b \in Action : b \in F' <=> MayBeForward(b)'
      BY DEF MayBeForward
    <2>2. /\ F \in SUBSET Action
          /\ \A b \in Action : b \in F <=> MayBeForward(b)
      OBVIOUS
    <2> HIDE DEF F
    <2>3. \A b \in Action \ {a} : b \in F' <=> b \in F
      BY <2>1, <2>2
    <2>4. /\ a \in F' => F' = F \cup {a}
          /\ a \notin F' => F' = F \ {a}
          /\ (a \in F' <=> a \in F) => F' = F
      BY <2>1, <2>2, <2>3, OneElementDifference
    <2> QED
      BY <2>1, <2>2, <2>4
  <1>3. (a \in P <=> Pending(a)) /\ (a \in F <=> MayBeForward(a))
    OBVIOUS
  <1>4. \/ P' = P \cup {a} /\ F' = F
        \/ a \in P /\ F' = F \cup {a} /\ P' = P
        \/ F' = F \ {a} /\ P' = P
        \/ a \notin F /\ P' = P \ {a} /\ F' = F
    <2> HIDE DEF P, F
    <2> QED
      BY <1>1, <1>2, <1>3
  <1>5. Faults!Record(a) \/ Faults!Inject(a) \/ Faults!Repair(a) \/ Faults!Forget(a)
    BY <1>4 DEF Faults!Record, Faults!Inject, Faults!Repair, Faults!Forget
  <1> QED
    BY <1>5 DEF Faults!Next

\* A step of the run is a step of WriteAheadFaults, or none.
LEMMA RunRefines ==
  ASSUME JournalInv, Run \/ RunFault
  PROVE  [Faults!Next]_(Faults!vars)
  <1>a. TypeOK /\ WriteAhead /\ RunRecorded
    BY DEF JournalInv
  <1>1. runPc # "over" /\ current \in Action
    BY <1>a DEF TypeOK, Run, RunFault, InsertPlanned, Apply, RetainPlanned,
                MarkApplied, InsertFails, ApplyFails, MarkAppliedFails, RunEnds
  <1>c. PICK a \in Action : a = current
    BY <1>1
  <1>2. \A b \in Action \ {a} : /\ Pending(b)' <=> Pending(b)
                                /\ MayBeForward(b)' <=> MayBeForward(b)
    <2> USE <1>a, <1>c DEF TypeOK, Pending, MayBeForward, SetState, SetStateFails
    <2>1. CASE Run
      BY <2>1 DEF Run, InsertPlanned, Apply, RetainPlanned, MarkApplied
    <2>2. CASE RunFault
      BY <2>2 DEF RunFault, InsertFails, ApplyFails, MarkAppliedFails, RunEnds
    <2> QED
      BY <2>1, <2>2
  <1>3. /\ \/ MayBeForward(a)' <=> MayBeForward(a)
           \/ /\ Pending(a)' <=> Pending(a)
              /\ MayBeForward(a)' => Pending(a)
        /\ MayBeForward(a) => Pending(a)'
    <2> USE <1>a, <1>c DEF TypeOK, WriteAhead, RunRecorded, Pending, MayBeForward,
                           SetState, SetStateFails
    <2>1. CASE InsertPlanned \/ InsertFails
      BY <2>1 DEF InsertPlanned, InsertFails
    <2>2. CASE Apply
      BY <2>2 DEF Apply
    <2>4. CASE ApplyFails \/ RunEnds
      <3>1. row' = row /\ Pending(a)' <=> Pending(a)
        BY <2>4 DEF ApplyFails, RunEnds
      <3>2. MayBeForward(a) => Pending(a)
        BY DEF WriteAhead
      <3>3. runPc = "apply" => Pending(a)
        BY DEF RunRecorded
      <3>4. runPc # "apply" => (MayBeForward(a)' <=> MayBeForward(a))
        BY <2>4 DEF ApplyFails, RunEnds
      <3> QED
        BY <3>1, <3>2, <3>3, <3>4
    <2>3. CASE RetainPlanned \/ MarkApplied \/ MarkAppliedFails
      BY <2>3 DEF RetainPlanned, MarkApplied, MarkAppliedFails
    <2> QED
      BY <2>1, <2>2, <2>3, <2>4 DEF Run, RunFault
  <1> QED
    BY <1>2, <1>3, OneActionStep

\* A statement that lands late is a fault that was announced, or no step.
LEMMA LateRefines ==
  ASSUME JournalInv, LateStatement
  PROVE  [Faults!Next]_(Faults!vars)
  <1>a. TypeOK /\ WriteAhead
    BY DEF JournalInv
  <1>1. PICK s \in late :
          /\ late' = late \ {s}
          /\ \/ world' = [world EXCEPT ![s[1]] =
                            IF s[2] = "forward" THEN "forward" ELSE "baseline"]
             \/ world' = world
          /\ row' = row
    BY DEF LateStatement
  <1>2. /\ s[1] \in Action /\ s[2] \in Direction /\ s = <<s[1], s[2]>>
    BY <1>a DEF TypeOK
  <1> DEFINE a == s[1]
  <1>3. /\ MayBeForward(a)' => MayBeForward(a)
        /\ \A b \in Action \ {a} : MayBeForward(b)' <=> MayBeForward(b)
    <2>1. CASE s[2] = "forward"
      <3>1. \A b \in Action : <<b, "forward">> \in late' <=>
              b # a /\ <<b, "forward">> \in late
        BY <1>1, <1>2, <2>1
      <3>2. <<a, "forward">> \in late
        BY <1>2, <2>1
      <3>3. \A b \in Action \ {a} : world'[b] = world[b]
        BY <1>a, <1>1, <1>2 DEF TypeOK
      <3> QED
        BY <3>1, <3>2, <3>3, <1>2 DEF MayBeForward
    <2>2. CASE s[2] # "forward"
      <3>1. \A b \in Action : <<b, "forward">> \in late' <=> <<b, "forward">> \in late
        BY <1>1, <1>2, <2>2
      <3>2. /\ world'[a] \in {world[a], "baseline"}
            /\ \A b \in Action \ {a} : world'[b] = world[b]
        BY <1>a, <1>1, <1>2, <2>2 DEF TypeOK
      <3>3. a \in Action
        BY <1>2
      <3> HIDE DEF a
      <3> QED
        BY <3>1, <3>2, <3>3 DEF MayBeForward
    <2> QED
      BY <2>1, <2>2
  <1>4. \A b \in Action : Pending(b)' <=> Pending(b)
    BY <1>1 DEF Pending
  <1>5. MayBeForward(a) => Pending(a)
    BY <1>a, <1>2 DEF WriteAhead
  <1> QED
    BY <1>2, <1>3, <1>4, <1>5, OneActionStep

\* A step of a restorer removes a fault, ends a pending action, or is no step.
LEMMA RestorerRefines ==
  ASSUME JournalInv, NEW r \in Restorer, NEW a \in Action, Turn(r, a),
         RestoreStep(r, a) \/ RestoreFault(r, a)
  PROVE  [Faults!Next]_(Faults!vars)
  <1>a. TypeOK /\ WriteAhead /\ RestoringDrained /\ MarkedAtBaseline
    BY DEF JournalInv
  <1>b. /\ pc[r] \notin {"idle", "drain"}
        /\ RowEffect(r, a) /\ TargetEffect(a)
        /\ row' = row \/ UNCHANGED <<world, late>>
    BY <1>a, RestorerEffect
  <1>1. \A b \in Action : <<b, "forward">> \notin late
    BY <1>a, <1>b DEF RestoringDrained, Drained
  <1>2. \A b \in Action : <<b, "forward">> \notin late'
    <2>1. late' \subseteq late \cup {<<a, "inverse">>}
      BY <1>b DEF TargetEffect
    <2>2. \A b \in Action : <<b, "forward">> # <<a, "inverse">>
      OBVIOUS
    <2> QED
      BY <1>1, <2>1, <2>2
  <1>3. \A b \in Action \ {a} : /\ Pending(b)' <=> Pending(b)
                                /\ MayBeForward(b)' <=> MayBeForward(b)
    BY <1>a, <1>b, <1>1, <1>2 DEF RowEffect, TargetEffect, TypeOK, Pending, MayBeForward
  <1>4. MayBeForward(a)' => MayBeForward(a)
    BY <1>a, <1>b, <1>1, <1>2 DEF TargetEffect, TypeOK, MayBeForward
  <1>5. MayBeForward(a) => Pending(a)
    BY <1>a DEF WriteAhead
  <1>6. MayBeForward(a) => pc[r] # "mark"
    BY <1>a, <1>1 DEF MarkedAtBaseline, MayBeForward
  <1>7. MayBeForward(a) => Pending(a)'
    BY <1>a, <1>b, <1>5, <1>6 DEF RowEffect, TypeOK, Pending
  <1>8. CASE row' = row
    <2>1. Pending(a)' <=> Pending(a)
      BY <1>8 DEF Pending
    <2> QED
      BY <2>1, <1>3, <1>4, <1>5, <1>7, OneActionStep
  <1>9. CASE UNCHANGED <<world, late>>
    <2>1. MayBeForward(a)' <=> MayBeForward(a)
      BY <1>9 DEF MayBeForward
    <2> QED
      BY <2>1, <1>3, <1>7, OneActionStep
  <1> QED
    BY <1>b, <1>8, <1>9

\* A restorer reads its list, waits or dies: nothing is recorded, changed or forgotten.
LEMMA ListRefines ==
  ASSUME JournalInv, NEW r \in Restorer,
         Discover(r) \/ StopTaggedSessions(r) \/ RestorerDies(r)
  PROVE  UNCHANGED (Faults!vars)
  <1>a. TypeOK /\ RestoringDrained
    BY DEF JournalInv
  <1>1. /\ UNCHANGED <<row, world>>
        /\ late' = late \/ \E a \in todo[r] : late' = late \cup {<<a, "inverse">>}
    BY DEF Discover, StopTaggedSessions, RestorerDies
  <1>2. \A b \in Action : <<b, "forward">> \in late' <=> <<b, "forward">> \in late
    BY <1>1
  <1>3. \A b \in Action : /\ Pending(b)' <=> Pending(b)
                          /\ MayBeForward(b)' <=> MayBeForward(b)
    BY <1>1, <1>2 DEF Pending, MayBeForward
  <1>4. /\ {b \in Action : Pending(b)}' = {b \in Action : Pending(b)}
        /\ {b \in Action : MayBeForward(b)}' = {b \in Action : MayBeForward(b)}
    BY <1>1, <1>2 DEF Pending, MayBeForward
  <1> QED
    BY <1>4 DEF Faults!vars

\* In every run of the protocol a fault exists only while it is recorded, and
\* a record is dropped only when its fault is gone.
THEOREM JournalImplementsWriteAheadFaults == Spec => ImplementsWriteAheadFaults
  <1>1. Init => Faults!Init
    BY DEF Init, Faults!Init, Pending, MayBeForward
  <1>2. JournalInv /\ [Next]_vars => [Faults!Next]_(Faults!vars)
    <2> SUFFICES ASSUME JournalInv, [Next]_vars PROVE [Faults!Next]_(Faults!vars)
      OBVIOUS
    <2>1. CASE Run \/ RunFault
      BY <2>1, RunRefines
    <2>2. CASE LateStatement
      BY <2>2, LateRefines
    <2>3. ASSUME NEW r \in Restorer,
                 Discover(r) \/ StopTaggedSessions(r) \/ RestorerDies(r)
          PROVE  [Faults!Next]_(Faults!vars)
      BY <2>3, ListRefines
    <2>4. ASSUME NEW r \in Restorer, NEW a \in Action, Turn(r, a),
                 RestoreStep(r, a) \/ RestoreFault(r, a)
          PROVE  [Faults!Next]_(Faults!vars)
      BY <2>4, RestorerRefines
    <2>5. CASE UNCHANGED vars
      BY <2>5 DEF vars, Faults!vars, Pending, MayBeForward
    <2> QED
      BY <2>1, <2>2, <2>3, <2>4, <2>5 DEF Next, RestoreActions
  <1> QED
    BY <1>1, <1>2, JournalInvInit, JournalInvNext, PTL
       DEF Spec, ImplementsWriteAheadFaults, Faults!Spec
=============================================================================
